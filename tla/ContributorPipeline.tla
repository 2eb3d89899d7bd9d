------------------------ MODULE ContributorPipeline ------------------------
(***************************************************************************)
(* Who comes back after a first commit, how far, for how long, and who has *)
(* gone: computed each night from the dates of every person's commits.     *)
(***************************************************************************)
EXTENDS Figures

CONSTANTS
  People,
  FollowUp,      \* FIRST_TO_SECOND_FOLLOWUP_DAYS
  Horizon,       \* FUNNEL_HORIZON_DAYS
  Inactivity,    \* CHURN_INACTIVITY_DAYS
  Fifth,         \* the number of the fifth contribution: 5
  CohortFloor,   \* FLOOR_COHORT_SURVIVAL
  Marks,         \* days of the marks of the still-active table
  SurvivalMark,  \* 365, the day the headline survival is read at
  MaxDay, MaxCommits  \* days, commits (bounds)

Days == 0..MaxDay

VARIABLES
  faults,  \* nothing: the other metrics' parts have one
  world,   \* now: the day
  disk,    \* dates: of each person's commits, in order
  report   \* the metric rows of the last night

vars == <<faults, world, disk, report>>

Init ==
  /\ faults = {}
  /\ world = [now |-> 0]
  /\ disk = [dates |-> [p \in People |-> << >>]]
  /\ report = << >>

Commits == SumFunction([p \in People |-> Len(disk.dates[p])])

(* Only the latest day can have a commit more: dates stay in order. A row  *)
(* stored twice, when a night was cut, is a second commit of the day.      *)
Commit(p) ==
  /\ Commits < MaxCommits
  /\ disk' = [disk EXCEPT !.dates[p] = Append(@, world.now)]
  /\ UNCHANGED <<faults, world, report>>

-----------------------------------------------------------------------------
CommitHistory == {p \in People : disk.dates[p] # << >>}
First(p) == disk.dates[p][1]
Last(p) == disk.dates[p][Len(disk.dates[p])]
FirstDays == {First(p) : p \in CommitHistory}

CohortByMonth(m) == {p \in CommitHistory : MonthStart(First(p)) = m}

(* The months of cohorts; a month without one has no row.                  *)
Cohorts(asOf) ==
  IF FirstDays = {} THEN {} ELSE {m \in DenseMonths(Min(FirstDays), asOf) : CohortByMonth(m) # {}}

Converted(p) == Len(disk.dates[p]) >= 2 /\ disk.dates[p][2] - First(p) <= FollowUp

(* Once the cohort's last member has had the whole time.                   *)
FirstToSecondConversionRate(asOf) ==
  [m \in {m \in Cohorts(asOf) : MonthEnd(m) + FollowUp < asOf} |->
     LET n == Cardinality(CohortByMonth(m))
     IN  MakeRow(Ratio(Cardinality({p \in CohortByMonth(m) : Converted(p)}), n), n, FALSE)]

Stages == {"second_contribution", "fifth_contribution", "sustained_contributor"}

FunnelStagesReached(p) ==
  LET dates == disk.dates[p]   end == First(p) + Horizon
      by(k) == k \in DOMAIN dates /\ dates[k] <= end
  IN  {s \in Stages :
         CASE s = "second_contribution" -> by(2)
           [] s = "fifth_contribution" -> by(Fifth)
           [] s = "sustained_contributor" ->
                \E k \in Fifth..Len(dates) : by(k) /\ dates[k] - dates[k - Fifth + 1] <= Inactivity}

FunnelStageConversion(asOf) ==
  [m \in Cohorts(asOf) |->
     LET cohort == CohortByMonth(m)   n == Cardinality(cohort)
         reached(s) == {p \in cohort : s \in FunnelStagesReached(p)}
         over(s) == {p \in cohort \ reached(s) : asOf > First(p) + Horizon}
     IN  MakeRow(Ratio(Cardinality(reached("sustained_contributor")), n), n, FALSE)
           @@ [stages |-> [s \in Stages |->
                 [reached |-> Cardinality(reached(s)), not_reached |-> Cardinality(over(s)),
                  in_flight |-> n - Cardinality(reached(s)) - Cardinality(over(s))]]]]

SustainedContributorCount(asOf) ==
  [m \in IF FirstDays = {} THEN {} ELSE DenseMonths(Min(FirstDays), asOf) |->
     Headcount(Cardinality({p \in People :
       Cardinality({k \in DOMAIN disk.dates[p] : disk.dates[p][k] \in TrailingWindow(MonthEnd(m))}) >= Fifth}))]

(* Of those active in the window that ended a window and a month before,   *)
(* who has no commit after it, up to tonight.                              *)
ContributorChurnRate(asOf) ==
  [m \in IF FirstDays = {} THEN {} ELSE DenseMonths(AddMonths(Min(FirstDays), Trailing + 1), asOf) |->
     LET window == TrailingWindow(MonthEnd(AddMonths(m, -(Trailing + 1))))
         active == {p \in CommitHistory : \E k \in DOMAIN disk.dates[p] : disk.dates[p][k] \in window}
         churned == {p \in active : Last(p) \in window}
     IN  MakeRow(Ratio(Cardinality(churned), Cardinality(active)), Cardinality(active), FALSE)
           @@ [churned |-> Cardinality(churned)]]

-----------------------------------------------------------------------------
(* A contributor's time ends with the last commit, if that is long ago;    *)
(* else it is censored tonight.                                            *)
Gone(p, asOf) == Last(p) + Inactivity <= asOf
Duration(p, asOf) == (IF Gone(p, asOf) THEN Last(p) ELSE asOf) - First(p)

(* The estimate after t: over every time up to t, the share at risk that   *)
(* stays.                                                                  *)
KaplanMeier(cohort, asOf) ==
  LET times == {Duration(p, asOf) : p \in cohort}
      risk(t) == Cardinality({p \in cohort : Duration(p, asOf) >= t})
      events(t) == Cardinality({p \in cohort : Duration(p, asOf) = t /\ Gone(p, asOf)})
      product(t) == <<FoldSet(LAMBDA u, n : n * (risk(u) - events(u)), 1, {u \in times : u <= t}),
                      FoldSet(LAMBDA u, n : n * risk(u), 1, {u \in times : u <= t})>>
  IN  [t \in times |-> product(t)]

SurvivalAt(curve, t) ==
  LET before == {u \in DOMAIN curve : u <= t}
  IN  IF before = {} THEN Figure(1) ELSE curve[Max(before)]

StillActiveTable(cohort, asOf) ==
  [mark \in Marks |->
     LET eligible == {p \in cohort : asOf - First(p) >= mark}
     IN  <<Cardinality({p \in eligible : Last(p) + Inactivity >= First(p) + mark}), Cardinality(eligible)>>]

(* One row, of those who began in the last two windows; below the floor a  *)
(* table instead of the curve.                                             *)
ContributorTenureSurvival(asOf) ==
  LET end == MonthEnd(LastCompletedMonth(asOf))
      cohort == {p \in CommitHistory : First(p) \in AddMonths(end, 1 - 2 * Trailing)..end}
      n == Cardinality(cohort)
      curve == KaplanMeier(cohort, asOf)
  IN  IF n < CohortFloor THEN [value |-> NoFigure, n |-> n, ok |-> FALSE, table |-> StillActiveTable(cohort, asOf)]
      ELSE [value |-> SurvivalAt(curve, SurvivalMark), n |-> n, ok |-> TRUE, curve |-> curve,
            events |-> Cardinality({p \in cohort : Gone(p, asOf)})]

ComputeContributorPipeline(asOf) ==
  [first_to_second_conversion_rate |-> FirstToSecondConversionRate(asOf),
   funnel_stage_conversion |-> FunnelStageConversion(asOf),
   contributor_tenure_survival |-> ContributorTenureSurvival(asOf),
   contributor_churn_rate |-> ContributorChurnRate(asOf),
   sustained_contributor_count |-> SustainedContributorCount(asOf)]

NextDay ==
  /\ world.now < MaxDay
  /\ world' = [now |-> world.now + 1]
  /\ UNCHANGED <<faults, disk>>
  /\ report' = ComputeContributorPipeline(world.now + 1)

Next == NextDay \/ \E p \in People : Commit(p)

-----------------------------------------------------------------------------
TypeOK ==
  /\ faults = {} /\ world.now \in Days
  /\ \A p \in People : \A k \in DOMAIN disk.dates[p] :
       disk.dates[p][k] \in 0..world.now /\ (k > 1 => disk.dates[p][k - 1] <= disk.dates[p][k])

(* Every member of a cohort is in one state of each stage, a later stage   *)
(* has no more than an earlier one, and who converts in the follow-up time *)
(* is in the funnel's second stage.                                        *)
StagesNest ==
  report # << >> =>
    \A m \in DOMAIN report.funnel_stage_conversion :
      LET row == report.funnel_stage_conversion[m]   in(s) == row.stages[s]
      IN  /\ \A s \in Stages : in(s).in_flight >= 0
          /\ in("sustained_contributor").reached <= in("fifth_contribution").reached
          /\ in("fifth_contribution").reached <= in("second_contribution").reached
          /\ m \in DOMAIN report.first_to_second_conversion_rate =>
               LET rate == report.first_to_second_conversion_rate[m]
               IN  rate.ok => rate.value[1] <= in("second_contribution").reached

(* The estimate of survival never rises, and is the plain share of those   *)
(* who stayed longer when everyone's end is known.                         *)
SurvivalIsShare ==
  (report # << >> /\ report.contributor_tenure_survival.ok) =>
    LET row == report.contributor_tenure_survival   curve == row.curve
        cohort == {p \in CommitHistory : First(p) \in AddMonths(LastCompletedMonth(world.now), 1 - 2 * Trailing)..(MonthEnd(LastCompletedMonth(world.now)))}
    IN  /\ \A t, u \in DOMAIN curve : t <= u => curve[u][1] * curve[t][2] <= curve[t][1] * curve[u][2]
        /\ (row.events = row.n /\ \A p \in cohort : Gone(p, world.now)) =>
             \A t \in DOMAIN curve :
               SameFigure(curve[t], <<Cardinality({p \in cohort : Last(p) - First(p) > t}), row.n>>)

(* What was told of conversion stands; a stage reached stays reached, and  *)
(* missed stays missed; who was gone can only have come back.              *)
HistoryStands ==
  report # << >> =>
    /\ \A m \in DOMAIN report.first_to_second_conversion_rate :
         report'.first_to_second_conversion_rate[m] = report.first_to_second_conversion_rate[m]
    /\ \A m \in DOMAIN report.sustained_contributor_count :
         report'.sustained_contributor_count[m] = report.sustained_contributor_count[m]
    /\ \A m \in DOMAIN report.funnel_stage_conversion, s \in Stages :
         LET old == report.funnel_stage_conversion[m].stages[s]
             new == report'.funnel_stage_conversion[m].stages[s]
         IN  new.reached >= old.reached /\ new.not_reached >= old.not_reached
    /\ \A m \in DOMAIN report.contributor_churn_rate :
         report'.contributor_churn_rate[m].churned <= report.contributor_churn_rate[m].churned

=============================================================================
