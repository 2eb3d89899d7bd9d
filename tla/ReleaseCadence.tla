--------------------------- MODULE ReleaseCadence ---------------------------
(***************************************************************************)
(* How often and how regularly releases come, and how many people join the *)
(* committee each quarter. Releases and roster are tables written whole.   *)
(***************************************************************************)
EXTENDS Figures

CONSTANTS
  MinReleases,   \* RELEASE_REGULARITY_MIN_RELEASES
  Members,       \* people who may join
  MaxDay, MaxReleases  \* days, releases (bounds)

Days == 0..MaxDay

(* A row of the roster, as far as it matters here. *)
RosterEntry == [member : Members, on : Days \cup {-1}]

VARIABLES
  faults,  \* nothing: the other metrics' parts have one
  world,   \* now: the day
  disk,    \* dates: of releases, in order; joined: [member, on], on -1 unknown
  report   \* the metric rows of the last night

vars == <<faults, world, disk, report>>

Init ==
  /\ faults = {}
  /\ world = [now |-> 0]
  /\ disk = [dates |-> << >>, joined |-> {}]
  /\ report = << >>

Release ==
  /\ Len(disk.dates) < MaxReleases
  /\ disk' = [disk EXCEPT !.dates = Append(@, world.now)]
  /\ UNCHANGED <<faults, world, report>>

(* A member may join without a date of joining.                            *)
Join(p, on) ==
  /\ \A j \in disk.joined : j.member # p
  /\ disk' = [disk EXCEPT !.joined = @ \cup {[member |-> p, on |-> on]}]
  /\ UNCHANGED <<faults, world, report>>

-----------------------------------------------------------------------------
AllReleaseDates == disk.dates

Trailing24m(m) == AddMonths(m, 1 - 2 * Trailing)..MonthEnd(m)

InWindow(window) == {k \in DOMAIN AllReleaseDates : AllReleaseDates[k] \in window}

(* The days between one release of the window and the next.                *)
GapsInWindow(window) ==
  [k \in {k \in InWindow(window) : k + 1 \in InWindow(window)} |-> AllReleaseDates[k + 1] - AllReleaseDates[k]]

Months(asOf) == IF AllReleaseDates = << >> THEN {} ELSE DenseMonths(AllReleaseDates[1], asOf)

ReleaseFrequency(asOf) == [m \in Months(asOf) |-> Headcount(Cardinality(InWindow(Trailing24m(m))))]

EnoughFloor(raw, n) == [value |-> IF n >= MinReleases THEN raw ELSE NoFigure, n |-> n,
                        ok |-> n >= MinReleases /\ raw # NoFigure]

(* The square of the coefficient of variation of the gaps, of which there  *)
(* are two or more; no figure when all releases came on one day.           *)
Regularity(gaps) ==
  LET n == Cardinality(DOMAIN gaps)
      sum == SumFunction(gaps)
      squares == SumFunction([k \in DOMAIN gaps |-> (n * gaps[k] - sum) * (n * gaps[k] - sum)])
  IN  IF n < 2 \/ sum = 0 THEN NoFigure ELSE <<squares, (n - 1) * sum * sum>>

ReleaseRegularity(asOf) ==
  [m \in Months(asOf) |->
     EnoughFloor(Regularity(GapsInWindow(Trailing24m(m))), Cardinality(InWindow(Trailing24m(m))))
       @@ [intervals |-> Cardinality(DOMAIN GapsInWindow(Trailing24m(m)))]]

DaysBetweenReleases(asOf) ==
  [m \in Months(asOf) |->
     LET gaps == GapsInWindow(Trailing24m(m))
     IN  EnoughFloor(Median(gaps), Cardinality(InWindow(Trailing24m(m))))
           @@ [mean |-> Ratio(SumFunction(gaps), Cardinality(DOMAIN gaps))]]

TimeSinceLastRelease(asOf) ==
  IF AllReleaseDates = << >> THEN NoFigure ELSE Figure(asOf - AllReleaseDates[Len(AllReleaseDates)])

ComputeReleaseCadence(asOf) ==
  [release_frequency |-> ReleaseFrequency(asOf),
   release_regularity |-> ReleaseRegularity(asOf),
   days_between_releases |-> DaysBetweenReleases(asOf),
   time_since_last_release |-> TimeSinceLastRelease(asOf)]

(* Members without a date are in no quarter.                               *)
PmcJoinsQuarterly(asOf) ==
  LET dated == {j \in disk.joined : j.on # -1}
  IN  [q \in IF dated = {} THEN {} ELSE DenseQuarters(Min({j.on : j \in dated}), asOf) |->
         Headcount(Cardinality({j.member : j \in {j \in dated : j.on \in q..QuarterEnd(q)}}))]

NextDay ==
  /\ world.now < MaxDay
  /\ world' = [now |-> world.now + 1]
  /\ UNCHANGED <<faults, disk>>
  /\ report' = ComputeReleaseCadence(world.now + 1) @@ [pmc_joins_quarterly |-> PmcJoinsQuarterly(world.now + 1)]

Next == NextDay \/ Release \/ \E p \in Members, on \in {-1, world.now} : Join(p, on)

-----------------------------------------------------------------------------
TypeOK ==
  /\ faults = {} /\ world.now \in Days
  /\ \A k \in DOMAIN disk.dates : disk.dates[k] \in 0..world.now
  /\ disk.joined \subseteq RosterEntry

(* Over a window with n releases there are n - 1 gaps, which add up to no  *)
(* more than the window; perfectly regular releases are the ones whose     *)
(* median gap is the mean and whose variation is none.                     *)
CadenceAgrees ==
  report # << >> =>
    \A m \in DOMAIN report.release_frequency :
      LET regular == report.release_regularity[m]   between == report.days_between_releases[m]
      IN  /\ report.release_frequency[m].n > 0 => regular.intervals = report.release_frequency[m].n - 1
          /\ regular.ok => between.ok
          /\ between.ok => between.mean[1] < 2 * Trailing * MonthDays
          /\ regular.ok /\ regular.value[1] = 0 => SameFigure(between.value, between.mean)

(* Everyone who joined with a date, in a quarter that is over, is in one   *)
(* quarter's count.                                                        *)
JoinsCountOnce ==
  report # << >> =>
    SumFunction([q \in DOMAIN PmcJoinsQuarterly(world.now) |-> PmcJoinsQuarterly(world.now)[q].n])
      = Cardinality({j \in disk.joined : j.on # -1 /\ j.on < QuarterStart(world.now)})

HistoryStands ==
  report # << >> =>
    \A metric \in DOMAIN report \ {"time_since_last_release"} :
      \A m \in DOMAIN report[metric] : report'[metric][m] = report[metric][m]

=============================================================================
