------------------------------ MODULE Figures ------------------------------
(***************************************************************************)
(* What every metric is made with: the calendar, the row with its floor,   *)
(* and the statistics. A date is a number of days, MonthDays of them in    *)
(* every month; a figure is a fraction <<n, d>>, or << >> when there is    *)
(* none.                                                                   *)
(***************************************************************************)
EXTENDS Integers, Sequences, FiniteSets, FiniteSetsExt, Functions, TLC

CONSTANTS
  MonthDays,  \* days of a month
  Trailing,   \* months of the trailing window: 12
  Floor       \* FLOOR_RATE_RATIO, FLOOR_CONCENTRATION, FLOOR_LATENCY

NoFigure == << >>
Figure(n) == <<n, 1>>
Ratio(n, d) == IF d = 0 THEN NoFigure ELSE <<n, d>>

SameFigure(a, b) == IF a = NoFigure \/ b = NoFigure THEN a = b ELSE a[1] * b[2] = b[1] * a[2]

-----------------------------------------------------------------------------
MonthStart(d) == d - (d % MonthDays)
MonthEnd(d) == MonthStart(d) + MonthDays - 1
AddMonths(d, n) == MonthStart(d) + n * MonthDays

TrailingWindow(end) == AddMonths(end, 1 - Trailing)..end

QuarterStart(d) == d - (d % (3 * MonthDays))
QuarterEnd(d) == QuarterStart(d) + 3 * MonthDays - 1
AddQuarters(d, n) == AddMonths(d, 3 * n)

(* Mutant of LastCompletedMonth: the month that is not over counts.        *)
LastCompletedMonthRunning(asOf) == MonthStart(asOf)

LastCompletedMonth(asOf) == AddMonths(asOf, -1)

(* Every completed month from the first with data to the last one.         *)
DenseMonths(first, asOf) ==
  {m \in MonthStart(first)..LastCompletedMonth(asOf) : m = MonthStart(m)}

DenseQuarters(first, asOf) ==
  {q \in QuarterStart(first)..AddQuarters(QuarterStart(asOf), -1) : q = QuarterStart(q)}

-----------------------------------------------------------------------------
(* A headcount is shown whatever it is; any other figure below the floor,  *)
(* or forced to, is withheld.                                              *)
Headcount(n) == [value |-> Figure(n), n |-> n, ok |-> TRUE]

MakeRow(raw, n, force) ==
  LET ok == n >= Floor /\ raw # NoFigure /\ ~force
  IN  [value |-> IF ok THEN raw ELSE NoFigure, n |-> n, ok |-> ok]

(* The Herfindahl-Hirschman index of credits by person or organisation.    *)
Hhi(credits) ==
  LET total == SumFunction(credits)
  IN  IF total = 0 THEN NoFigure
      ELSE <<SumFunction([x \in DOMAIN credits |-> credits[x] * credits[x]]), total * total>>

(* The k-th smallest value of a function.                                  *)
Nth(f, k) == CHOOSE v \in Range(f) : /\ Cardinality({x \in DOMAIN f : f[x] < v}) < k
                                     /\ k <= Cardinality({x \in DOMAIN f : f[x] <= v})

Median(f) ==
  LET n == Cardinality(DOMAIN f)
  IN  IF n = 0 THEN NoFigure ELSE <<Nth(f, (n + 1) \div 2) + Nth(f, (n + 2) \div 2), 2>>

(* The 90th percentile, between the two nearest values.                    *)
Percentile90(f) ==
  LET n == Cardinality(DOMAIN f)   k == (n - 1) * 9
      low == Nth(f, k \div 10 + 1)
      high == Nth(f, Min({k \div 10 + 2, n}))
  IN  IF n = 0 THEN NoFigure ELSE <<10 * low + (high - low) * (k % 10), 10>>

(* The k with the most credits, the smaller name first.                    *)
Top(credits, k) ==
  LET above(x) == {y \in DOMAIN credits : credits[y] > credits[x] \/ (credits[y] = credits[x] /\ y < x)}
  IN  {x \in DOMAIN credits : Cardinality(above(x)) < k}

(* How many, from the top, reach half of all credits.                      *)
ReachHalf(credits) ==
  LET total == SumFunction(credits)
  IN  IF total = 0 THEN NoFigure
      ELSE Figure(Min({k \in 1..Cardinality(DOMAIN credits) :
                         2 * SumFunctionOnSet(credits, Top(credits, k)) >= total}))

=============================================================================
