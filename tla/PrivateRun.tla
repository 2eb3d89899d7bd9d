------------------------------ MODULE PrivateRun ------------------------------
(***************************************************************************)
(* The private run: of each stratum (a venue's threads of one quarter) a   *)
(* sample, the messages of the sampled threads fetched and rated under a   *)
(* cap on calls, and four files written one after the other: the index of  *)
(* messages, the rows of threads, a line of the cost ledger, and the       *)
(* aggregates. The ratings stay in a cache, so a run that was cut, or that *)
(* reached its cap, is gone on with by the next. The operator then         *)
(* publishes: first the aggregates, then the threads.                      *)
(*                                                                         *)
(* What is rated is a text under its parent's; equal ones share a rating.  *)
(* Intervals of confidence are left out: only whether there is one.        *)
(***************************************************************************)
EXTENDS Integers, FiniteSets, FiniteSetsExt, Sequences, SequencesExt, Functions

CONSTANTS
  Threads,         \* threads, in the order of their rank in the sample
  VenueOf,         \* thread -> "mail" or "jira"
  QuarterOf,       \* thread -> the quarter it starts in
  YearOf,          \* quarter -> year
  TrendWindows,    \* TREND_WINDOWS: name -> years
  Texts, Rating,   \* texts of messages; text -> label -> 0..High
  High, Cutoffs, Headline,
  K,               \* threads sampled of a stratum
  Scale,           \* a multiple of 1..K, the unit of weights
  Cap,             \* calls a run may make
  MaxPerThread,    \* MAX_MESSAGES_PER_THREAD
  MinMessages, MinAuthors,   \* floors
  Bots,            \* automated senders
  Unsafe,          \* threads whose row the publication refuses
  ThisYear,        \* the year in which the page is built
  MaxRuns, MaxEdits,  \* (bounds)
  Environments     \* each a behaviour's posts, their authors and texts, and what may happen

Venues   == {"mail", "jira"}
Quarters == DOMAIN YearOf
Years    == Range(YearOf)
Strata   == Venues \X Quarters
Places   == 1..MaxPerThread
Hashes   == Texts \X (Texts \cup {0})
Rated    == DOMAIN Rating[CHOOSE t \in Texts : TRUE]

PendingMessage == [thread : Threads, place : Places, author : Nat, hash : Hashes]

Stages == {"idle", "classify", "index", "threads", "ledger", "aggregates", "publish"}

VARIABLES
  faults,  \* the environment; never changes
  world,   \* frame: threads there are; archive: their messages; posts, edits, runs so far
  disk,    \* cache: hashes rated; index, threads, ledger, aggregates: files; patterns, explorer: published
  run      \* stage; strata; pending; calls; skipped: hashes skipped; paused; begun: number of the run

vars == <<faults, world, disk, run>>

NoRun == [stage |-> "idle", strata |-> << >>, pending |-> {}, calls |-> 0, skipped |-> {}, paused |-> FALSE,
          begun |-> 0]

Init ==
  /\ faults \in Environments
  /\ world = [frame |-> {}, archive |-> [t \in Threads |-> << >>], posts |-> 0, edits |-> 0, runs |-> 0]
  /\ disk = [cache |-> {}, index |-> << >>, threads |-> << >>, ledger |-> << >>, aggregates |-> << >>,
             manifest |-> << >>, patterns |-> << >>, explorer |-> << >>]
  /\ run = NoRun

-----------------------------------------------------------------------------
(* An issue is in the frame before it has a comment, a thread of mail from *)
(* its first mail on. Comments can be edited. A run looks at none of this  *)
(* once it has fetched, so what happens during it happens after it.        *)
Outside == run.stage = "idle"

Open(t) ==
  /\ Outside /\ VenueOf[t] = "jira" /\ t \in faults.threads \ world.frame
  /\ world' = [world EXCEPT !.frame = @ \cup {t}]
  /\ UNCHANGED <<faults, disk, run>>

Post(t, message) ==
  /\ Outside /\ world.posts < faults.posts
  /\ t \in faults.threads /\ (VenueOf[t] = "jira" => t \in world.frame)
  /\ world' = [world EXCEPT !.posts = @ + 1, !.frame = @ \cup {t}, !.archive[t] = Append(@, message)]
  /\ UNCHANGED <<faults, disk, run>>

Edit(t, k, text) ==
  /\ Outside /\ "edit" \in faults.what /\ world.edits < MaxEdits
  /\ VenueOf[t] = "jira" /\ k \in DOMAIN world.archive[t] /\ world.archive[t][k].text # text
  /\ world' = [world EXCEPT !.edits = @ + 1, !.archive[t][k].text = text]
  /\ UNCHANGED <<faults, disk, run>>

-----------------------------------------------------------------------------
Frame(s) == {t \in world.frame : <<VenueOf[t], QuarterOf[t]>> = s}

(* The first K of a stratum by a rank that nothing else depends on.        *)
DeterministicSample(S) == {t \in S : Cardinality({u \in S : u < t}) < K}

SampleStratum(s) == [population |-> Cardinality(Frame(s)), sampled |-> DeterministicSample(Frame(s))]

SampleAllStrata == [s \in Strata |-> SampleStratum(s)]

StratumOf(strata, t) == strata[<<VenueOf[t], QuarterOf[t]>>]

(* What a sampled thread stands for, in units of Scale.                    *)
Weight(strata, t) ==
  LET s == StratumOf(strata, t) IN (Scale * s.population) \div Cardinality(s.sampled)

(* The first messages of a thread, less the automata's; with the text of   *)
(* the message before.                                                     *)
Collect(t) ==
  LET a == world.archive[t]
      parent(k) == IF k = 1 THEN 0 ELSE a[k - 1].text
  IN  {[thread |-> t, place |-> k, author |-> a[k].author, hash |-> <<a[k].text, parent(k)>>] :
         k \in {k \in DOMAIN a : k <= MaxPerThread /\ a[k].author \notin Bots}}

BeginRun(classify) ==
  LET strata == SampleAllStrata
  IN  /\ run.stage = "idle" /\ world.runs < MaxRuns
      /\ classify \/ "no_classify" \in faults.what
      /\ world' = [world EXCEPT !.runs = @ + 1]
      /\ run' = [NoRun EXCEPT !.stage = IF classify THEN "classify" ELSE "index", !.strata = strata,
                              !.pending = UNION {Collect(t) : t \in UNION {strata[s].sampled : s \in Strata}},
                              !.begun = world.runs + 1]
      /\ UNCHANGED <<faults, disk>>

(* The sample alone, to look at.                                           *)
SampleOnly ==
  /\ run.stage = "idle" /\ "sample_only" \in faults.what /\ disk.manifest # SampleAllStrata
  /\ disk' = [disk EXCEPT !.manifest = SampleAllStrata]
  /\ UNCHANGED <<faults, world, run>>

-----------------------------------------------------------------------------
(* One call of the classifier; a text the service will not take is skipped.*)
ToRate == {p.hash : p \in run.pending} \ (disk.cache \cup run.skipped)

Classify(h) ==
  /\ run.stage = "classify" /\ h \in ToRate /\ run.calls < Cap
  /\ disk' = [disk EXCEPT !.cache = @ \cup {h}]
  /\ run' = [run EXCEPT !.calls = @ + 1]
  /\ UNCHANGED <<faults, world>>

Skip(h) ==
  /\ run.stage = "classify" /\ h \in ToRate /\ "skip" \in faults.what /\ run.calls < Cap
  /\ run' = [run EXCEPT !.skipped = @ \cup {h}]
  /\ UNCHANGED <<faults, world, disk>>

(* Nothing is left to rate, or the cap is reached.                         *)
EndClassification ==
  /\ run.stage = "classify" /\ (ToRate = {} \/ run.calls >= Cap)
  /\ run' = [run EXCEPT !.stage = "index", !.paused = ToRate # {}]
  /\ UNCHANGED <<faults, world, disk>>

-----------------------------------------------------------------------------
(* What this run has a rating of, whoever's run it is from.                *)
FanOut == {p \in run.pending : p.hash \in disk.cache}

StratumMessages(S, s) == {p \in S : <<VenueOf[p.thread], QuarterOf[p.thread]>> = s}

WriteMessageIndex ==
  /\ run.stage = "index"
  /\ disk' = [disk EXCEPT !.index = [run |-> run.begun, entries |-> run.pending]]
  /\ run' = [run EXCEPT !.stage = "threads"]
  /\ UNCHANGED <<faults, world>>

(* A row for each thread with a rated message.                             *)
ThreadRow(t) ==
  LET mine == {p \in FanOut : p.thread = t}
  IN  [thread |-> t, quarter |-> QuarterOf[t], n_messages |-> Cardinality(mine),
       n_distinct_participants |-> Cardinality({p.author : p \in mine})]

WriteThreads ==
  /\ run.stage = "threads"
  /\ disk' = [disk EXCEPT !.threads = [run |-> run.begun, rows |-> {ThreadRow(p.thread) : p \in FanOut}]]
  /\ run' = [run EXCEPT !.stage = "ledger"]
  /\ UNCHANGED <<faults, world>>

AppendCostLedgerEntry ==
  /\ run.stage = "ledger"
  /\ disk' = [disk EXCEPT !.ledger = Append(@, run.calls)]
  /\ run' = [run EXCEPT !.stage = "aggregates"]
  /\ UNCHANGED <<faults, world>>

-----------------------------------------------------------------------------
WeightOfAll(S) == FoldSet(LAMBDA p, w : w + Weight(run.strata, p.thread), 0, S)

Insufficient(C) == Cardinality(C) < MinMessages \/ Cardinality({p.author : p \in C}) < MinAuthors

(* The labels present at a cutoff put a message in a tier of intensity.    *)
Tier == [resolution_marker |-> -2, acknowledgment |-> -1, compromise_offer |-> -1,
         technical_disagreement |-> 1, dismissiveness |-> 2, hostility |-> 3, personal_attack |-> 4]

IntensityTier(labels) == IF labels = {} THEN 0 ELSE Max({Tier[l] : l \in labels})

LabelsPresentAtCutoff(rating, cutoff) == {l \in DOMAIN rating : rating[l] >= cutoff}

Has(p, label, cutoff) == label \in LabelsPresentAtCutoff(Rating[p.hash[1]], cutoff)

Share(C, S) == <<WeightOfAll(S), WeightOfAll(C)>>

(* A cell pools the messages of some quarters of a venue. Below the floor  *)
(* it has counts alone.                                                    *)
AggregateCell(venue, quarters) ==
  LET C == UNION {StratumMessages(FanOut, <<venue, q>>) : q \in quarters}
      rates == [l \in Rated |-> [c \in Cutoffs |-> Share(C, {p \in C : Has(p, l, c)})]]
  IN  [messages |-> Cardinality(C), authors |-> Cardinality({p.author : p \in C}),
       sampled |-> SumFunction([q \in quarters |-> Cardinality(run.strata[<<venue, q>>].sampled)]),
       population |-> SumFunction([q \in quarters |-> run.strata[<<venue, q>>].population]),
       insufficient |-> Insufficient(C), rates |-> IF Insufficient(C) THEN << >> ELSE rates]

(* How a cell's messages divide among the tiers.                           *)
AggregateToneMixCell(venue, quarters, cutoff) ==
  LET C == UNION {StratumMessages(FanOut, <<venue, q>>) : q \in quarters}
      in(n) == {p \in C : IntensityTier(LabelsPresentAtCutoff(Rating[p.hash[1]], cutoff)) = n}
  IN  [messages |-> Cardinality(C), insufficient |-> Insufficient(C),
       tiers |-> IF Insufficient(C) THEN << >> ELSE [n \in -2..4 |-> Share(C, in(n))]]

QuartersOf(years) == {q \in Quarters : YearOf[q] \in years}

CiOverlap(early, recent) == IF early.insufficient \/ recent.insufficient THEN "insufficient data" ELSE "told"

ComputeTrendSummary(venue) ==
  LET windows == [w \in DOMAIN TrendWindows |-> AggregateCell(venue, QuartersOf(TrendWindows[w]))]
  IN  [windows |-> windows, overlap |-> CiOverlap(windows.early, windows.recent)]

(* What is missing, by stratum; nothing when nothing is.                   *)
PartialRun ==
  LET coverage(s) == [sampled |-> Cardinality(StratumMessages(run.pending, s)),
                      classified |-> Cardinality(StratumMessages(FanOut, s))]
  IN  IF FanOut = run.pending /\ run.skipped = {} THEN << >>
      ELSE [paused |-> run.paused, coverage_by_stratum |-> [s \in Strata |-> coverage(s)]]

CostLedger(ledger) ==
  [latest |-> run.calls, cumulative_from_cache |-> Cardinality(disk.cache),
   cumulative_from_ledger_runs |-> FoldLeft(LAMBDA a, b : a + b, 0, ledger)]

VenueTotals(venue) ==
  [messages_classified |-> SumFunction([q \in Quarters |-> Cardinality(StratumMessages(FanOut, <<venue, q>>))]),
   threads_sampled |-> SumFunction([q \in Quarters |-> Cardinality(run.strata[<<venue, q>>].sampled)])]

Aggregates ==
  [run |-> run.begun, strata |-> run.strata, partial_run |-> PartialRun, cost |-> CostLedger(disk.ledger),
   venue_totals |-> [v \in Venues |-> VenueTotals(v)],
   cells_by_quarter |-> [s \in Strata |-> AggregateCell(s[1], {s[2]})],
   cells_by_year |-> [x \in Venues \X Years |-> AggregateCell(x[1], QuartersOf({x[2]}))],
   tone_mix_by_quarter |-> [s \in Strata |-> [c \in Cutoffs |-> AggregateToneMixCell(s[1], {s[2]}, c)]],
   trend_summary |-> [v \in Venues |-> ComputeTrendSummary(v)]]

WriteAggregates ==
  LET told == Aggregates
  IN  /\ run.stage = "aggregates"
      /\ disk' = [disk EXCEPT !.aggregates = told]
      /\ run' = NoRun
      /\ UNCHANGED <<faults, world>>

(* The process dies, whatever it is at.                                    *)
Kill ==
  /\ "kill" \in faults.what /\ run.stage # "idle"
  /\ run' = NoRun
  /\ UNCHANGED <<faults, world, disk>>

-----------------------------------------------------------------------------
(* Nothing is published that has a figure below a floor.                   *)
CellFloor(cell) == cell.insufficient => cell.rates = << >>

ToneMixCellFloor(cell) == cell.insufficient => cell.tiers = << >>

FloorInvariants(a) ==
  /\ \A s \in Strata : CellFloor(a.cells_by_quarter[s])
  /\ \A x \in Venues \X Years : CellFloor(a.cells_by_year[x])
  /\ \A v \in Venues, w \in DOMAIN TrendWindows : CellFloor(a.trend_summary[v].windows[w])
  /\ \A s \in Strata, c \in Cutoffs : ToneMixCellFloor(a.tone_mix_by_quarter[s][c])

(* The public copy leaves out the cost by the cache.                       *)
SanitizeAggregates(a) ==
  [a EXCEPT !.cost = [latest |-> a.cost.latest, cumulative |-> a.cost.cumulative_from_ledger_runs]]

PublishAggregates ==
  /\ run.stage = "idle" /\ "publish" \in faults.what
  /\ disk.aggregates # << >> /\ FloorInvariants(disk.aggregates)
  /\ disk.patterns # << >> => disk.patterns.run < disk.aggregates.run
  /\ disk' = [disk EXCEPT !.patterns = SanitizeAggregates(disk.aggregates)]
  /\ run' = [run EXCEPT !.stage = "publish"]
  /\ UNCHANGED <<faults, world>>

SanitizeThreads(rows) == \A r \in rows : r.thread \notin Unsafe

(* One row that is refused refuses all; the aggregates are out by then.    *)
PublishThreads ==
  /\ run.stage = "publish"
  /\ disk' = IF SanitizeThreads(disk.threads.rows) THEN [disk EXCEPT !.explorer = disk.threads] ELSE disk
  /\ run' = NoRun
  /\ UNCHANGED <<faults, world>>

Next ==
  \/ \E t \in Threads : Open(t)
  \/ \E t \in Threads, m \in faults.messages : Post(t, m)
  \/ \E t \in Threads, k \in Places, x \in Texts : Edit(t, k, x)
  \/ \E classify \in BOOLEAN : BeginRun(classify)
  \/ SampleOnly
  \/ \E h \in Hashes : Classify(h) \/ Skip(h)
  \/ EndClassification
  \/ WriteMessageIndex \/ WriteThreads \/ AppendCostLedgerEntry \/ WriteAggregates
  \/ PublishAggregates \/ PublishThreads
  \/ Kill

Spec == Init /\ [][Next]_vars

-----------------------------------------------------------------------------
(* The page of patterns. A rate or the words "insufficient data".          *)
Insufficiently == "insufficient data"

RateAt(cell, label) == IF cell.rates = << >> THEN Insufficiently ELSE cell.rates[label][Headline]

SummaryByVenue(a, v) ==
  LET windows == a.trend_summary[v].windows
  IN  [early |-> [l \in Rated |-> RateAt(windows.early, l)], recent |-> [l \in Rated |-> RateAt(windows.recent, l)],
       overlap |-> a.trend_summary[v].overlap]

MessagePatternsByVenue(a, v) ==
  [y \in Years |-> [messages |-> a.cells_by_year[<<v, y>>].messages,
                    values |-> [l \in Rated |-> RateAt(a.cells_by_year[<<v, y>>], l)]]]

(* A year has rows, or it is among those too thin to show.                 *)
YoyRows(a, v) ==
  {[year |-> y, label |-> l, cutoff |-> c] : y \in {y \in Years : ~a.cells_by_year[<<v, y>>].insufficient},
                                             l \in Rated, c \in Cutoffs}

YoyInsufficientYears(a, v) == {y \in Years : a.cells_by_year[<<v, y>>].insufficient}

(* At most three years, to the last that is over.                          *)
YoyDefaultRange(years) ==
  LET to == Max({Min({ThisYear - 1, Max(years)}), Min(years)})
  IN  <<Max({to - 2, Min(years)}), to>>

YoyContext(a) ==
  LET years == {r.year : r \in UNION {YoyRows(a, v) : v \in Venues}}
  IN  IF years = {} THEN << >> ELSE [years |-> years, default |-> YoyDefaultRange(years)]

ToneMixRows(a, v) ==
  LET told(q) == {c \in Cutoffs : ~a.tone_mix_by_quarter[<<v, q>>][c].insufficient}
  IN  [quarters |-> {q \in Quarters : told(q) # {}}, insufficient |-> {q \in Quarters : told(q) = {}}]

MethodContext(a) == [partial_run |-> a.partial_run, cost_total_usd |-> a.cost]

(* The page of threads.                                                    *)
RowContext(r) == [thread |-> r.thread, venue |-> VenueOf[r.thread], year |-> YearOf[r.quarter],
                  messages |-> r.n_messages]

BuildThreadExplorerContext == {RowContext(r) : r \in disk.explorer.rows}

-----------------------------------------------------------------------------
Counts == [population : 0..Cardinality(Threads), sampled : SUBSET Threads]

TypeOK ==
  /\ faults \in Environments
  /\ world.frame \subseteq Threads /\ world.posts \in 0..faults.posts
  /\ world.edits \in 0..MaxEdits /\ world.runs \in 0..MaxRuns
  /\ disk.cache \subseteq Hashes
  /\ disk.ledger # << >> => Max(Range(disk.ledger)) <= Cap
  /\ disk.index # << >> => disk.index.entries \subseteq PendingMessage
  /\ run.stage \in Stages /\ run.calls \in 0..Cap /\ run.pending \subseteq PendingMessage
  /\ run.strata # << >> => run.strata \in [Strata -> Counts]

Told == disk.aggregates

(* Aggregates that do not say that they are partial rest on a rating for   *)
(* every message in the index of their run, and each sampled thread that   *)
(* has messages has a row of all of them; those that do say so lack        *)
(* something in a stratum.                                                 *)
CoverageIsHonest ==
  /\ (Told # << >> /\ disk.index.run = Told.run /\ Told.partial_run = << >>) =>
       /\ {p.hash : p \in disk.index.entries} \subseteq disk.cache
       /\ disk.threads.run = Told.run =>
            \A p \in disk.index.entries : \E r \in disk.threads.rows :
              r.thread = p.thread /\
              r.n_messages = Cardinality({o \in disk.index.entries : o.thread = p.thread})
  /\ (Told # << >> /\ Told.partial_run # << >>) =>
       \E s \in Strata : LET x == Told.partial_run.coverage_by_stratum[s] IN x.classified < x.sampled

Between(x, S) ==   \* fractions <<part, whole>>
  (\E y \in S : y[1] * x[2] <= x[1] * y[2]) /\ (\E y \in S : x[1] * y[2] <= y[1] * x[2])

(* The cells of one run add up: years and venues have the messages of      *)
(* their quarters, who is enough for a quarter is enough for the year and  *)
(* the window around it, a year's rate lies between its quarters', the     *)
(* weights of a sample make up the population, tiers share out all of a    *)
(* cell.                                                                   *)
CellsAddUp ==
  Told # << >> => \A v \in Venues :
    LET quarter(q) == Told.cells_by_quarter[<<v, q>>]
        year(y) == Told.cells_by_year[<<v, y>>]
        window(w) == Told.trend_summary[v].windows[w]
        total(S) == SumFunction([q \in S |-> quarter(q).messages])
    IN  /\ Told.venue_totals[v].messages_classified = total(Quarters)
        /\ \A y \in Years : LET Q == QuartersOf({y}) IN
             /\ year(y).messages = total(Q)
             /\ (\E q \in Q : ~quarter(q).insufficient) => ~year(y).insufficient
             /\ (\A q \in Q : ~quarter(q).insufficient) =>
                  \A l \in Rated, c \in Cutoffs : Between(year(y).rates[l][c], {quarter(q).rates[l][c] : q \in Q})
        /\ \A w \in DOMAIN TrendWindows : \A y \in TrendWindows[w] :
             ~year(y).insufficient => ~window(w).insufficient
        /\ \A q \in Quarters :
             LET s == Told.strata[<<v, q>>] IN
             /\ s.sampled # {} => Scale * s.population =
                  SumFunction([t \in s.sampled |-> (Scale * s.population) \div Cardinality(s.sampled)])
             /\ \A c \in Cutoffs : LET tone == Told.tone_mix_by_quarter[<<v, q>>][c] IN
                  /\ tone.messages = quarter(q).messages /\ tone.insufficient = quarter(q).insufficient
                  /\ ~tone.insufficient =>
                       SumFunction([n \in -2..4 |-> tone.tiers[n][1]]) = tone.tiers[0][2]

(* The page does not contradict itself: a year without bars has only       *)
(* "insufficient data" in the table, one with bars is in a window with a   *)
(* rate, and the years chosen at first have data at both ends.             *)
PatternsAgree ==
  disk.patterns # << >> =>
    LET a == disk.patterns IN
    /\ \A v \in Venues :
         LET thin == YoyInsufficientYears(a, v)
             told == {r.year : r \in YoyRows(a, v)}
         IN  /\ thin \cup told = Years /\ thin \cap told = {}
             /\ \A y \in Years, l \in Rated :
                  (y \in thin) <=> (MessagePatternsByVenue(a, v)[y].values[l] = Insufficiently)
             /\ \A y \in told, l \in Rated :
                  /\ y \in TrendWindows.early => SummaryByVenue(a, v).early[l] # Insufficiently
                  /\ y \in TrendWindows.recent => SummaryByVenue(a, v).recent[l] # Insufficiently
             /\ SummaryByVenue(a, v).overlap = "told" =>
                  \A l \in Rated : Insufficiently \notin {SummaryByVenue(a, v).early[l], SummaryByVenue(a, v).recent[l]}
             /\ \A q \in ToneMixRows(a, v).quarters : YearOf[q] \in told
    /\ YoyContext(a) # << >> => LET r == YoyContext(a).default IN
         r[1] <= r[2] /\ {r[1], r[2]} \subseteq Min(YoyContext(a).years)..Max(YoyContext(a).years)

(* What the operator publishes is of one run, unless a run was cut after   *)
(* it had written its threads, or a row was refused; and no stratum has    *)
(* more threads on the page than were sampled of it.                       *)
PublishedTogether ==
  /\ (run.stage # "publish" /\ disk.patterns # << >> /\ "kill" \notin faults.what) =>
       \/ disk.explorer # << >> /\ disk.explorer.run = disk.patterns.run
       \/ \E t \in faults.threads : t \in Unsafe
  /\ (disk.patterns # << >> /\ disk.explorer # << >> /\ disk.patterns.run = disk.explorer.run) =>
       \A s \in Strata :
         LET shown == {x.thread : x \in {x \in BuildThreadExplorerContext :
                                          x.venue = s[1] /\ x.year = YearOf[s[2]]}}
         IN  {t \in shown : QuarterOf[t] = s[2]} \subseteq disk.patterns.strata[s].sampled
  /\ (disk.explorer # << >> /\ Unsafe # {}) => \A x \in BuildThreadExplorerContext : x.thread \notin Unsafe

(* Publication never refuses what a run has written for its floors.        *)
FloorsHold == Told # << >> => FloorInvariants(Told)

(* No call is counted twice or for nothing: the runs' calls are the cached *)
(* ratings, less those of runs that were cut; what a page says a run cost  *)
(* is no more than what all of them did.                                   *)
LedgerIsCache ==
  LET ledgered == FoldLeft(LAMBDA a, b : a + b, 0, disk.ledger)
      open == IF run.stage \in {"classify", "index", "threads", "ledger"} THEN run.calls ELSE 0
  IN  /\ ledgered + open <= Cardinality(disk.cache)
      /\ "kill" \notin faults.what => ledgered + open = Cardinality(disk.cache)
      /\ Told # << >> => /\ Told.cost.latest <= Told.cost.cumulative_from_ledger_runs
                         /\ Told.cost.cumulative_from_ledger_runs <= Told.cost.cumulative_from_cache
      /\ disk.patterns # << >> => LET cost == MethodContext(disk.patterns).cost_total_usd IN
           cost.latest <= cost.cumulative

(* As long as no comment was edited and the sample is the same, a later    *)
(* run knows no less of any stratum.                                       *)
RatingsStay ==
  (Told # << >> /\ disk.aggregates' # Told /\ world.edits = 0) =>
    \A s \in Strata : Told.strata[s].sampled \subseteq disk.aggregates'.strata[s].sampled =>
      Told.cells_by_quarter[s].messages <= disk.aggregates'.cells_by_quarter[s].messages

=============================================================================
