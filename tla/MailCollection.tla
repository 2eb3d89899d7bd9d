--------------------------- MODULE MailCollection ---------------------------
(***************************************************************************)
(* The mailing lists. A list's archive is a file for each month. A run     *)
(* asks each configured list for its last active month and fetches the     *)
(* months after the list's watermark, as many as a cap allows, the oldest  *)
(* first and the current month always; then it writes the messages, their  *)
(* threads and the watermarks of all lists, one after another. A request   *)
(* that fails loses the fetches of all lists.                              *)
(*                                                                         *)
(* A message is its place in its month: the archive of a month only grows, *)
(* readers keep one row of a message of a list. Once a night has collected *)
(* them it computes the lists' metrics for its own date (last section).    *)
(***************************************************************************)
EXTENDS Figures

CONSTANTS
  NumLists,     \* lists of the project
  MaxMonth,     \* months (bound)
  MaxMail,      \* messages of a list in a month (bound)
  MaxPosts,     \* messages of all lists (bound)
  Caps,         \* values of max_months_per_run
  Configs,      \* sets of lists a project file may name
  Threads,      \* Threads[m, k]: the message that starts the thread of message k of month m
  Senders,      \* Senders[m, k]: its sender
  Automated,    \* senders that a pattern of automated_senders matches
  Environments  \* each a set of what may go wrong

Lists  == 1..NumLists
Months == 1..MaxMonth
None   == 0                      \* no watermark; a list without messages
Archive == [Months -> 0..MaxMail]

VARIABLES
  faults,  \* what goes wrong in this behaviour; never changes
  world,   \* now: the month; mail[l][m]: messages in the archive; cap and config of the
           \* project file
  disk,    \* stored[l][m]: messages with a row; threads: messages with a thread row;
           \* marks[l]: watermark
  run      \* one run of _collect_ponymail

vars == <<faults, world, disk, run>>

Empty == [l \in Lists |-> [m \in Months |-> 0]]
NoMarks == [l \in Lists |-> None]

Idle == [pc |-> "idle", asOf |-> None, list |-> 1, plan |-> {}, fetched |-> {}, current |-> None, got |-> Empty,
         next |-> NoMarks, remaining |-> 0, seen |-> Empty]

(* lastYear, lastMonth of stats.lua: the last month with a message.        *)
LastMonth(l) == Max({m \in Months : world.mail[l][m] > 0} \cup {None})

(* Messages in the archive, up to the bound on them.                       *)
Posts == Cardinality({x \in Lists \X Months \X (1..MaxMail) : x[3] <= world.mail[x[1]][x[2]]})

Init ==
  /\ faults \in Environments
  /\ world \in [now : {1}, mail : {Empty}, cap : Caps, config : Configs]
  /\ disk = [stored |-> Empty, threads |-> Empty, marks |-> NoMarks]
  /\ run = Idle

-----------------------------------------------------------------------------
NextMonth ==
  /\ world.now < MaxMonth
  /\ world' = [world EXCEPT !.now = @ + 1]
  /\ UNCHANGED <<faults, disk, run>>

(* A message comes to the current month, or late to one that is over.      *)
Post(l, m) ==
  /\ m = world.now \/ ("late" \in faults /\ m < world.now)
  /\ world.mail[l][m] < MaxMail /\ Posts < MaxPosts
  /\ world' = [world EXCEPT !.mail[l][m] = @ + 1]
  /\ UNCHANGED <<faults, disk, run>>

(* The project file is changed between two runs. *)
Reconfigure ==
  /\ "reconfigure" \in faults
  /\ run.pc = "idle"
  /\ \E c \in Configs : world' = [world EXCEPT !.config = c]
  /\ UNCHANGED <<faults, disk, run>>

Step(from, to) == run.pc = from /\ run' = [run EXCEPT !.pc = to]

(* The watermarks are read once, before the first request.                 *)
BeginRun ==
  /\ run.pc = "idle"
  /\ run' = [Idle EXCEPT !.pc = "stats", !.asOf = world.now]
  /\ UNCHANGED <<faults, world, disk>>

MonthRange(l) == LET First == {m \in Months : world.mail[l][m] > 0}
                 IN  IF First = {} THEN {} ELSE Min(First)..Max(First)

MonthsNeeded(l) == {m \in MonthRange(l) : m > disk.marks[l]}

Oldest(months, k) == {m \in months : Cardinality({n \in months : n < m}) < k}

(* Mutant of SelectBackfillMonths: the newest months first. *)
SelectBackfillMonthsNewest(needed, current) ==
  IF Cardinality(needed) <= world.cap THEN needed
  ELSE {m \in needed : Cardinality({n \in needed : n > m}) < world.cap}

(* The current month takes one slot of the cap, whatever is outstanding.   *)
SelectBackfillMonths(needed, current) ==
  IF Cardinality(needed) <= world.cap THEN needed
  ELSE Oldest(needed \ {current}, world.cap - 1) \cup {current}

(* Lists that are not configured are passed over, with their watermark.    *)
SkipList ==
  /\ run.pc = "stats" /\ run.list <= NumLists
  /\ run.list \notin world.config
  /\ run' = [run EXCEPT !.list = @ + 1]
  /\ UNCHANGED <<faults, world, disk>>

FetchStats ==
  /\ run.pc = "stats" /\ run.list <= NumLists
  /\ run.list \in world.config
  /\ LET needed == MonthsNeeded(run.list)
         fetch  == SelectBackfillMonths(needed, LastMonth(run.list))
     IN  run' = [run EXCEPT
                   !.pc = "months", !.plan = fetch, !.fetched = fetch, !.current = LastMonth(run.list),
                   !.remaining = @ + Cardinality(needed \ (fetch \cup {LastMonth(run.list)})),
                   !.seen[run.list] = world.mail[run.list],
                   !.next[run.list] = disk.marks[run.list]]
  /\ UNCHANGED <<faults, world, disk>>

(* The month's file as it is now. *)
FetchMonth ==
  /\ run.pc = "months" /\ run.plan # {}
  /\ LET m == Min(run.plan)
     IN  run' = [run EXCEPT !.got[run.list][m] = world.mail[run.list][m],
                            !.plan = @ \ {m}]
  /\ UNCHANGED <<faults, world, disk>>

(* Mutant of NextWatermark: the current month counts as complete. *)
NextWatermarkCurrent(l) == Max(run.fetched \cup {run.next[l]})

(* The newest month fetched that is over; the stats were read before it.   *)
NextWatermark(l) == Max((run.fetched \ {run.current}) \cup {run.next[l]})

EndList ==
  /\ run.pc = "months" /\ run.plan = {}
  /\ run' = [run EXCEPT !.pc = "stats", !.list = @ + 1,
                        !.next[run.list] = NextWatermark(run.list)]
  /\ UNCHANGED <<faults, world, disk>>

EndCollect ==
  /\ run.list = NumLists + 1
  /\ Step("stats", "messages")
  /\ UNCHANGED <<faults, world, disk>>

(* Readers keep one row for each message of a list.                        *)
Later(rows, more) ==
  [l \in Lists |-> [m \in Months |-> Max({rows[l][m], more[l][m]})]]

WriteMessages ==
  /\ Step("messages", "threads")
  /\ disk' = [disk EXCEPT !.stored = Later(@, run.got)]
  /\ UNCHANGED <<faults, world>>

(* One row for each thread of what this run has fetched.                   *)
WriteThreads ==
  /\ Step("threads", "watermark")
  /\ disk' = [disk EXCEPT !.threads = Later(@, run.got)]
  /\ UNCHANGED <<faults, world>>

(* The watermarks of the configured lists replace those of all lists.      *)
WriteWatermark ==
  /\ Step("watermark", "good")
  /\ disk' = [disk EXCEPT !.marks =
                [l \in Lists |-> IF l \in world.config THEN run.next[l] ELSE None]]
  /\ UNCHANGED <<faults, world>>

(* The last-good pointer; the run reports ok and what is left to backfill. *)
EndRun ==
  /\ run.pc = "good"
  /\ run' = Idle
  /\ UNCHANGED <<faults, world, disk>>

(* A request that has used up its retries: status failed, nothing written. *)
FailRequest ==
  /\ "outage" \in faults
  /\ run.pc = "months" \/ (run.pc = "stats" /\ run.list <= NumLists)
  /\ run' = Idle
  /\ UNCHANGED <<faults, world, disk>>

Kill ==
  /\ "kill" \in faults
  /\ run.pc # "idle"
  /\ run' = Idle
  /\ UNCHANGED <<faults, world, disk>>

Run == \/ BeginRun \/ SkipList \/ FetchStats \/ FetchMonth \/ EndList \/ EndCollect
       \/ WriteMessages \/ WriteThreads \/ WriteWatermark \/ EndRun

Next == \/ Run \/ NextMonth \/ FailRequest \/ Kill \/ Reconfigure
        \/ \E l \in Lists, m \in Months : Post(l, m)

Spec == Init /\ [][Next]_vars

(* Runs are scheduled, and a run goes on until it ends.                    *)
FairSpec == Spec /\ WF_vars(Run)

-----------------------------------------------------------------------------
TypeOK ==
  /\ faults \in Environments
  /\ world \in [now : Months, mail : [Lists -> Archive], cap : Caps, config : Configs]
  /\ disk \in [stored : [Lists -> Archive], threads : [Lists -> Archive],
               marks : [Lists -> Months \cup {None}]]
  /\ run.list \in 1..(NumLists + 1) /\ run.asOf \in Months \cup {None} /\ run.plan \subseteq Months

(* What is behind a list's watermark is stored, message and thread, unless *)
(* it came to a month that was over.                                       *)
BehindIsStored ==
  "late" \notin faults =>
    \A l \in Lists, m \in Months : m <= disk.marks[l] =>
      /\ disk.stored[l][m] = world.mail[l][m]
      /\ disk.threads[l][m] = world.mail[l][m]

(* `partial: false`: a run that reports ok and no month remaining has      *)
(* stored all that its lists had when it asked for their months.           *)
CaughtUpMeansAll ==
  (run.pc = "good" /\ run.remaining = 0 /\ "late" \notin faults) =>
    \A l \in world.config, m \in Months : disk.stored[l][m] >= run.seen[l][m]

(* The data directory is an at-least-once feed of the messages.            *)
Messages == Lists \X Months \X (1..MaxMail)
Readable == {x \in Messages : disk.stored[x[1]][x[2]] >= x[3]}
Behind   == {x \in Messages : x[2] <= disk.marks[x[1]] /\ x[3] <= world.mail[x[1]][x[2]]}

Feed == INSTANCE AtLeastOnceFeed
          WITH Events <- Messages, delivered <- Readable, settled <- Behind

(* Whatever the cap, the lists' mail is stored in the end: the cap's other *)
(* slots work through the months that are over. With a cap of one there    *)
(* are none, and only the current month is ever fetched again.             *)
Archived ==
  (faults = {} /\ world.cap > 1) =>
    \A l \in world.config, m \in Months : disk.stored[l][m] = world.mail[l][m]

EventuallyArchived == <>[]Archived

-----------------------------------------------------------------------------
(* The metrics: the messages, threads and senders of a month, how soon a   *)
(* thread has an answer and how many have none. What months have rows      *)
(* depends on how far a list's watermark has come.                         *)

(* Messages and their order in time; a month is as long as it has messages. *)
Mails == Months \X (1..MaxMail)
Time(x) == x[1] * MaxMail + x[2]

Of(table, l) == {x \in Mails : x[2] <= table[l][x[1]]}

IsAutomatedSender(x) == Senders[x] \in Automated

Earliest(mails) == CHOOSE x \in mails : \A y \in mails : Time(x) <= Time(y)

(* The threads of a list: the root is the earliest message there is; the   *)
(* answer the next one of another sender that is no automaton. Threads     *)
(* that an automaton started are left out.                                 *)
ThreadRoots(mails) ==
  LET thread(t) == {x \in mails : Threads[x] = t}
      root(t) == Earliest(thread(t))
      replies(t) == {x \in thread(t) \ {root(t)} :
                       Senders[x] # Senders[root(t)] /\ ~IsAutomatedSender(x)}
      started == {t \in {Threads[x] : x \in mails} : ~IsAutomatedSender(root(t))}
  IN  [t \in started |->
         [at |-> root(t),
          wait |-> IF replies(t) = {} THEN NoFigure
                   ELSE Figure(Time(Earliest(replies(t))) - Time(root(t)))]]

(* No watermark: every completed month. Behind it: the months up to it and *)
(* the last completed one.                                                 *)
BackfillInProgress(mark, asOf) == mark # None /\ mark < LastCompletedMonth(asOf)

EligibleMonths(first, asOf, mark) ==
  LET last == LastCompletedMonth(asOf)
  IN  IF mark = None THEN DenseMonths(first, asOf)
      ELSE DenseMonths(first, Min({mark, last}) + 1)
             \cup {m \in {last} : BackfillInProgress(mark, asOf) /\ first <= m}

(* With no month to report there is one row for the last completed one.    *)
Reported(months, asOf) == IF months = {} THEN {LastCompletedMonth(asOf)} ELSE months

StartedIn(roots, m) == {t \in DOMAIN roots : roots[t].at[1] = m}

RootMonths(roots, asOf, mark) ==
  IF DOMAIN roots = {} THEN {}
  ELSE EligibleMonths(Min({roots[t].at[1] : t \in DOMAIN roots}), asOf, mark)

TimeToFirstReply(roots, asOf, mark) ==
  [m \in Reported(RootMonths(roots, asOf, mark), asOf) |->
     LET answered == {t \in StartedIn(roots, m) : roots[t].wait # NoFigure}
         waits == [t \in answered |-> roots[t].wait[1]]
     IN  MakeRow(Median(waits), Cardinality(answered), FALSE)
           @@ [p90 |-> Percentile90(waits), started |-> Cardinality(StartedIn(roots, m))]]

(* Only months whose threads have all had UNANSWERED_FOLLOWUP_DAYS, which  *)
(* is a month here.                                                        *)
UnansweredThreadRate(roots, asOf, mark) ==
  LET followed == {m \in RootMonths(roots, asOf, mark) : m + 1 < asOf}
      late(t) == roots[t].wait = NoFigure \/ roots[t].wait[1] > MaxMail
  IN  [m \in Reported(followed, asOf) |->
         LET threads == IF m \in followed THEN StartedIn(roots, m) ELSE {}
         IN  MakeRow(Ratio(Cardinality({t \in threads : late(t)}), Cardinality(threads)),
                     Cardinality(threads), FALSE)]

(* Nobody is left out of the volumes.                                      *)
VolumeByMonth(mails) ==
  LET in(m) == {x \in mails : x[1] = m}
      started(m) == {t \in {Threads[x] : x \in mails} :
                       Earliest({x \in mails : Threads[x] = t})[1] = m}
      count(S) == [m \in {m \in Months : S[m] # {}} |-> Cardinality(S[m])]
  IN  [messages |-> count([m \in Months |-> in(m)]),
       new_threads |-> count([m \in Months |-> started(m)]),
       distinct_senders |-> count([m \in Months |-> {Senders[x] : x \in in(m)}])]

CountRows(counts, asOf, mark) ==
  LET months == IF DOMAIN counts = {} THEN {} ELSE EligibleMonths(Min(DOMAIN counts), asOf, mark)
  IN  [m \in Reported(months, asOf) |->
         Headcount(IF m \in months \cap DOMAIN counts THEN counts[m] ELSE 0)]

VolumeMetrics(mails, asOf, mark) ==
  LET volumes == VolumeByMonth(mails)
  IN  [kind \in DOMAIN volumes |-> CountRows(volumes[kind], asOf, mark)]

-----------------------------------------------------------------------------
(* A night's metrics come after its collection, for the night's date.      *)
Reporting == run.pc = "good"

On(table, l) == ThreadRoots(Of(table, l))
Mark(l) == disk.marks[l]

(* Of the months behind a list's watermark the volumes are the archive's,  *)
(* however far the backfill has come.                                      *)
VolumesAreTrue ==
  (Reporting /\ "late" \notin faults) =>
    \A l \in world.config :
      LET shown == VolumeMetrics(Of(disk.stored, l), run.asOf, Mark(l))
          true == VolumeByMonth(Of(world.mail, l))
      IN  \A kind \in DOMAIN shown : \A m \in DOMAIN shown[kind] : m <= Mark(l) =>
            shown[kind][m].n = (IF m \in DOMAIN true[kind] THEN true[kind][m] ELSE 0)

(* A list that is not behind shows no thread as unanswered that had its    *)
(* answer in time, and none as answered that had not.                      *)
UnansweredIsTrue ==
  (Reporting /\ "late" \notin faults) =>
    \A l \in world.config : Mark(l) >= LastCompletedMonth(run.asOf) /\ Mark(l) # None =>
      UnansweredThreadRate(On(disk.stored, l), run.asOf, Mark(l))
        = UnansweredThreadRate(On(world.mail, l), run.asOf, Mark(l))

(* The code's claim: a month not collected yet never renders as a false    *)
(* zero count. While a list is behind, its last completed month does.      *)
NotCollectedNeverZero ==
  (Reporting /\ world.cap > 1) =>
    \A l \in world.config :
      LET shown == VolumeMetrics(Of(disk.stored, l), run.asOf, Mark(l)).messages
      IN  \A m \in DOMAIN shown \cap Months : shown[m].n = 0 => run.seen[l][m] = 0

=============================================================================
