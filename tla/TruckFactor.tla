---------------------------- MODULE TruckFactor ----------------------------
(***************************************************************************)
(* The truck factor: how many people, taken away one after the other, it   *)
(* takes until more than half of the files have no author left. Who is an  *)
(* author of a file is told by the degree of authorship, here in           *)
(* thousandths.                                                            *)
(***************************************************************************)
EXTENDS Figures

CONSTANTS
  Files, People,
  LogTerm,     \* 1000 * 0.321 * ln(1 + n) for n = 0, 1, ..., rounded
  MaxDay, MaxChanges  \* days, changes of files (bounds)

Days  == 0..MaxDay
Types == {"A", "M", "D"}

(* A row of the table. *)
FileChangeEvent == [file : Files, by : People, type : Types, at : Days]

VARIABLES
  faults,  \* nothing: the other metrics' parts have one
  world,   \* now: the day
  disk,    \* changes: rows of file changes
  report   \* the metric rows of the last night

vars == <<faults, world, disk, report>>

Init ==
  /\ faults = {}
  /\ world = [now |-> 0]
  /\ disk = [changes |-> {}]
  /\ report = << >>

LastChange(rows, f) == CHOOSE c \in rows : c.file = f /\ \A d \in rows : d.file = f => d.at <= c.at

Existing(rows) ==
  {f \in {c.file : c \in rows} : LastChange(rows, f).type # "D"}

(* A file is added, changed or deleted, once a day.                        *)
Change(f, p, type) ==
  /\ Cardinality(disk.changes) < MaxChanges
  /\ \A c \in disk.changes : c.file = f => c.at < world.now
  /\ type = "A" <=> f \notin Existing(disk.changes)
  /\ disk' = [disk EXCEPT !.changes = @ \cup {[file |-> f, by |-> p, type |-> type, at |-> world.now]}]
  /\ UNCHANGED <<faults, world, report>>

-----------------------------------------------------------------------------
FileChangeRowsThrough(cutoff) == {c \in disk.changes : c.at <= cutoff}

(* DOA_INTERCEPT, DOA_FA_COEFFICIENT, DOA_DL_COEFFICIENT.                  *)
Doa(first, own, others) == 3293 + (IF first THEN 1098 ELSE 0) + 164 * own - LogTerm[others + 1]

DoaOf(rows, f, p) ==
  LET of(ps) == {c \in rows : c.file = f /\ c.by \in ps}
      first == \E c \in of({p}) : \A d \in of(People) : c.at <= d.at
  IN  Doa(first, Cardinality(of({p})), Cardinality(of(People \ {p})))

(* More than three quarters of the file's best degree, and not below       *)
(* DOA_MINIMUM_ABSOLUTE.                                                   *)
AuthorsOf(rows, f) ==
  LET changed == {c.by : c \in {c \in rows : c.file = f}}
      best == Max({DoaOf(rows, f, p) : p \in changed})
  IN  {p \in changed : best > 0 /\ 4 * DoaOf(rows, f, p) > 3 * best /\ DoaOf(rows, f, p) >= 3293}

(* The author of most of the files that still have one, the smaller name   *)
(* first.                                                                  *)
NextRemoved(authors) ==
  LET covered(p) == Cardinality({f \in DOMAIN authors : p \in authors[f]})
      all == UNION Range(authors)
  IN  CHOOSE p \in all : \A q \in all : covered(q) < covered(p) \/ (covered(q) = covered(p) /\ p <= q)

Orphaned(authors) == {f \in DOMAIN authors : authors[f] = {}}

(* The people removed by the time of the n-th removal.                     *)
Removed(authors) ==
  LET removed[n \in 0..Cardinality(People)] ==
        IF n = 0 THEN {}
        ELSE LET left == [f \in DOMAIN authors |-> authors[f] \ removed[n - 1]]
             IN  IF 2 * Cardinality(Orphaned(left)) <= Cardinality(DOMAIN left) /\ UNION Range(left) # {}
                 THEN removed[n - 1] \cup {NextRemoved(left)}
                 ELSE removed[n - 1]
  IN  removed[Cardinality(People)]

TruckFactorSnapshot(rows) ==
  LET authors == [f \in Existing(rows) |-> AuthorsOf(rows, f)]
  IN  [removed |-> Removed(authors), authors |-> authors]

(* Of the end of every completed month.                                    *)
TruckFactor(asOf) ==
  LET days == {c.at : c \in disk.changes}
  IN  [m \in IF days = {} THEN {} ELSE DenseMonths(Min(days), asOf) |->
         LET snapshot == TruckFactorSnapshot(FileChangeRowsThrough(MonthEnd(m)))
         IN  MakeRow(IF DOMAIN snapshot.authors = {} THEN NoFigure ELSE Figure(Cardinality(snapshot.removed)),
                     Cardinality(UNION Range(snapshot.authors)), FALSE)
               @@ snapshot]

NextDay ==
  /\ world.now < MaxDay
  /\ world' = [now |-> world.now + 1]
  /\ UNCHANGED <<faults, disk>>
  /\ report' = [truck_factor |-> TruckFactor(world.now + 1)]

Next == NextDay \/ \E f \in Files, p \in People, t \in Types : Change(f, p, t)

-----------------------------------------------------------------------------
TypeOK ==
  /\ faults = {} /\ world.now \in Days
  /\ disk.changes \subseteq FileChangeEvent /\ \A c \in disk.changes : c.at <= world.now

(* Without the people counted, more than half of the files have no author  *)
(* left, or no author is left at all; without the last of them that is not *)
(* so; and nobody is counted who is no author.                             *)
RemovalOrphansHalf ==
  report # << >> =>
    \A m \in DOMAIN report.truck_factor :
      LET row == report.truck_factor[m]
          orphans(gone) == {f \in DOMAIN row.authors : row.authors[f] \subseteq gone}
          half(gone) == 2 * Cardinality(orphans(gone)) > Cardinality(DOMAIN row.authors)
      IN  /\ half(row.removed) \/ orphans(row.removed) = DOMAIN row.authors
          /\ row.removed # {} => \E p \in row.removed : ~half(row.removed \ {p})
          /\ row.removed \subseteq UNION Range(row.authors)
          /\ row.ok => Cardinality(row.removed) <= row.n

(* What was told of a completed month stands, whatever changes later.      *)
HistoryStands ==
  report # << >> =>
    \A m \in DOMAIN report.truck_factor : report'.truck_factor[m] = report.truck_factor[m]

=============================================================================
