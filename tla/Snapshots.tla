------------------------------ MODULE Snapshots ------------------------------
(***************************************************************************)
(* The sources that are collected as a whole every night and have no       *)
(* watermark: the roster, the security scorecard and advisories, the       *)
(* releases, the release lines' versions, blockers and builds, and a       *)
(* subproject's versions and workflows. A night appends a partition to     *)
(* each table whose feed answered; a reader takes of each item the row     *)
(* that ranks highest.                                                     *)
(*                                                                         *)
(* One behaviour is about one source. An item is a member, an advisory, a  *)
(* tag, an issue, a job; its value is what the source says of it, None     *)
(* when the source does not list it. Nights are numbered.                  *)
(***************************************************************************)
EXTENDS Naturals, FiniteSets, FiniteSetsExt, Sequences

CONSTANTS
  NumItems,     \* items of a table (bound)
  MaxValue,     \* what a source may say of an item (bound)
  MaxNights,    \* nights (bound)
  Environments  \* each a set of what may go wrong

Items  == 1..NumItems
Values == 0..MaxValue
None   == 0
Nights == 1..MaxNights

(* Each source is a sequence of feeds that fail each on its own; a feed is *)
(* the sequence of the tables it fills.                                    *)
CollectAsfRoster          == << <<"roster">> >>
CollectSecurity           == << <<"scorecard", "advisory">> >>
CollectRelease            == << <<"release">> >>
CollectReleaseLines       == << <<"version", "blocker">>, <<"job">>, <<"trend">> >>
CollectSubprojectReleases == << <<"subversion">>, <<"workflow">> >>

Sources == {CollectAsfRoster, CollectSecurity, CollectRelease, CollectReleaseLines,
            CollectSubprojectReleases}

VARIABLES
  faults,  \* what goes wrong in this behaviour; never changes
  world,   \* source, which never changes; says[i]: what the source says of an item
  disk,    \* rows: [table, item, value, night, id]; partitions: [table, night];
           \* good: the last-good pointer
  run      \* pc; night; feed, table: what is written next; failed: feeds; seen

vars == <<faults, world, disk, run>>

Idle(night) == [pc |-> "idle", night |-> night, feed |-> 1, table |-> 1, failed |-> {},
                seen |-> [i \in Items |-> None]]

TablesOf(source) == UNION {{source[f][t] : t \in 1..Len(source[f])} : f \in 1..Len(source)}
Tables == TablesOf(world.source)

Init ==
  /\ faults \in Environments
  /\ world \in [source : Sources, says : {[i \in Items |-> None]}]
  /\ disk = [rows |-> {}, partitions |-> {}, good |-> None]
  /\ run = Idle(0)

-----------------------------------------------------------------------------
(* The source adds an item, changes what it says of it or stops listing it.*)
Change(i) ==
  /\ run.pc = "idle"
  /\ \E v \in Values \ {world.says[i]} :
       /\ v = None => "vanish" \in faults
       /\ world' = [world EXCEPT !.says[i] = v]
  /\ UNCHANGED <<faults, disk, run>>

(* All feeds are asked before the first table is written; one feed's       *)
(* outage does not lose another's answer.                                  *)
Collect ==
  /\ run.pc = "idle" /\ run.night < MaxNights
  /\ \E failed \in SUBSET (1..Len(world.source)) :
       /\ "outage" \notin faults => failed = {}
       /\ run' = [Idle(run.night + 1) EXCEPT !.pc = "write", !.failed = failed,
                                             !.seen = world.says]
  /\ UNCHANGED <<faults, world, disk>>

Writing == run.pc = "write" /\ run.feed <= Len(world.source)
Feed    == world.source[run.feed]

(* A feed that failed leaves the tables as they are.                       *)
SkipFeed ==
  /\ Writing /\ run.feed \in run.failed
  /\ run' = [run EXCEPT !.feed = @ + 1]
  /\ UNCHANGED <<faults, world, disk>>

(* A row for each item the source lists; the roster's snapshot has a       *)
(* random id (uuid4), any other the time of the collection.                *)
WriteTable ==
  /\ Writing /\ run.feed \notin run.failed
  /\ LET table == Feed[run.table]
     IN  \E id \in (IF table = "roster" THEN Nights \ {r.id : r \in disk.rows} ELSE {run.night}) :
           disk' = [disk EXCEPT
             !.partitions = @ \cup {[table |-> table, night |-> run.night]},
             !.rows = @ \cup {[table |-> table, item |-> i, value |-> run.seen[i],
                               night |-> run.night, id |-> id] :
                              i \in {j \in Items : run.seen[j] # None}}]
  /\ run' = IF run.table < Len(Feed) THEN [run EXCEPT !.table = @ + 1]
            ELSE [run EXCEPT !.table = 1, !.feed = @ + 1]
  /\ UNCHANGED <<faults, world>>

(* The security and release sources keep a last-good pointer.              *)
EndCollect ==
  /\ run.pc = "write" /\ run.feed > Len(world.source)
  /\ run' = [run EXCEPT !.pc = "report"]
  /\ disk' = IF run.failed = {} /\ world.source \in {CollectSecurity, CollectRelease}
               THEN [disk EXCEPT !.good = run.night] ELSE disk
  /\ UNCHANGED <<faults, world>>

EndRun ==
  /\ run.pc = "report"
  /\ run' = Idle(run.night)
  /\ UNCHANGED <<faults, world, disk>>

Kill ==
  /\ "kill" \in faults
  /\ run.pc # "idle"
  /\ run' = Idle(run.night)
  /\ UNCHANGED <<faults, world, disk>>

Night == Collect \/ SkipFeed \/ WriteTable \/ EndCollect \/ EndRun

Next == Night \/ Kill \/ \E i \in Items : Change(i)

Spec == Init /\ [][Next]_vars

-----------------------------------------------------------------------------
(* Reading.                                                                *)

RowsOf(table, i) == {r \in disk.rows : r.table = table /\ r.item = i}

(* Of each item the row with the highest key, or None.                     *)
Best(table, i, key) ==
  LET rows == RowsOf(table, i)
  IN  IF rows = {} THEN None
      ELSE (CHOOSE r \in rows : \A q \in rows : q[key] <= r[key]).value

DedupeRosterEntries(i)      == Best("roster", i, "id")
DedupeSecurityAdvisories(i) == Best("advisory", i, "night")

DedupeReleaseRows(i)        == Best("release", i, "night")

(* The pages of the release lines and of a subproject's releases.          *)
DedupeLatest(table, i)      == Best(table, i, "night")

(* The scorecard is the checks of the newest snapshot only.                *)
ReadScorecard(i) ==
  LET newest == Max({r.night : r \in {q \in disk.rows : q.table = "scorecard"}} \cup {0})
      rows   == {r \in RowsOf("scorecard", i) : r.night = newest}
  IN  IF rows = {} THEN None ELSE (CHOOSE r \in rows : TRUE).value

Read(table, i) ==
  CASE table = "roster"    -> DedupeRosterEntries(i)
    [] table = "scorecard" -> ReadScorecard(i)
    [] table = "advisory"  -> DedupeSecurityAdvisories(i)
    [] table = "release"   -> DedupeReleaseRows(i)
    [] OTHER               -> DedupeLatest(table, i)

(* A table's badge: tonight's partition is there.                          *)
TableFresh(table) == [table |-> table, night |-> run.night] \in disk.partitions

(* What the manifest says, and the badge a page shows for it: a source     *)
(* that is `degraded` or `partial` has none.                               *)
Status ==
  IF run.failed = {} THEN "ok"
  ELSE IF Len(world.source) > 1 THEN "degraded" ELSE "failed"

StalenessBadge == IF Status \in {"failed", "stale"} THEN disk.good ELSE None

TypeOK ==
  /\ world.source \in Sources /\ world.says \in [Items -> Values]
  /\ disk.good \in Nights \cup {None} /\ run.night \in 0..MaxNights
  /\ \A r \in disk.rows : r.item \in Items /\ r.value \in Values /\ r.night \in Nights

(* A page that calls a table fresh shows of each item the source listed    *)
(* tonight what it said tonight, whatever other nights and feeds left. Of  *)
(* the roster this holds as long as no member's row changes: its rows are  *)
(* ranked by a random id.                                                  *)
FreshShowsTonight ==
  (run.pc = "report" /\ world.source # CollectAsfRoster) =>
    \A t \in Tables, i \in Items :
      TableFresh(t) /\ run.seen[i] # None => Read(t, i) = run.seen[i]

(* An outage of a feed takes nothing off the page, and puts nothing on it. *)
OutageKeepsPages ==
  \A t \in Tables, i \in Items :
    Read(t, i) # Read(t, i)' =>
      /\ run.pc = "write" /\ run.feed \notin run.failed
      /\ run.seen[i] # None \/ t = "scorecard"

(* The scorecard, alone of them, forgets a check that is no longer listed; *)
(* every other table keeps it with its last value (an issue that was       *)
(* resolved stays a blocker, a version that was released stays listed as   *)
(* unreleased).                                                            *)
FreshForgets ==
  (run.pc = "report" /\ "scorecard" \in Tables /\ TableFresh("scorecard")) =>
    \A i \in Items : (\E j \in Items : run.seen[j] # None) => ReadScorecard(i) = run.seen[i]

(* A badge names a night from which every table of the source was written. *)
BadgeIsHonest ==
  StalenessBadge # None =>
    \A t \in Tables : [table |-> t, night |-> StalenessBadge] \in disk.partitions

=============================================================================
