--------------------------- MODULE PublicationProofs -------------------------
(***************************************************************************)
(* Proofs about the parts of the data directory that are shown, read back  *)
(* or sampled: the snapshots, a subproject's releases and workflow runs,   *)
(* the rows as they are read, the private run and the pilot corpus. Each   *)
(* is a specification of its own, on the variables they all call by the    *)
(* same names; a section is about one, and begins with its instance.       *)
(***************************************************************************)
EXTENDS Integers, Sequences, FiniteSets, FiniteSetTheorems, TLAPS

CONSTANTS
  SnapshotEnvironments, NumItems, MaxValue, MaxNights,    \* snapshots
  SubprojectEnvironments, NumVersions, NumIssues, NumWorkflows, RunsPageSize,
  MaxWorkflowRuns, MaxChanges,                            \* a subproject's releases
  RowsEnvironments, Reviewers, StoredComments, Credits, MaxVersions,
  MaxParts,                                               \* rows
  PrivateEnvironments, Discussions, VenueOf, QuarterOf, YearOf, TrendWindows,
  Texts, Rating, High, Cutoffs, Headline, K, Scale, Cap, MaxPerThread,
  MinMessages, MinAuthors, Automated, Unsafe, ThisYear, MaxRuns,
  MaxEdits,                                               \* the private run
  PilotEnvironments, PilotMails, YearOfMonth, CreatedIn, PilotYears, MaxComments,
  IssueTarget, MinPerYear, BlockSize, PageSize, PilotRetries, Prevalence,
  Enrichment, Subsample, MinWords, RareLabels, GapLabels  \* the pilot corpus

VARIABLES faults, world, disk, run

-----------------------------------------------------------------------------
(* Sets of numbers.                                                        *)

(* A nonempty set of numbers has a least one.                              *)
LEMMA SmallestNumber ==
  ASSUME NEW T \in SUBSET Nat, T # {}
  PROVE  \E m \in T : \A x \in T : m <= x
<1>1. PICK k \in T : \A j \in T : ~ (<<j, k>> \in OpToRel(<, Nat))
  BY WFMin, NatLessThanWellFounded
<1>2. ASSUME NEW j \in T
      PROVE  k <= j
  <2>1. j \in Nat /\ k \in Nat
    OBVIOUS
  <2>2. j < k => <<j, k>> \in OpToRel(<, Nat)
    BY <2>1 DEF OpToRel
  <2>3. ~ (j < k)
    BY <1>1, <2>2
  <2>. QED
    BY <2>1, <2>3
<1>. QED
  BY <1>2

(* And one with an upper bound a greatest one.                             *)
LEMMA LargestNumber ==
  ASSUME NEW n \in Nat, NEW T \in SUBSET (1..n), T # {}
  PROVE  \E m \in T : \A x \in T : x <= m
<1>. DEFINE missed == {n - w : w \in T}
<1>1. missed \in SUBSET Nat /\ missed # {}
  <2>1. ASSUME NEW w \in T
        PROVE  n - w \in Nat
    <3>1. w \in 1..n
      OBVIOUS
    <3>. QED
      BY <3>1
  <2>. QED
    BY <2>1
<1>. HIDE DEF missed
<1>2. PICK d \in missed : \A e \in missed : d <= e
  BY <1>1, SmallestNumber
<1>. USE DEF missed
<1>3. PICK w \in T : d = n - w
  BY <1>2
<1>4. \A x \in T : n - w <= n - x
  BY <1>2, <1>3
<1>5. \A x \in T : x \in Int
  OBVIOUS
<1>. QED
  BY <1>4, <1>5

-----------------------------------------------------------------------------
(* The snapshots.                                                          *)

Whole == INSTANCE Snapshots WITH Environments <- SnapshotEnvironments


SnapshotConstants == NumItems \in Nat /\ MaxValue \in Nat /\ MaxNights \in Nat

TableNames == {"roster", "scorecard", "advisory", "release", "version", "blocker", "job", "trend",
               "subversion", "workflow"}

SnapshotRows == [table : TableNames, item : Whole!Items, value : Whole!Values, night : Whole!Nights, id : Whole!Nights]

SnapshotTypes ==
  /\ faults \in SnapshotEnvironments
  /\ world \in [source : Whole!Sources, says : [Whole!Items -> Whole!Values]]
  /\ disk \in [rows : SUBSET SnapshotRows, partitions : SUBSET [table : TableNames, night : Whole!Nights],
               good : {0} \cup Whole!Nights]
  /\ run \in [pc : {"idle", "write", "report"}, night : 0..MaxNights, feed : Nat \ {0}, table : Nat \ {0},
              failed : SUBSET Nat, seen : [Whole!Items -> Whole!Values]]

(* A table has a partition of a night.                                     *)
Written(table, night) == [table |-> table, night |-> night] \in disk.partitions

(* What a table was given tonight is what its source said when it was      *)
(* asked, of all that it listed and of nothing else.                       *)
TonightAsSeen ==
  run.pc # "idle" =>
    /\ run.night \in Whole!Nights
    /\ \A r \in disk.rows : r.night = run.night => r.value = run.seen[r.item] /\ r.value # 0
    /\ \A t \in TableNames, i \in Whole!Items : Written(t, run.night) /\ run.seen[i] # 0 =>
         \E r \in disk.rows : r.table = t /\ r.item = i /\ r.night = run.night

(* The feeds that answered are written in their order, table by table.     *)
FeedsInOrder ==
  run.pc = "write" =>
    /\ run.feed \in 1..(Len(world.source) + 1)
    /\ run.feed <= Len(world.source) => run.table \in 1..Len(world.source[run.feed])
    /\ \A f \in 1..Len(world.source) : f < run.feed /\ f \notin run.failed =>
         \A k \in 1..Len(world.source[f]) : Written(world.source[f][k], run.night)
    /\ run.feed \in run.failed => run.table = 1
    /\ run.feed <= Len(world.source) =>
         \A k \in 1..Len(world.source[run.feed]) : k < run.table => Written(world.source[run.feed][k], run.night)

(* No row and no partition is of a night to come; a last-good pointer is   *)
(* to a night that every table has.                                        *)
GoodIsWritten ==
  /\ \A p \in disk.partitions : p.night <= run.night
  /\ \A r \in disk.rows : r.night <= run.night
  /\ disk.good # 0 =>
       \A f \in 1..Len(world.source) : \A k \in 1..Len(world.source[f]) : Written(world.source[f][k], disk.good)

SnapshotInv == SnapshotTypes /\ TonightAsSeen /\ FeedsInOrder /\ GoodIsWritten

(* A source has a few feeds, a feed a table or two.                        *)
LEMMA FeedsOfSources ==
  ASSUME NEW source \in Whole!Sources
  PROVE  /\ Len(source) \in 1..3
         /\ \A f \in 1..Len(source) : /\ Len(source[f]) \in 1..2
                                      /\ \A k \in 1..Len(source[f]) : source[f][k] \in TableNames
<1>. USE DEF TableNames
<1>1. CASE source = << <<"roster">> >>
  BY <1>1
<1>2. CASE source = << <<"scorecard", "advisory">> >>
  BY <1>2
<1>3. CASE source = << <<"release">> >>
  BY <1>3
<1>4. CASE source = << <<"version", "blocker">>, <<"job">>, <<"trend">> >>
  BY <1>4
<1>5. CASE source = << <<"subversion">>, <<"workflow">> >>
  BY <1>5
<1>. QED
  BY <1>1, <1>2, <1>3, <1>4, <1>5
  DEF Whole!Sources, Whole!CollectAsfRoster, Whole!CollectSecurity, Whole!CollectRelease,
      Whole!CollectReleaseLines, Whole!CollectSubprojectReleases

LEMMA SnapshotInit == SnapshotConstants /\ Whole!Init => SnapshotInv
<1>. SUFFICES ASSUME SnapshotConstants, Whole!Init
              PROVE  SnapshotInv
  OBVIOUS
<1>. USE
   DEF SnapshotConstants, Whole!Init, Whole!Idle, Whole!None, Whole!Values, Whole!Items,
       Whole!Nights
<1>1. SnapshotTypes
  <2>1. world \in [source : Whole!Sources, says : [Whole!Items -> Whole!Values]]
    <3>1. [i \in Whole!Items |-> 0] \in [Whole!Items -> Whole!Values]
      OBVIOUS
    <3>. QED
      BY <3>1
  <2>2. run \in [pc : {"idle", "write", "report"}, night : 0..MaxNights, feed : Nat \ {0}, table : Nat \ {0},
                 failed : SUBSET Nat, seen : [Whole!Items -> Whole!Values]]
    OBVIOUS
  <2>. QED
    BY <2>1, <2>2 DEF SnapshotTypes
<1>. QED
  BY <1>1 DEF SnapshotInv, TonightAsSeen, FeedsInOrder, GoodIsWritten

(* A table is written: what the source said goes into tonight's partition. *)
LEMMA WriteTableKeeps ==
  ASSUME SnapshotConstants, SnapshotInv, Whole!WriteTable
  PROVE  SnapshotInv'
<1>. DEFINE table == world.source[run.feed][run.table]
<1>1. /\ run.pc = "write" /\ run.feed \in 1..Len(world.source) /\ run.feed \notin run.failed
      /\ run.table \in 1..Len(world.source[run.feed])
      /\ UNCHANGED <<faults, world>>
  BY DEF Whole!WriteTable, Whole!Writing, SnapshotInv, SnapshotTypes, FeedsInOrder
<1>2. Len(world.source) \in 1..3 /\ Len(world.source[run.feed]) \in 1..2 /\ table \in TableNames
  <2>1. world.source \in Whole!Sources
    BY DEF SnapshotInv, SnapshotTypes
  <2>. QED
    BY <1>1, <2>1, FeedsOfSources
<1>3. run.night \in Whole!Nights /\ run.seen \in [Whole!Items -> Whole!Values]
  BY <1>1 DEF SnapshotInv, SnapshotTypes, TonightAsSeen
<1>4. PICK id \in Whole!Nights :
        disk' = [disk EXCEPT
             !.partitions = @ \cup {[table |-> table, night |-> run.night]},
             !.rows = @ \cup {[table |-> table, item |-> i, value |-> run.seen[i],
                               night |-> run.night, id |-> id] :
                              i \in {j \in Whole!Items : run.seen[j] # 0}}]
  <2>1. PICK id \in (IF table = "roster" THEN Whole!Nights \ {r.id : r \in disk.rows} ELSE {run.night}) :
          disk' = [disk EXCEPT
             !.partitions = @ \cup {[table |-> table, night |-> run.night]},
             !.rows = @ \cup {[table |-> table, item |-> i, value |-> run.seen[i],
                               night |-> run.night, id |-> id] :
                              i \in {j \in Whole!Items : run.seen[j] # 0}}]
    BY DEF Whole!WriteTable, Whole!Feed, Whole!None
  <2>2. id \in Whole!Nights
    BY <2>1, <1>3
  <2>. QED
    BY <2>1, <2>2
<1>. DEFINE new == {[table |-> table, item |-> i, value |-> run.seen[i], night |-> run.night, id |-> id] :
                    i \in {j \in Whole!Items : run.seen[j] # 0}}
<1>5. new \in SUBSET SnapshotRows
  BY <1>2, <1>3 DEF SnapshotRows
<1>6. /\ \A r \in new : r.table = table /\ r.night = run.night /\ r.value = run.seen[r.item] /\ r.value # 0
      /\ \A i \in Whole!Items : run.seen[i] # 0 => \E r \in new : r.table = table /\ r.item = i /\ r.night = run.night
  <2>. HIDE DEF table
  <2>1. ASSUME NEW r \in new
        PROVE  r.table = table /\ r.night = run.night /\ r.value = run.seen[r.item] /\ r.value # 0
    <3>1. PICK i \in {j \in Whole!Items : run.seen[j] # 0} :
            r = [table |-> table, item |-> i, value |-> run.seen[i], night |-> run.night, id |-> id]
      OBVIOUS
    <3>. QED
      BY <3>1
  <2>2. ASSUME NEW i \in Whole!Items, run.seen[i] # 0
        PROVE  \E r \in new : r.table = table /\ r.item = i /\ r.night = run.night
    <3>1. [table |-> table, item |-> i, value |-> run.seen[i], night |-> run.night, id |-> id] \in new
      BY <2>2
    <3>. QED
      BY <3>1
  <2>. QED
    BY <2>1, <2>2
<1>. HIDE DEF new
<1>7. /\ disk' \in [rows : SUBSET SnapshotRows, partitions : SUBSET [table : TableNames, night : Whole!Nights],
                    good : {0} \cup Whole!Nights]
      /\ disk'.rows = disk.rows \cup new
      /\ disk'.partitions = disk.partitions \cup {[table |-> table, night |-> run.night]}
      /\ disk'.good = disk.good
  <2>1. disk \in [rows : SUBSET SnapshotRows, partitions : SUBSET [table : TableNames, night : Whole!Nights],
                  good : {0} \cup Whole!Nights]
    BY DEF SnapshotInv, SnapshotTypes
  <2>2. [table |-> table, night |-> run.night] \in [table : TableNames, night : Whole!Nights]
    BY <1>2, <1>3
  <2>3. disk' = [disk EXCEPT !.partitions = @ \cup {[table |-> table, night |-> run.night]}, !.rows = @ \cup new]
    BY <1>4 DEF new
  <2>. HIDE DEF table
  <2>. QED
    BY <2>1, <2>2, <2>3, <1>5
<1>. DEFINE after(t) == [table |-> t, night |-> run.night] \in disk'.partitions
<1>8. \A t \in TableNames : after(t) <=> (Written(t, run.night) \/ t = table)
  <2>. HIDE DEF table
  <2>. QED
    BY <1>7 DEF Written
<1>9. run' = IF run.table < Len(world.source[run.feed]) THEN [run EXCEPT !.table = run.table + 1]
             ELSE [run EXCEPT !.table = 1, !.feed = run.feed + 1]
  BY DEF Whole!WriteTable, Whole!Feed
<1>10. /\ SnapshotTypes'
       /\ run'.pc = "write" /\ run'.night = run.night /\ run'.seen = run.seen /\ run'.failed = run.failed
  <2>1. run \in [pc : {"idle", "write", "report"}, night : 0..MaxNights, feed : Nat \ {0}, table : Nat \ {0},
                 failed : SUBSET Nat, seen : [Whole!Items -> Whole!Values]]
    BY DEF SnapshotInv, SnapshotTypes
  <2>2. /\ run' \in [pc : {"idle", "write", "report"}, night : 0..MaxNights, feed : Nat \ {0}, table : Nat \ {0},
                     failed : SUBSET Nat, seen : [Whole!Items -> Whole!Values]]
        /\ run'.pc = "write" /\ run'.night = run.night /\ run'.seen = run.seen /\ run'.failed = run.failed
    <3>1. CASE run.table < Len(world.source[run.feed])
      <4>1. run' = [run EXCEPT !.table = run.table + 1]
        BY <3>1, <1>9
      <4>. QED
        BY <2>1, <4>1, <1>1
    <3>2. CASE ~(run.table < Len(world.source[run.feed]))
      <4>1. run' = [run EXCEPT !.table = 1, !.feed = run.feed + 1]
        BY <3>2, <1>9
      <4>2. run.feed + 1 \in Nat \ {0} /\ 1 \in Nat \ {0}
        BY <2>1
      <4>. DEFINE next == run.feed + 1
      <4>3. next \in Nat \ {0} /\ run' = [run EXCEPT !.table = 1, !.feed = next]
        BY <4>1, <4>2
      <4>. HIDE DEF next
      <4>. QED
        BY <2>1, <4>2, <4>3, <1>1
    <3>. QED
      BY <3>1, <3>2
  <2>. QED
    BY <2>2, <1>7, <1>1 DEF SnapshotInv, SnapshotTypes
<1>11. TonightAsSeen'
  <2>1. TonightAsSeen /\ run.pc # "idle"
    BY <1>1 DEF SnapshotInv
  <2>2. \A r \in disk'.rows : r.night = run.night => r.value = run.seen[r.item] /\ r.value # 0
    BY <2>1, <1>6, <1>7 DEF TonightAsSeen
  <2>3. ASSUME NEW t \in TableNames, NEW i \in Whole!Items, after(t), run.seen[i] # 0
        PROVE  \E r \in disk'.rows : r.table = t /\ r.item = i /\ r.night = run.night
    <3>1. CASE Written(t, run.night)
      <4>1. \E r \in disk.rows : r.table = t /\ r.item = i /\ r.night = run.night
        BY <3>1, <2>1, <2>3 DEF TonightAsSeen
      <4>2. disk.rows \subseteq disk'.rows
        BY <1>7
      <4>. QED
        BY <4>1, <4>2
    <3>2. CASE t = table
      BY <3>2, <2>3, <1>6, <1>7
    <3>. HIDE DEF table, after
    <3>. QED
      BY <3>1, <3>2, <2>3, <1>8
  <2>. HIDE DEF table
  <2>. QED
    BY <2>2, <2>3, <1>3, <1>10 DEF TonightAsSeen, Written, Whole!Items, Whole!Nights
<1>12. FeedsInOrder'
  <2>1. FeedsInOrder /\ run.feed \in Nat /\ run.table \in Nat /\ run.night \in Nat
    BY <1>1, <1>2, <1>3 DEF SnapshotInv, Whole!Nights
  <2>2. \A f \in 1..Len(world.source) : \A k \in 1..Len(world.source[f]) : world.source[f][k] \in TableNames
    BY FeedsOfSources DEF SnapshotInv, SnapshotTypes
  <2>3. \A f \in 1..Len(world.source) : Len(world.source[f]) \in 1..2
    BY FeedsOfSources DEF SnapshotInv, SnapshotTypes
  <2>4. run \in [pc : {"idle", "write", "report"}, night : 0..MaxNights, feed : Nat \ {0}, table : Nat \ {0},
                 failed : SUBSET Nat, seen : [Whole!Items -> Whole!Values]]
    BY DEF SnapshotInv, SnapshotTypes
  <2>5. \A f \in 1..Len(world.source) : \A k \in 1..Len(world.source[f]) :
          after(world.source[f][k]) <=> (Written(world.source[f][k], run.night) \/ world.source[f][k] = table)
    <3>. HIDE DEF table, after
    <3>. QED
      BY <1>8, <2>2
  <2>6. \A f \in 1..Len(world.source) : f < run'.feed /\ f \notin run.failed =>
          \A k \in 1..Len(world.source[f]) : after(world.source[f][k])
    <3>1. SUFFICES ASSUME NEW f \in 1..Len(world.source), f < run'.feed, f \notin run.failed,
                          NEW k \in 1..Len(world.source[f])
                   PROVE  Written(world.source[f][k], run.night) \/ world.source[f][k] = table
      <4>. HIDE DEF table, after
      <4>. QED
        BY <2>5
    <3>2. CASE f < run.feed
      BY <3>1, <3>2, <2>1, <1>1 DEF FeedsInOrder
    <3>3. CASE f = run.feed
      <4>1. run'.feed = run.feed + 1 /\ ~(run.table < Len(world.source[run.feed]))
        BY <3>1, <3>3, <1>9, <2>1, <2>4
      <4>2. k < run.table \/ k = run.table
        BY <4>1, <3>3, <2>1, <1>2
      <4>. QED
        BY <4>2, <3>3, <2>1, <1>1 DEF FeedsInOrder
    <3>4. run'.feed = run.feed \/ run'.feed = run.feed + 1
      BY <1>9, <2>4
    <3>. QED
      BY <3>1, <3>2, <3>3, <3>4, <2>1
  <2>7. run'.feed <= Len(world.source) =>
          \A k \in 1..Len(world.source[run'.feed]) : k < run'.table => after(world.source[run'.feed][k])
    <3>1. CASE run.table < Len(world.source[run.feed])
      <4>1. run'.feed = run.feed /\ run'.table = run.table + 1
        BY <3>1, <1>9, <2>4
      <4>2. SUFFICES ASSUME NEW k \in 1..Len(world.source[run.feed]), k < run.table + 1
                     PROVE  after(world.source[run.feed][k])
        <5>. HIDE DEF table, after
        <5>. QED
          BY <4>1
      <4>3. k < run.table \/ k = run.table
        BY <4>2, <2>1, <1>2
      <4>4. Written(world.source[run.feed][k], run.night) \/ world.source[run.feed][k] = table
        BY <4>3, <2>1, <1>1 DEF FeedsInOrder
      <4>. HIDE DEF table, after
      <4>. QED
        BY <4>4, <2>5, <1>1
    <3>2. CASE ~(run.table < Len(world.source[run.feed]))
      <4>1. run'.table = 1
        BY <3>2, <1>9, <2>4
      <4>2. \A f \in 1..Len(world.source) : \A k \in 1..Len(world.source[f]) : ~(k < 1)
        BY <2>3
      <4>3. run'.feed \in Nat \ {0}
        BY <3>2, <1>9, <2>4
      <4>. QED
        BY <4>1, <4>2, <4>3, <1>2
    <3>. QED
      BY <3>1, <3>2
  <2>8. /\ run'.feed \in 1..(Len(world.source) + 1)
        /\ run'.feed <= Len(world.source) => run'.table \in 1..Len(world.source[run'.feed])
        /\ run'.feed \in run.failed => run'.table = 1
    <3>1. CASE run.table < Len(world.source[run.feed])
      BY <3>1, <1>9, <2>4, <1>1, <1>2
    <3>2. CASE ~(run.table < Len(world.source[run.feed]))
      <4>1. run'.table = 1 /\ run'.feed = run.feed + 1
        BY <3>2, <1>9, <2>4
      <4>2. run'.feed \in 1..(Len(world.source) + 1) /\ run'.feed # run.feed
        BY <4>1, <2>1, <1>1, <1>2
      <4>3. run'.feed <= Len(world.source) => 1 \in 1..Len(world.source[run'.feed])
        <5>1. SUFFICES ASSUME run'.feed <= Len(world.source) PROVE 1 \in 1..Len(world.source[run'.feed])
          OBVIOUS
        <5>2. run'.feed \in 1..Len(world.source)
          BY <5>1, <4>2, <1>2
        <5>3. PICK n \in 1..2 : n = Len(world.source[run'.feed])
          BY <5>2, <2>3
        <5>. QED
          BY <5>3
      <4>. QED
        BY <4>1, <4>2, <4>3
    <3>. QED
      BY <3>1, <3>2
  <2>9. run'.pc = "write" /\ run'.failed = run.failed /\ run'.night = run.night /\ world' = world
    BY <1>1, <1>10
  <2>. HIDE DEF table
  <2>. QED
    BY <2>6, <2>7, <2>8, <2>9 DEF FeedsInOrder, Written
<1>13. GoodIsWritten'
  <2>1. GoodIsWritten
    BY DEF SnapshotInv
  <2>2. /\ \A p \in disk'.partitions : p.night <= run.night
        /\ \A r \in disk'.rows : r.night <= run.night
    <3>1. run.night <= run.night
      BY <1>3 DEF Whole!Nights
    <3>. QED
      BY <3>1, <2>1, <1>6, <1>7 DEF GoodIsWritten
  <2>. QED
    BY <2>1, <2>2, <1>1, <1>7, <1>10 DEF GoodIsWritten, Written
<1>. QED
  BY <1>10, <1>11, <1>12, <1>13 DEF SnapshotInv
(* Other steps leave the tables, or move the pointer over a night that has *)
(* them all.                                                               *)
LEMMA SnapshotStep == SnapshotConstants /\ SnapshotInv /\ [Whole!Next]_(Whole!vars) => SnapshotInv'
<1>. SUFFICES ASSUME SnapshotConstants, SnapshotInv, [Whole!Next]_(Whole!vars)
              PROVE  SnapshotInv'
  OBVIOUS
<1>0. /\ faults \in SnapshotEnvironments
      /\ world \in [source : Whole!Sources, says : [Whole!Items -> Whole!Values]]
      /\ disk \in [rows : SUBSET SnapshotRows, partitions : SUBSET [table : TableNames, night : Whole!Nights],
                   good : {0} \cup Whole!Nights]
      /\ run \in [pc : {"idle", "write", "report"}, night : 0..MaxNights, feed : Nat \ {0}, table : Nat \ {0},
                  failed : SUBSET Nat, seen : [Whole!Items -> Whole!Values]]
  BY DEF SnapshotInv, SnapshotTypes
<1>a. /\ Len(world.source) \in 1..3
      /\ \A f \in 1..Len(world.source) : Len(world.source[f]) \in 1..2
  BY <1>0, FeedsOfSources
<1>b. Whole!Idle(run.night) \in [pc : {"idle", "write", "report"}, night : 0..MaxNights, feed : Nat \ {0},
                                 table : Nat \ {0}, failed : SUBSET Nat, seen : [Whole!Items -> Whole!Values]]
  <2>1. [i \in Whole!Items |-> 0] \in [Whole!Items -> Whole!Values]
    BY DEF Whole!Values, SnapshotConstants
  <2>. QED
    BY <1>0, <2>1 DEF Whole!Idle, Whole!None
<1>1. CASE Whole!WriteTable
  BY <1>1, WriteTableKeeps
<1>2. ASSUME NEW i \in Whole!Items, Whole!Change(i)
      PROVE  SnapshotInv'
  <2>1. /\ world' \in [source : Whole!Sources, says : [Whole!Items -> Whole!Values]]
        /\ world'.source = world.source /\ UNCHANGED <<faults, disk, run>>
    BY <1>0, <1>2 DEF Whole!Change
  <2>2. SnapshotTypes'
    BY <1>0, <2>1 DEF SnapshotTypes
  <2>. QED
    BY <2>1, <2>2 DEF SnapshotInv, TonightAsSeen, FeedsInOrder, GoodIsWritten, Written
<1>3. CASE Whole!Collect
  <2>1. PICK failed \in SUBSET (1..Len(world.source)) :
          run' = [Whole!Idle(run.night + 1) EXCEPT !.pc = "write", !.failed = failed, !.seen = world.says]
    BY <1>3 DEF Whole!Collect
  <2>2. run.pc = "idle" /\ run.night < MaxNights /\ UNCHANGED <<faults, world, disk>>
    BY <1>3 DEF Whole!Collect
  <2>3. /\ run' \in [pc : {"idle", "write", "report"}, night : 0..MaxNights, feed : Nat \ {0}, table : Nat \ {0},
                     failed : SUBSET Nat, seen : [Whole!Items -> Whole!Values]]
        /\ run'.pc = "write" /\ run'.night = run.night + 1 /\ run'.feed = 1 /\ run'.table = 1
        /\ run'.night \in Whole!Nights
    <3>1. run.night \in 0..MaxNights /\ run.night + 1 \in 1..MaxNights
      BY <1>0, <2>2 DEF SnapshotConstants
    <3>2. run' = [pc |-> "write", night |-> run.night + 1, feed |-> 1, table |-> 1, failed |-> failed,
                  seen |-> world.says]
      BY <2>1 DEF Whole!Idle
    <3>3. failed \in SUBSET Nat /\ world.says \in [Whole!Items -> Whole!Values]
      BY <1>0, <1>a
    <3>. QED
      BY <3>1, <3>2, <3>3 DEF Whole!Nights
  <2>4. SnapshotTypes'
    BY <1>0, <2>2, <2>3 DEF SnapshotTypes
  <2>5. (\A p \in disk.partitions : p.night <= run.night) /\ (\A r \in disk.rows : r.night <= run.night)
    BY DEF SnapshotInv, GoodIsWritten
  <2>6. /\ \A p \in disk.partitions : p.night \in Nat /\ p.night # run'.night /\ p.night <= run'.night
        /\ \A r \in disk.rows : r.night \in Nat /\ r.night # run'.night /\ r.night <= run'.night
    <3>1. /\ \A p \in disk.partitions : p.night \in Nat
          /\ \A r \in disk.rows : r.night \in Nat
      BY <1>0 DEF SnapshotRows, Whole!Nights
    <3>2. run.night \in Nat
      BY <1>0
    <3>. QED
      BY <2>3, <2>5, <3>1, <3>2
  <2>7. TonightAsSeen'
    BY <2>2, <2>3, <2>6 DEF TonightAsSeen, Written
  <2>8. FeedsInOrder'
    <3>1. /\ 1 \in 1..(Len(world.source) + 1) /\ 1 \in 1..Len(world.source[1])
          /\ \A f \in 1..Len(world.source) : ~(f < 1)
          /\ \A k \in 1..Len(world.source[1]) : ~(k < 1)
      BY <1>a
    <3>. QED
      BY <3>1, <2>2, <2>3 DEF FeedsInOrder
  <2>9. GoodIsWritten'
    BY <2>2, <2>6 DEF GoodIsWritten, SnapshotInv, Written
  <2>. QED
    BY <2>4, <2>7, <2>8, <2>9 DEF SnapshotInv
<1>4. CASE Whole!SkipFeed
  <2>1. /\ run.pc = "write" /\ run.feed <= Len(world.source) /\ run.feed \in run.failed
        /\ run' = [run EXCEPT !.feed = run.feed + 1] /\ UNCHANGED <<faults, world, disk>>
    BY <1>4 DEF Whole!SkipFeed, Whole!Writing
  <2>2. /\ run' \in [pc : {"idle", "write", "report"}, night : 0..MaxNights, feed : Nat \ {0}, table : Nat \ {0},
                     failed : SUBSET Nat, seen : [Whole!Items -> Whole!Values]]
        /\ run'.pc = "write" /\ run'.night = run.night /\ run'.feed = run.feed + 1 /\ run'.table = run.table
        /\ run'.failed = run.failed /\ run'.seen = run.seen
    BY <1>0, <2>1
  <2>3. SnapshotTypes' /\ TonightAsSeen' /\ GoodIsWritten'
    BY <1>0, <2>1, <2>2 DEF SnapshotInv, SnapshotTypes, TonightAsSeen, GoodIsWritten, Written
  <2>4. FeedsInOrder'
    <3>1. FeedsInOrder /\ run.table = 1 /\ run.feed \in 1..Len(world.source)
      BY <2>1, <1>0, <1>a DEF SnapshotInv, FeedsInOrder
    <3>2. ASSUME NEW f \in 1..Len(world.source), f < run.feed + 1, f \notin run.failed
          PROVE  f < run.feed
      BY <3>2, <2>1, <1>0
    <3>3. \A f \in 1..Len(world.source) : f < run'.feed /\ f \notin run'.failed =>
            \A k \in 1..Len(world.source[f]) : Written(world.source[f][k], run.night)
      BY <3>1, <3>2, <2>1, <2>2 DEF FeedsInOrder
    <3>4. /\ run'.feed \in 1..(Len(world.source) + 1)
          /\ run'.feed <= Len(world.source) =>
               /\ run'.table \in 1..Len(world.source[run'.feed])
               /\ \A k \in 1..Len(world.source[run'.feed]) : ~(k < run'.table)
      <4>1. run.feed + 1 \in 1..(Len(world.source) + 1)
        BY <3>1, <1>a
      <4>2. run.feed + 1 <= Len(world.source) => run.feed + 1 \in 1..Len(world.source)
        BY <4>1, <1>a
      <4>3. run.feed + 1 <= Len(world.source) => Len(world.source[run.feed + 1]) \in 1..2
        BY <4>2, <1>a
      <4>. QED
        <5>1. \A n \in 1..2 : 1 \in 1..n /\ \A k \in 1..n : ~(k < 1)
          OBVIOUS
        <5>2. run.feed + 1 <= Len(world.source) =>
                1 \in 1..Len(world.source[run.feed + 1]) /\ \A k \in 1..Len(world.source[run.feed + 1]) : ~(k < 1)
          BY <4>3, <5>1
        <5>. QED
          BY <3>1, <2>2, <4>1, <5>2
    <3>. QED
      BY <3>1, <3>3, <3>4, <2>1, <2>2 DEF FeedsInOrder, Written
  <2>. QED
    BY <2>3, <2>4 DEF SnapshotInv
<1>5. CASE Whole!EndCollect
  <2>1. /\ run.pc = "write" /\ run.feed > Len(world.source)
        /\ run' = [run EXCEPT !.pc = "report"] /\ UNCHANGED <<faults, world>>
        /\ disk' = disk \/ (run.failed = {} /\ disk' = [disk EXCEPT !.good = run.night])
    BY <1>5 DEF Whole!EndCollect
  <2>2. run.night \in Whole!Nights
    BY <2>1 DEF SnapshotInv, TonightAsSeen
  <2>3. /\ disk' \in [rows : SUBSET SnapshotRows, partitions : SUBSET [table : TableNames, night : Whole!Nights],
                      good : {0} \cup Whole!Nights]
        /\ disk'.rows = disk.rows /\ disk'.partitions = disk.partitions
        /\ disk'.good = disk.good \/ (run.failed = {} /\ disk'.good = run.night)
    BY <1>0, <2>1, <2>2
  <2>4. /\ run' \in [pc : {"idle", "write", "report"}, night : 0..MaxNights, feed : Nat \ {0}, table : Nat \ {0},
                     failed : SUBSET Nat, seen : [Whole!Items -> Whole!Values]]
        /\ run'.pc = "report" /\ run'.night = run.night /\ run'.seen = run.seen
    BY <1>0, <2>1
  <2>5. SnapshotTypes'
    BY <1>0, <2>1, <2>3, <2>4 DEF SnapshotTypes
  <2>6. TonightAsSeen' /\ FeedsInOrder'
    BY <2>1, <2>3, <2>4 DEF SnapshotInv, TonightAsSeen, FeedsInOrder, Written
  <2>7. run.failed = {} => \A f \in 1..Len(world.source) : \A k \in 1..Len(world.source[f]) :
                             Written(world.source[f][k], run.night)
    <3>1. \A f \in 1..Len(world.source) : f < run.feed
      BY <2>1, <1>0, <1>a
    <3>. QED
      BY <3>1, <2>1 DEF SnapshotInv, FeedsInOrder
  <2>8. GoodIsWritten'
    BY <2>1, <2>3, <2>4, <2>7 DEF SnapshotInv, GoodIsWritten, Written
  <2>. QED
    BY <2>5, <2>6, <2>8 DEF SnapshotInv
<1>6. CASE Whole!EndRun \/ Whole!Kill
  <2>1. run' = Whole!Idle(run.night) /\ UNCHANGED <<faults, world, disk>>
    BY <1>6 DEF Whole!EndRun, Whole!Kill
  <2>2. run'.pc = "idle" /\ run'.night = run.night
    BY <2>1 DEF Whole!Idle
  <2>3. SnapshotTypes'
    BY <1>0, <1>b, <2>1 DEF SnapshotTypes
  <2>. QED
    BY <2>1, <2>2, <2>3 DEF SnapshotInv, TonightAsSeen, FeedsInOrder, GoodIsWritten, Written
<1>7. CASE UNCHANGED Whole!vars
  <2>1. UNCHANGED <<faults, world, disk, run>>
    BY <1>7 DEF Whole!vars
  <2>2. SnapshotTypes'
    BY <1>0, <2>1 DEF SnapshotTypes
  <2>3. TonightAsSeen'
    BY <2>1 DEF SnapshotInv, TonightAsSeen, Written
  <2>4. FeedsInOrder'
    BY <2>1 DEF SnapshotInv, FeedsInOrder, Written
  <2>5. GoodIsWritten'
    BY <2>1 DEF SnapshotInv, GoodIsWritten, Written
  <2>. QED
    BY <2>2, <2>3, <2>4, <2>5 DEF SnapshotInv
<1>. QED
  BY <1>1, <1>2, <1>3, <1>4, <1>5, <1>6, <1>7 DEF Whole!Next, Whole!Night

LEMMA SnapshotInvariant ==
  ASSUME SnapshotConstants
  PROVE  Whole!Spec => []SnapshotInv
<1>1. Whole!Init => SnapshotInv
  BY SnapshotInit
<1>2. SnapshotInv /\ [Whole!Next]_(Whole!vars) => SnapshotInv'
  BY SnapshotStep
<1>. QED
  BY <1>1, <1>2, PTL DEF Whole!Spec

(* Of a table that is not ranked by a random id, a page shows tonight's    *)
(* value of what was listed tonight.                                       *)
LEMMA NewestNight ==
  ASSUME SnapshotConstants, SnapshotInv, run.pc = "report", NEW t \in TableNames, NEW i \in Whole!Items,
         Written(t, run.night), run.seen[i] # 0
  PROVE  Whole!Best(t, i, "night") = run.seen[i]
<1>. DEFINE rows == Whole!RowsOf(t, i)
<1>1. /\ \A r \in disk.rows : r.night = run.night => r.value = run.seen[r.item]
      /\ \E r \in disk.rows : r.table = t /\ r.item = i /\ r.night = run.night
  BY DEF SnapshotInv, TonightAsSeen
<1>2. \A r \in disk.rows : r.night <= run.night
  BY DEF SnapshotInv, GoodIsWritten
<1>3. \A r \in disk.rows : r.night \in Nat /\ r["night"] = r.night
  BY DEF SnapshotInv, SnapshotTypes, SnapshotRows, Whole!Nights
<1>4. \A r \in rows : r \in disk.rows /\ r.item = i
  BY DEF Whole!RowsOf
<1>5. PICK w \in rows : w.night = run.night
  BY <1>1 DEF Whole!RowsOf
<1>. HIDE DEF rows
<1>6. \A q \in rows : q["night"] <= w["night"]
  BY <1>2, <1>3, <1>4, <1>5
<1>. DEFINE best == CHOOSE r \in rows : \A q \in rows : q["night"] <= r["night"]
<1>7. best \in rows /\ \A q \in rows : q["night"] <= best["night"]
  BY <1>5, <1>6
<1>. HIDE DEF best
<1>8. best.night = run.night
  <2>1. w["night"] <= best["night"]
    BY <1>7, <1>5
  <2>2. run.night <= best.night /\ best.night <= run.night
    BY <2>1, <1>2, <1>3, <1>4, <1>5, <1>7
  <2>3. best.night \in Nat /\ run.night \in Nat
    BY <1>3, <1>4, <1>5, <1>7
  <2>. QED
    BY <2>2, <2>3
<1>9. best.value = run.seen[i]
  BY <1>1, <1>4, <1>7, <1>8
<1>10. Whole!Best(t, i, "night") = IF rows = {} THEN 0 ELSE best.value
  BY DEF Whole!Best, Whole!None, rows, best
<1>. QED
  BY <1>5, <1>9, <1>10

(* Of the scorecard it shows the checks of tonight, and nothing else.      *)
LEMMA NewestScorecard ==
  ASSUME SnapshotConstants, SnapshotInv, run.pc = "report", NEW i \in Whole!Items,
         Written("scorecard", run.night), \E j \in Whole!Items : run.seen[j] # 0
  PROVE  Whole!ReadScorecard(i) = run.seen[i]
<1>. DEFINE all == {q \in disk.rows : q.table = "scorecard"}
            nights == {r.night : r \in all} \cup {0}
            newest == Whole!Max(nights)
            rows == {r \in Whole!RowsOf("scorecard", i) : r.night = run.night}
<1>1. \A r \in disk.rows : r.night = run.night => r.value = run.seen[r.item] /\ r.value # 0
  BY DEF SnapshotInv, TonightAsSeen
<1>2. \A j \in Whole!Items : run.seen[j] # 0 =>
        \E r \in disk.rows : r.table = "scorecard" /\ r.item = j /\ r.night = run.night
  <2>1. TonightAsSeen /\ run.pc # "idle"
    BY DEF SnapshotInv
  <2>2. "scorecard" \in TableNames
    BY DEF TableNames
  <2>. QED
    BY <2>1, <2>2 DEF TonightAsSeen
<1>3. \A r \in disk.rows : r.night \in Nat /\ r.night <= run.night
  BY DEF SnapshotInv, SnapshotTypes, SnapshotRows, GoodIsWritten, Whole!Nights
<1>4. run.night \in nights /\ run.night \in Nat /\ \A n \in nights : n \in Nat /\ n <= run.night
  <2>1. \E r \in all : r.night = run.night
    BY <1>2
  <2>2. run.night \in Nat
    BY <2>1, <1>3
  <2>. QED
    BY <2>1, <2>2, <1>3
<1>5. newest = run.night
  <2>. HIDE DEF nights
  <2>1. newest = CHOOSE x \in nights : \A y \in nights : x >= y
    BY DEF Whole!Max
  <2>2. \A y \in nights : run.night >= y
    BY <1>4
  <2>3. newest \in nights /\ \A y \in nights : newest >= y
    BY <2>1, <2>2, <1>4
  <2>4. newest >= run.night /\ newest <= run.night /\ newest \in Nat
    BY <2>3, <1>4
  <2>. HIDE DEF newest
  <2>. QED
    BY <2>4, <1>4
<1>6. Whole!ReadScorecard(i) = IF rows = {} THEN 0 ELSE (CHOOSE r \in rows : TRUE).value
  <2>1. Whole!ReadScorecard(i) =
          LET found == {r \in Whole!RowsOf("scorecard", i) : r.night = newest}
          IN  IF found = {} THEN 0 ELSE (CHOOSE r \in found : TRUE).value
    BY DEF Whole!ReadScorecard, Whole!None
  <2>. HIDE DEF newest
  <2>. QED
    BY <2>1, <1>5
<1>7. \A r \in rows : r \in disk.rows /\ r.item = i /\ r.night = run.night
  BY DEF Whole!RowsOf
<1>8. CASE run.seen[i] = 0
  <2>1. rows = {}
    BY <1>1, <1>7, <1>8
  <2>. HIDE DEF rows
  <2>. QED
    BY <2>1, <1>6, <1>8
<1>9. CASE run.seen[i] # 0
  <2>1. PICK w \in disk.rows : w.table = "scorecard" /\ w.item = i /\ w.night = run.night
    BY <1>2, <1>9
  <2>2. w \in rows
    BY <2>1 DEF Whole!RowsOf
  <2>. HIDE DEF rows
  <2>3. (CHOOSE r \in rows : TRUE) \in rows
    BY <2>2
  <2>4. (CHOOSE r \in rows : TRUE).value = run.seen[i]
    BY <2>3, <1>1, <1>7
  <2>. QED
    BY <2>2, <2>4, <1>6
<1>. QED
  BY <1>8, <1>9

(* The tables of a source.                                                 *)
LEMMA TablesAreFed ==
  ASSUME NEW source \in Whole!Sources, NEW t \in Whole!TablesOf(source)
  PROVE  \E f \in 1..Len(source) : \E k \in 1..Len(source[f]) : t = source[f][k]
BY DEF Whole!TablesOf

(* A page that calls a table fresh shows what the source said tonight, a   *)
(* scorecard nothing that it does not list, and a badge names a night from *)
(* which every table of the source was written.                            *)
THEOREM FreshPagesAreTrue ==
  ASSUME SnapshotConstants
  PROVE  Whole!Spec => [](Whole!FreshShowsTonight /\ Whole!FreshForgets /\ Whole!BadgeIsHonest)
<1>1. SnapshotInv => Whole!FreshShowsTonight
  <2>1. SUFFICES ASSUME SnapshotInv, run.pc = "report", world.source # Whole!CollectAsfRoster,
                        NEW t \in Whole!Tables, NEW i \in Whole!Items, Whole!TableFresh(t), run.seen[i] # 0
                 PROVE  Whole!Read(t, i) = run.seen[i]
    BY DEF Whole!FreshShowsTonight, Whole!None
  <2>2. world.source \in Whole!Sources
    BY <2>1 DEF SnapshotInv, SnapshotTypes
  <2>3. t \in TableNames /\ t # "roster"
    <3>1. PICK f \in 1..Len(world.source) : \E k \in 1..Len(world.source[f]) : t = world.source[f][k]
      BY <2>1, <2>2, TablesAreFed DEF Whole!Tables
    <3>2. \A k \in 1..Len(world.source[f]) : world.source[f][k] # "roster"
      BY <2>1, <2>2, <3>1
         DEF Whole!Sources, Whole!CollectAsfRoster, Whole!CollectSecurity, Whole!CollectRelease,
                            Whole!CollectReleaseLines, Whole!CollectSubprojectReleases
    <3>3. \A k \in 1..Len(world.source[f]) : world.source[f][k] \in TableNames
      BY <2>2, <3>1, FeedsOfSources
    <3>. QED
      BY <3>1, <3>2, <3>3
  <2>4. Written(t, run.night)
    BY <2>1 DEF Whole!TableFresh, Written
  <2>5. Whole!Read(t, i) = Whole!Best(t, i, "night") \/ (t = "scorecard" /\ Whole!Read(t, i) = Whole!ReadScorecard(i))
    BY <2>3 DEF Whole!Read, Whole!DedupeSecurityAdvisories, Whole!DedupeReleaseRows, Whole!DedupeLatest
  <2>. QED
    BY <2>1, <2>3, <2>4, <2>5, NewestNight, NewestScorecard
<1>2. SnapshotInv => Whole!FreshForgets
  BY NewestScorecard DEF Whole!FreshForgets, Whole!TableFresh, Written, Whole!None
<1>3. SnapshotInv => Whole!BadgeIsHonest
  <2>1. SUFFICES ASSUME SnapshotInv, Whole!StalenessBadge # 0, NEW t \in Whole!Tables
                 PROVE  Written(t, Whole!StalenessBadge)
    BY DEF Whole!BadgeIsHonest, Whole!None, Written
  <2>2. Whole!StalenessBadge = disk.good /\ disk.good # 0
    BY <2>1 DEF Whole!StalenessBadge, Whole!None
  <2>3. PICK f \in 1..Len(world.source) : \E k \in 1..Len(world.source[f]) : t = world.source[f][k]
    BY <2>1, TablesAreFed DEF SnapshotInv, SnapshotTypes, Whole!Tables
  <2>. QED
    BY <2>1, <2>2, <2>3 DEF SnapshotInv, GoodIsWritten
<1>. QED
  BY <1>1, <1>2, <1>3, SnapshotInvariant, PTL

(* An outage of a feed takes nothing off a page and puts nothing on it:    *)
(* what is read changes only as a feed that answered is written, and of an *)
(* item that it listed (or of a check that it listed no more).             *)
THEOREM OutagesKeepPages ==
  ASSUME SnapshotConstants
  PROVE  Whole!Spec => [][Whole!OutageKeepsPages]_(Whole!vars)
<1>. DEFINE best(S, key) == IF S = {} THEN 0 ELSE (CHOOSE r \in S : \A q \in S : q[key] <= r[key]).value
            newest(S) == Whole!Max({r.night : r \in {q \in S : q.table = "scorecard"}} \cup {0})
            one(S) == IF S = {} THEN 0 ELSE (CHOOSE r \in S : TRUE).value
            checks(S, i) == {r \in {r \in S : r.table = "scorecard" /\ r.item = i} : r.night = newest(S)}
            of(S, t, i) == {r \in S : r.table = t /\ r.item = i}
            read(S, t, i) == IF t = "scorecard" THEN one(checks(S, i))
                             ELSE best(of(S, t, i), IF t = "roster" THEN "id" ELSE "night")
<1>1. ASSUME NEW t, NEW i
      PROVE  /\ Whole!Read(t, i) = read(disk.rows, t, i)
             /\ Whole!Read(t, i)' = read(disk'.rows, t, i)
  <2>1. CASE t = "roster"
    BY <2>1 DEF Whole!Read, Whole!DedupeRosterEntries, Whole!Best, Whole!RowsOf, Whole!None
  <2>2. CASE t = "scorecard"
    BY <2>2 DEF Whole!Read, Whole!ReadScorecard, Whole!RowsOf, Whole!None
  <2>3. CASE t \notin {"roster", "scorecard"}
    <3>1. Whole!Read(t, i) = Whole!Best(t, i, "night") /\ Whole!Read(t, i)' = Whole!Best(t, i, "night")'
      <4>1. CASE t = "advisory"
        BY <4>1 DEF Whole!Read, Whole!DedupeSecurityAdvisories
      <4>2. CASE t = "release"
        BY <4>2 DEF Whole!Read, Whole!DedupeReleaseRows
      <4>3. CASE t \notin {"advisory", "release"}
        BY <2>3, <4>3 DEF Whole!Read, Whole!DedupeLatest
      <4>. QED
        BY <4>1, <4>2, <4>3
    <3>2. Whole!Best(t, i, "night") = best(of(disk.rows, t, i), "night")
      BY DEF Whole!Best, Whole!RowsOf, Whole!None
    <3>3. Whole!Best(t, i, "night")' = best(of(disk'.rows, t, i), "night")
      BY DEF Whole!Best, Whole!RowsOf, Whole!None
    <3>4. \A S : read(S, t, i) = best(of(S, t, i), "night")
      <4>. HIDE DEF best, of
      <4>1. (IF t = "roster" THEN "id" ELSE "night") = "night" /\ t # "scorecard"
        BY <2>3
      <4>. QED
        BY <4>1
    <3>. HIDE DEF read, best, of
    <3>. QED
      BY <3>1, <3>2, <3>3, <3>4
  <2>. QED
    BY <2>1, <2>2, <2>3
<1>2. ASSUME NEW R, NEW S, NEW t, NEW i, t # "scorecard", of(R, t, i) = of(S, t, i)
      PROVE  read(R, t, i) = read(S, t, i)
  <2>. HIDE DEF best, of
  <2>. QED
    BY <1>2
<1>. HIDE DEF read
<1>3. SnapshotInv /\ [Whole!Next]_(Whole!vars) => [Whole!OutageKeepsPages]_(Whole!vars)
  <2>1. SUFFICES ASSUME SnapshotInv, Whole!Next, NEW t \in Whole!Tables, NEW i \in Whole!Items,
                        read(disk.rows, t, i) # read(disk'.rows, t, i)
                 PROVE  /\ run.pc = "write" /\ run.feed \notin run.failed
                        /\ run.seen[i] # 0 \/ t = "scorecard"
    BY <1>1 DEF Whole!OutageKeepsPages, Whole!None
  <2>2. ~ (disk'.rows = disk.rows)
    BY <2>1
  <2>3. Whole!WriteTable
    <3>1. disk \in [rows : SUBSET SnapshotRows, partitions : SUBSET [table : TableNames, night : Whole!Nights],
                    good : {0} \cup Whole!Nights]
      BY <2>1 DEF SnapshotInv, SnapshotTypes
    <3>2. CASE Whole!EndCollect
      <4>1. disk' = disk \/ disk' = [disk EXCEPT !.good = run.night]
        BY <3>2 DEF Whole!EndCollect
      <4>. QED
        BY <3>1, <4>1, <2>2
    <3>3. CASE Whole!Collect \/ Whole!SkipFeed \/ Whole!EndRun \/ Whole!Kill \/ \E j \in Whole!Items : Whole!Change(j)
      BY <3>3, <2>2 DEF Whole!Collect, Whole!SkipFeed, Whole!EndRun, Whole!Kill, Whole!Change
    <3>. QED
      BY <3>2, <3>3, <2>1 DEF Whole!Next, Whole!Night
  <2>4. run.pc = "write" /\ run.feed \notin run.failed
    BY <2>3 DEF Whole!WriteTable, Whole!Writing
  <2>5. ASSUME run.seen[i] = 0, t # "scorecard"
        PROVE  of(disk'.rows, t, i) = of(disk.rows, t, i)
    <3>. DEFINE table == world.source[run.feed][run.table]
    <3>1. PICK id \in (IF table = "roster" THEN Whole!Nights \ {r.id : r \in disk.rows} ELSE {run.night}) :
            disk' = [disk EXCEPT
                 !.partitions = @ \cup {[table |-> table, night |-> run.night]},
                 !.rows = @ \cup {[table |-> table, item |-> j, value |-> run.seen[j],
                                   night |-> run.night, id |-> id] :
                                  j \in {x \in Whole!Items : run.seen[x] # 0}}]
      BY <2>3 DEF Whole!WriteTable, Whole!Feed, Whole!None
    <3>. DEFINE new == {[table |-> table, item |-> j, value |-> run.seen[j],
                         night |-> run.night, id |-> id] : j \in {x \in Whole!Items : run.seen[x] # 0}}
    <3>. HIDE DEF table
    <3>2. \A r \in new : r.item # i
      BY <2>5
    <3>3. disk'.rows = disk.rows \cup new
      <4>1. disk \in [rows : SUBSET SnapshotRows, partitions : SUBSET [table : TableNames, night : Whole!Nights],
                      good : {0} \cup Whole!Nights]
        BY <2>1 DEF SnapshotInv, SnapshotTypes
      <4>. HIDE DEF new
      <4>2. disk' = [disk EXCEPT !.partitions = @ \cup {[table |-> table, night |-> run.night]},
                                 !.rows = @ \cup new]
        BY <3>1 DEF new
      <4>. QED
        BY <4>1, <4>2
    <3>. HIDE DEF new
    <3>. QED
      BY <3>2, <3>3
  <2>. QED
    BY <2>1, <2>4, <2>5, <1>2
<1>. QED
  BY <1>3, SnapshotInvariant, PTL DEF Whole!Spec

-----------------------------------------------------------------------------
(* A subproject's workflows.                                               *)

Subproject == INSTANCE SubprojectReleases
                WITH Environments <- SubprojectEnvironments, PageSize <- RunsPageSize,
                     MaxRuns <- MaxWorkflowRuns, MaxEdits <- MaxChanges


SubprojectConstants ==
  /\ RunsPageSize \in Nat /\ NumVersions \in Nat /\ NumIssues \in Nat /\ MaxWorkflowRuns \in Nat /\ MaxNights \in Nat /\ MaxChanges \in Nat

Started == [workflow : Subproject!Workflows, own : BOOLEAN]

SubprojectWorld ==
  [edits : 0..MaxChanges, released : SUBSET Subproject!Versions, archived : SUBSET Subproject!Versions,
   of : [Subproject!Issues -> {0} \cup Subproject!Versions], resolved : SUBSET Subproject!Issues,
   runs : Seq(Started), tags : SUBSET Subproject!Versions]

SubprojectTypes ==
  /\ faults \in SubprojectEnvironments
  /\ world \in SubprojectWorld /\ Len(world.runs) <= MaxWorkflowRuns
  /\ disk = [version |-> disk.version, run |-> disk.run]
  /\ \A v \in DOMAIN disk.version : v \in Subproject!Versions /\ disk.version[v] \in Subproject!VersionRow
  /\ run = [pc |-> run.pc, night |-> run.night, todo |-> run.todo, open |-> run.open, rows |-> run.rows]
  /\ run.night \in 0..MaxNights /\ run.todo \in Seq(Subproject!Versions) /\ run.open \in 0..NumIssues
  /\ run.pc = "total" => run.todo # << >>
  /\ \A v \in DOMAIN run.rows : v \in Subproject!Versions /\ run.rows[v] \in Subproject!VersionRow

(* The run that is stored of a workflow is one that it had.                *)
RunsHappened ==
  \A w \in DOMAIN disk.run :
    /\ disk.run[w] = [workflow |-> w, number |-> disk.run[w].number] /\ disk.run[w].number \in 1..Len(world.runs)
    /\ world.runs[disk.run[w].number].workflow = w /\ world.runs[disk.run[w].number].own

(* A first count is of issues that the version still has; no row, of the   *)
(* night or in the table, has more open issues than issues.                *)
CountsInOrder ==
  "retarget" \notin faults =>
    /\ run.pc = "total" => run.open <= Subproject!Cardinality(Subproject!IssuesOf(Head(run.todo)))
    /\ \A v \in DOMAIN run.rows : run.rows[v].open <= run.rows[v].total
    /\ \A v \in DOMAIN disk.version : disk.version[v].open <= disk.version[v].total

SubprojectInv == SubprojectTypes /\ RunsHappened /\ CountsInOrder

LEMMA SubprojectInit == SubprojectConstants /\ Subproject!Init => SubprojectInv
<1>. SUFFICES ASSUME SubprojectConstants, Subproject!Init PROVE SubprojectInv
  OBVIOUS
<1>. USE DEF Subproject!Init, Subproject!None, Subproject!Idle
<1>1. /\ << >> \in Seq(Started) /\ << >> \in Seq(Subproject!Versions)
      /\ [i \in Subproject!Issues |-> 0] \in [Subproject!Issues -> {0} \cup Subproject!Versions]
  OBVIOUS
<1>2. world \in SubprojectWorld
  BY <1>1 DEF SubprojectWorld, SubprojectConstants
<1>3. SubprojectTypes
  BY <1>1, <1>2 DEF SubprojectTypes, SubprojectConstants
<1>4. RunsHappened
  BY DEF RunsHappened
<1>5. CountsInOrder
  BY DEF CountsInOrder
<1>. QED
  BY <1>3, <1>4, <1>5 DEF SubprojectInv

(* Counts of issues are counts of issues.                                  *)
LEMMA SubprojectCardinality == \A S : Subproject!Cardinality(S) = Cardinality(S)
  BY DEF Subproject!Cardinality, Cardinality

LEMMA IssueCounts ==
  ASSUME SubprojectConstants, NEW S \in SUBSET Subproject!Issues, NEW T \in SUBSET S
  PROVE  /\ Subproject!Cardinality(S) \in 0..NumIssues /\ Subproject!Cardinality(T) \in 0..NumIssues
         /\ Subproject!Cardinality(T) <= Subproject!Cardinality(S)
<1>1. IsFiniteSet(Subproject!Issues) /\ Cardinality(Subproject!Issues) = NumIssues
  <2>1. IsFiniteSet(1..NumIssues) /\ Cardinality(1..NumIssues) = IF 1 > NumIssues THEN 0 ELSE NumIssues - 1 + 1
    BY FS_Interval DEF SubprojectConstants
  <2>. QED
    BY <2>1 DEF Subproject!Issues, SubprojectConstants
<1>2. IsFiniteSet(S) /\ Cardinality(S) <= NumIssues
  BY <1>1, FS_Subset
<1>3. IsFiniteSet(T) /\ Cardinality(T) <= Cardinality(S)
  BY <1>2, FS_Subset
<1>4. Cardinality(S) \in Nat /\ Cardinality(T) \in Nat
  BY <1>2, <1>3, FS_CardinalityType
<1>. QED
  BY <1>2, <1>3, <1>4, SubprojectCardinality DEF SubprojectConstants

(* What happens outside leaves the tables and the run.                     *)
LEMMA SubprojectOutside ==
  ASSUME SubprojectConstants, SubprojectInv,
         \/ \E i \in Subproject!Issues : Subproject!Resolve(i) \/ \E v \in Subproject!Versions : Subproject!Target(i, v) \/ Subproject!Retarget(i, v)
         \/ \E v \in Subproject!Versions : Subproject!Publish(v) \/ Subproject!Close(v)
         \/ \E w \in Subproject!Workflows, own \in BOOLEAN : Subproject!StartRun(w, own)
  PROVE  /\ UNCHANGED <<faults, disk, run>>
         /\ world' \in SubprojectWorld /\ Len(world'.runs) <= MaxWorkflowRuns
         /\ Len(world.runs) \in Nat /\ Len(world'.runs) \in Nat /\ Len(world.runs) <= Len(world'.runs)
         /\ \A k \in 1..Len(world.runs) : world'.runs[k] = world.runs[k]
         /\ "retarget" \notin faults =>
              \A i \in Subproject!Issues : world.of[i] # 0 => world'.of[i] = world.of[i]
<1>1. world \in SubprojectWorld /\ Len(world.runs) <= MaxWorkflowRuns /\ Len(world.runs) \in Nat
  <2>1. world \in SubprojectWorld /\ Len(world.runs) <= MaxWorkflowRuns
    BY DEF SubprojectInv, SubprojectTypes
  <2>2. world.runs \in Seq(Started)
    BY <2>1 DEF SubprojectWorld
  <2>. QED
    BY <2>1, <2>2
<1>. DEFINE after ==
               /\ UNCHANGED <<faults, disk, run>>
               /\ world' \in SubprojectWorld /\ Len(world'.runs) <= MaxWorkflowRuns
               /\ Len(world'.runs) \in Nat /\ Len(world.runs) <= Len(world'.runs)
               /\ \A k \in 1..Len(world.runs) : world'.runs[k] = world.runs[k]
               /\ "retarget" \notin faults =>
                    \A i \in Subproject!Issues : world.of[i] # 0 => world'.of[i] = world.of[i]
<1>2. ASSUME NEW change \in SubprojectWorld, change.runs = world.runs, change.edits = world.edits,
             Subproject!Outside(change),
             "retarget" \notin faults => \A i \in Subproject!Issues : world.of[i] # 0 => change.of[i] = world.of[i]
      PROVE  after
  <2>1. UNCHANGED <<faults, disk, run>> /\ world.edits < MaxChanges
    BY <1>2 DEF Subproject!Outside
  <2>2. world' = [change EXCEPT !.edits = change.edits + 1] /\ change.edits \in 0..MaxChanges
    BY <1>2 DEF Subproject!Outside, SubprojectWorld
  <2>3. change.edits + 1 \in 0..MaxChanges
    BY <2>1, <2>2, <1>2 DEF SubprojectConstants
  <2>4. world' \in SubprojectWorld /\ world'.runs = world.runs /\ world'.of = change.of
    BY <2>2, <2>3, <1>2 DEF SubprojectWorld
  <2>. QED
    BY <2>1, <2>4, <1>1, <1>2
<1>. HIDE DEF after
<1>3. ASSUME NEW i \in Subproject!Issues, NEW v \in Subproject!Versions,
             Subproject!Target(i, v) \/ Subproject!Retarget(i, v)
      PROVE  after
  <2>1. /\ [world EXCEPT !.of[i] = v] \in SubprojectWorld
        /\ [world EXCEPT !.of[i] = v].runs = world.runs /\ [world EXCEPT !.of[i] = v].edits = world.edits
        /\ world.of[i] = 0 => \A j \in Subproject!Issues : world.of[j] # 0 => [world EXCEPT !.of[i] = v].of[j] = world.of[j]
    BY <1>1 DEF SubprojectWorld
  <2>. QED
    BY <1>3, <1>2, <2>1 DEF Subproject!Target, Subproject!Retarget, Subproject!None
<1>4. ASSUME NEW i \in Subproject!Issues, Subproject!Resolve(i)
      PROVE  after
  <2>1. /\ [world EXCEPT !.resolved = world.resolved \cup {i}] \in SubprojectWorld
        /\ [world EXCEPT !.resolved = world.resolved \cup {i}].runs = world.runs /\ [world EXCEPT !.resolved = world.resolved \cup {i}].edits = world.edits
        /\ \A j \in Subproject!Issues : world.of[j] # 0 => [world EXCEPT !.resolved = world.resolved \cup {i}].of[j] = world.of[j]
    BY <1>1 DEF SubprojectWorld
  <2>. QED
    BY <1>4, <1>2, <2>1 DEF Subproject!Resolve
<1>5. ASSUME NEW v \in Subproject!Versions, Subproject!Publish(v)
      PROVE  after
  <2>1. /\ [world EXCEPT !.tags = world.tags \cup {v}] \in SubprojectWorld
        /\ [world EXCEPT !.tags = world.tags \cup {v}].runs = world.runs /\ [world EXCEPT !.tags = world.tags \cup {v}].edits = world.edits
        /\ \A j \in Subproject!Issues : world.of[j] # 0 => [world EXCEPT !.tags = world.tags \cup {v}].of[j] = world.of[j]
    BY <1>1 DEF SubprojectWorld
  <2>. QED
    BY <1>5, <1>2, <2>1 DEF Subproject!Publish
<1>6. ASSUME NEW v \in Subproject!Versions, Subproject!Close(v)
      PROVE  after
  <2>1. /\ [world EXCEPT !.released = world.released \cup {v}] \in SubprojectWorld
        /\ [world EXCEPT !.released = world.released \cup {v}].runs = world.runs /\ [world EXCEPT !.released = world.released \cup {v}].edits = world.edits
        /\ \A j \in Subproject!Issues : world.of[j] # 0 => [world EXCEPT !.released = world.released \cup {v}].of[j] = world.of[j]
    BY <1>1 DEF SubprojectWorld
  <2>2. /\ [world EXCEPT !.archived = world.archived \cup {v}] \in SubprojectWorld
        /\ [world EXCEPT !.archived = world.archived \cup {v}].runs = world.runs /\ [world EXCEPT !.archived = world.archived \cup {v}].edits = world.edits
        /\ \A j \in Subproject!Issues : world.of[j] # 0 => [world EXCEPT !.archived = world.archived \cup {v}].of[j] = world.of[j]
    BY <1>1 DEF SubprojectWorld
  <2>. QED
    BY <1>6, <1>2, <2>1, <2>2 DEF Subproject!Close
<1>7. ASSUME NEW w \in Subproject!Workflows, NEW own \in BOOLEAN, Subproject!StartRun(w, own)
      PROVE  after
  <2>. DEFINE started == [workflow |-> w, own |-> own]
  <2>1. /\ UNCHANGED <<faults, disk, run>> /\ Len(world.runs) < MaxWorkflowRuns
        /\ world' = [world EXCEPT !.runs = Append(world.runs, started)]
    BY <1>7 DEF Subproject!StartRun
  <2>2. started \in Started /\ world.runs \in Seq(Started)
    BY <1>1 DEF Started, SubprojectWorld
  <2>. HIDE DEF started
  <2>. DEFINE more == Append(world.runs, started)
  <2>3. /\ more \in Seq(Started) /\ Len(more) = Len(world.runs) + 1
        /\ \A k \in 1..Len(world.runs) : more[k] = world.runs[k]
    BY <2>2
  <2>. HIDE DEF more
  <2>4. world' = [world EXCEPT !.runs = more]
    BY <2>1 DEF more
  <2>5. world' \in SubprojectWorld /\ world'.runs = more /\ world'.of = world.of
    BY <1>1, <2>3, <2>4 DEF SubprojectWorld
  <2>. QED
    BY <2>1, <2>3, <2>5, <1>1 DEF after, SubprojectConstants
<1>8. after
  BY <1>3, <1>4, <1>5, <1>6, <1>7
<1>. QED
  BY <1>1, <1>8 DEF after

(* The newest run of a workflow on the page.                               *)
LEMMA NewestOnPage ==
  ASSUME SubprojectConstants, SubprojectInv
  PROVE  LET latest == Subproject!FetchLatestWorkflowRuns
         IN  \A w \in DOMAIN latest :
               /\ latest[w] = [workflow |-> w, number |-> latest[w].number] /\ latest[w].number \in 1..Len(world.runs)
               /\ world.runs[latest[w].number].workflow = w /\ world.runs[latest[w].number].own
               /\ w \in DOMAIN disk.run => disk.run[w].number <= latest[w].number
<1>. DEFINE page == {k \in DOMAIN world.runs : k > Len(world.runs) - RunsPageSize /\ world.runs[k].own}
            mine(w) == {k \in page : world.runs[k].workflow = w}
            latest == Subproject!FetchLatestWorkflowRuns
<1>1. world.runs \in Seq(Started) /\ Len(world.runs) \in Nat /\ DOMAIN world.runs = 1..Len(world.runs)
  BY DEF SubprojectInv, SubprojectTypes, SubprojectWorld
<1>2. latest = [w \in {world.runs[k].workflow : k \in page} |-> [workflow |-> w, number |-> Subproject!Max(mine(w))]]
  BY DEF Subproject!FetchLatestWorkflowRuns
<1>3. SUFFICES ASSUME NEW w \in {world.runs[k].workflow : k \in page}
               PROVE  /\ Subproject!Max(mine(w)) \in 1..Len(world.runs)
                      /\ world.runs[Subproject!Max(mine(w))].workflow = w /\ world.runs[Subproject!Max(mine(w))].own
                      /\ w \in DOMAIN disk.run => disk.run[w].number <= Subproject!Max(mine(w))
  <2>1. SUFFICES ASSUME NEW w \in DOMAIN latest
                 PROVE  /\ latest[w] = [workflow |-> w, number |-> latest[w].number] /\ latest[w].number \in 1..Len(world.runs)
                        /\ world.runs[latest[w].number].workflow = w /\ world.runs[latest[w].number].own
                        /\ w \in DOMAIN disk.run => disk.run[w].number <= latest[w].number
    OBVIOUS
  <2>. HIDE DEF latest, page, mine
  <2>2. w \in {world.runs[k].workflow : k \in page} /\ latest[w] = [workflow |-> w, number |-> Subproject!Max(mine(w))]
    BY <2>1, <1>2
  <2>3. latest[w].number = Subproject!Max(mine(w))
    BY <2>2
  <2>. QED
    BY <2>2, <2>3, <1>3
<1>4. mine(w) \in SUBSET (1..Len(world.runs)) /\ mine(w) # {}
  BY <1>1
<1>5. \E m \in mine(w) : \A x \in mine(w) : x <= m
  <2>. HIDE DEF mine
  <2>. QED
    BY <1>1, <1>4, LargestNumber
<1>6. Subproject!Max(mine(w)) \in mine(w) /\ \A x \in mine(w) : x <= Subproject!Max(mine(w))
  <2>. DEFINE all == mine(w)
  <2>. HIDE DEF mine
  <2>1. \A x \in all : x \in Nat
    BY <1>4
  <2>2. Subproject!Max(all) = CHOOSE x \in all : \A y \in all : x >= y
    BY DEF Subproject!Max
  <2>3. \E x \in all : \A y \in all : x >= y
    BY <1>5, <2>1
  <2>. HIDE DEF all
  <2>4. Subproject!Max(all) \in all /\ \A y \in all : Subproject!Max(all) >= y
    BY <2>2, <2>3
  <2>5. \A x \in all : x <= Subproject!Max(all)
    BY <2>4, <2>1
  <2>. QED
    BY <2>4, <2>5 DEF all
<1>. DEFINE top == Subproject!Max(mine(w))
<1>7. top \in page /\ top \in 1..Len(world.runs) /\ world.runs[top].workflow = w /\ world.runs[top].own
      /\ top > Len(world.runs) - RunsPageSize
  BY <1>1, <1>6
<1>8. ASSUME w \in DOMAIN disk.run
      PROVE  disk.run[w].number <= top
  <2>. DEFINE n == disk.run[w].number
  <2>1. n \in 1..Len(world.runs) /\ world.runs[n].workflow = w /\ world.runs[n].own
    BY <1>8 DEF SubprojectInv, RunsHappened
  <2>2. CASE n > Len(world.runs) - RunsPageSize
    <3>1. n \in mine(w)
      BY <2>1, <2>2, <1>1
    <3>. QED
      BY <3>1, <1>6
  <2>3. CASE ~(n > Len(world.runs) - RunsPageSize)
    <3>1. n <= top
      <4>. HIDE DEF top, n
      <4>. QED
        BY <2>1, <2>3, <1>7, <1>1 DEF SubprojectConstants
    <3>. QED
      BY <3>1
  <2>. QED
    BY <2>2, <2>3
<1>. QED
  BY <1>7, <1>8

(* Each step keeps what is known of them, and shows no older run.          *)
LEMMA SubprojectStep ==
  ASSUME SubprojectConstants, SubprojectInv, [Subproject!Next]_(Subproject!vars)
  PROVE  SubprojectInv' /\ [Subproject!RunsNeverOlder]_(Subproject!vars)
<1>a. SubprojectTypes /\ RunsHappened /\ CountsInOrder
  BY DEF SubprojectInv
<1>b. /\ disk = [version |-> disk.version, run |-> disk.run]
      /\ run = [pc |-> run.pc, night |-> run.night, todo |-> run.todo, open |-> run.open, rows |-> run.rows]
      /\ run.night \in 0..MaxNights /\ run.todo \in Seq(Subproject!Versions) /\ run.open \in 0..NumIssues
      /\ world \in SubprojectWorld
  BY <1>a DEF SubprojectTypes
<1>n. \A w \in DOMAIN disk.run : disk.run[w].number \in Nat
  <2>1. world.runs \in Seq(Started)
    BY <1>b DEF SubprojectWorld
  <2>2. Len(world.runs) \in Nat
    BY <2>1
  <2>3. \A w \in DOMAIN disk.run : disk.run[w].number \in 1..Len(world.runs)
    BY <1>a DEF RunsHappened
  <2>. QED
    BY <2>2, <2>3
<1>c. ASSUME disk'.run = disk.run
      PROVE  Subproject!RunsNeverOlder
  <2>. QED
    BY <1>c, <1>n DEF Subproject!RunsNeverOlder
<1>1. CASE \/ \E i \in Subproject!Issues : Subproject!Resolve(i) \/ \E v \in Subproject!Versions : Subproject!Target(i, v) \/ Subproject!Retarget(i, v)
           \/ \E v \in Subproject!Versions : Subproject!Publish(v) \/ Subproject!Close(v)
           \/ \E w \in Subproject!Workflows, own \in BOOLEAN : Subproject!StartRun(w, own)
  <2>1. /\ UNCHANGED <<faults, disk, run>>
        /\ world' \in SubprojectWorld /\ Len(world'.runs) <= MaxWorkflowRuns
        /\ Len(world.runs) \in Nat /\ Len(world'.runs) \in Nat /\ Len(world.runs) <= Len(world'.runs)
        /\ \A k \in 1..Len(world.runs) : world'.runs[k] = world.runs[k]
        /\ "retarget" \notin faults =>
             \A i \in Subproject!Issues : world.of[i] # 0 => world'.of[i] = world.of[i]
    BY <1>1, SubprojectOutside
  <2>2. SubprojectTypes'
    BY <1>a, <2>1 DEF SubprojectTypes
  <2>3. RunsHappened'
    <3>1. \A k \in 1..Len(world.runs) : k \in 1..Len(world'.runs) /\ world'.runs[k] = world.runs[k]
      BY <2>1
    <3>2. SUFFICES ASSUME NEW w \in DOMAIN disk.run
                   PROVE  /\ disk.run[w] = [workflow |-> w, number |-> disk.run[w].number]
                          /\ disk.run[w].number \in 1..Len(world'.runs)
                          /\ world'.runs[disk.run[w].number].workflow = w /\ world'.runs[disk.run[w].number].own
      BY <2>1 DEF RunsHappened
    <3>. QED
      BY <1>a, <3>1 DEF RunsHappened
  <2>4. CountsInOrder'
    <3>1. SUFFICES ASSUME "retarget" \notin faults
                   PROVE  run.pc = "total" =>
                            run.open <= Subproject!Cardinality({i \in Subproject!Issues : world'.of[i] = Head(run.todo)})
      BY <1>a, <2>1 DEF CountsInOrder, Subproject!IssuesOf
    <3>2. SUFFICES ASSUME run.pc = "total"
                   PROVE  run.open <= Subproject!Cardinality({i \in Subproject!Issues : world'.of[i] = Head(run.todo)})
      OBVIOUS
    <3>. DEFINE v == Head(run.todo)
                S == {i \in Subproject!Issues : world'.of[i] = v}
                T == {i \in Subproject!Issues : world.of[i] = v}
    <3>3. v \in Subproject!Versions
      BY <1>a, <1>b, <3>2 DEF SubprojectTypes
    <3>4. T \in SUBSET S
      BY <2>1, <3>1, <3>3 DEF Subproject!Versions
    <3>5. Subproject!Cardinality(S) \in 0..NumIssues /\ Subproject!Cardinality(T) \in 0..NumIssues /\ Subproject!Cardinality(T) <= Subproject!Cardinality(S)
      <4>. HIDE DEF v
      <4>1. S \in SUBSET Subproject!Issues
        OBVIOUS
      <4>. HIDE DEF S, T
      <4>. QED
        BY <4>1, <3>4, IssueCounts
    <3>6. run.open <= Subproject!Cardinality(T)
      BY <1>a, <3>1, <3>2 DEF CountsInOrder, Subproject!IssuesOf
    <3>7. run.open <= Subproject!Cardinality(S)
      <4>. HIDE DEF S, T
      <4>. QED
        BY <1>b, <3>5, <3>6
    <3>. QED
      BY <3>7
  <2>. QED
    BY <2>1, <2>2, <2>3, <2>4, <1>c DEF SubprojectInv
<1>2. CASE Subproject!FetchVersions
  <2>1. PICK list \in Subproject!SetToSeqs(Subproject!Unreleased) :
          run' = [Subproject!Idle(run.night + 1) EXCEPT !.pc = "open", !.todo = list]
    BY <1>2 DEF Subproject!FetchVersions
  <2>2. run.night < MaxNights /\ UNCHANGED <<faults, world, disk>>
    BY <1>2 DEF Subproject!FetchVersions
  <2>3. list \in Seq(Subproject!Versions)
    <3>. DEFINE n == Subproject!Cardinality(Subproject!Unreleased)
    <3>1. list \in [1..n -> Subproject!Unreleased]
      BY <2>1 DEF Subproject!SetToSeqs
    <3>2. Subproject!Unreleased \subseteq Subproject!Versions
      BY DEF Subproject!Unreleased
    <3>3. n \in Nat
      <4>1. IsFiniteSet(Subproject!Versions)
        BY FS_Interval DEF Subproject!Versions, SubprojectConstants
      <4>. QED
        BY <4>1, <3>2, FS_Subset, FS_CardinalityType, SubprojectCardinality
    <3>. HIDE DEF n
    <3>4. list \in [1..n -> Subproject!Versions]
      BY <3>1, <3>2
    <3>. QED
      BY <3>3, <3>4
  <2>4. run' = [pc |-> "open", night |-> run.night + 1, todo |-> list, open |-> 0, rows |-> << >>]
    BY <2>1 DEF Subproject!Idle, Subproject!None
  <2>5. run.night + 1 \in 0..MaxNights /\ 0 \in 0..NumIssues
    BY <2>2, <1>b DEF SubprojectConstants
  <2>6. SubprojectTypes'
    BY <1>a, <2>2, <2>3, <2>4, <2>5 DEF SubprojectTypes
  <2>7. RunsHappened' /\ CountsInOrder'
    BY <1>a, <2>2, <2>4 DEF RunsHappened, CountsInOrder
  <2>. QED
    BY <2>2, <2>6, <2>7, <1>c DEF SubprojectInv
<1>3. CASE Subproject!FetchOpenCount
  <2>. DEFINE v == Head(run.todo)
              T == Subproject!IssuesOf(v) \ world.resolved
              n == Subproject!Cardinality(T)
  <2>1. /\ run.todo # << >> /\ UNCHANGED <<faults, world, disk>>
        /\ run' = [run EXCEPT !.pc = "total", !.open = n]
    BY <1>3 DEF Subproject!FetchOpenCount
  <2>2. n \in 0..NumIssues /\ n <= Subproject!Cardinality(Subproject!IssuesOf(v))
    <3>1. Subproject!IssuesOf(v) \in SUBSET Subproject!Issues /\ T \in SUBSET Subproject!IssuesOf(v)
      BY DEF Subproject!IssuesOf
    <3>. HIDE DEF T, v
    <3>. QED
      BY <3>1, IssueCounts
  <2>. HIDE DEF n
  <2>3. run' = [pc |-> "total", night |-> run.night, todo |-> run.todo, open |-> n, rows |-> run.rows]
    BY <1>b, <2>1
  <2>4. SubprojectTypes'
    BY <1>a, <2>1, <2>2, <2>3 DEF SubprojectTypes
  <2>5. RunsHappened'
    BY <1>a, <2>1 DEF RunsHappened
  <2>6. CountsInOrder'
    BY <1>a, <2>1, <2>2, <2>3 DEF CountsInOrder, Subproject!IssuesOf
  <2>. QED
    BY <2>1, <2>4, <2>5, <2>6, <1>c DEF SubprojectInv
<1>4. CASE Subproject!FetchTotalCount
  <2>. DEFINE v == Head(run.todo)
              total == Subproject!Cardinality(Subproject!IssuesOf(v))
              row == [open |-> run.open, total |-> total]
              rows == IF total = 0 THEN run.rows ELSE Subproject!Over([x \in {v} |-> row], run.rows)
  <2>1. /\ run.pc = "total" /\ UNCHANGED <<faults, world, disk>>
        /\ run' = [run EXCEPT !.pc = "open", !.todo = Tail(run.todo), !.rows = rows]
    BY <1>4 DEF Subproject!FetchTotalCount
  <2>2. run.todo # << >> /\ v \in Subproject!Versions /\ Tail(run.todo) \in Seq(Subproject!Versions)
    BY <1>a, <1>b, <2>1 DEF SubprojectTypes
  <2>3. total \in 0..NumIssues
    <3>1. Subproject!IssuesOf(v) \in SUBSET Subproject!Issues /\ {} \in SUBSET Subproject!IssuesOf(v)
      BY DEF Subproject!IssuesOf
    <3>. HIDE DEF v
    <3>. QED
      BY <3>1, IssueCounts
  <2>4. row \in Subproject!VersionRow /\ ("retarget" \notin faults => row.open <= row.total)
    BY <1>a, <1>b, <2>1, <2>3 DEF Subproject!VersionRow, CountsInOrder
  <2>. HIDE DEF row, v, total
  <2>. DEFINE one == [x \in {v} |-> row]
  <2>5. \A x \in DOMAIN rows : \/ x = v /\ rows[x] = row
                               \/ x \in DOMAIN run.rows /\ rows[x] = run.rows[x]
    <3>1. DOMAIN one = {v} /\ one[v] = row
      OBVIOUS
    <3>2. rows = IF total = 0 THEN run.rows ELSE Subproject!Over(one, run.rows)
      OBVIOUS
    <3>. HIDE DEF one, rows
    <3>3. CASE total = 0
      BY <3>2, <3>3
    <3>4. CASE total # 0
      <4>1. rows = Subproject!Over(one, run.rows)
        BY <3>2, <3>4
      <4>2. /\ DOMAIN rows = DOMAIN one \cup DOMAIN run.rows
            /\ \A x \in DOMAIN one \cup DOMAIN run.rows : rows[x] = IF x \in DOMAIN one THEN one[x] ELSE run.rows[x]
        BY <4>1 DEF Subproject!Over
      <4>. QED
        BY <4>2, <3>1
    <3>. QED
      BY <3>3, <3>4
  <2>. HIDE DEF rows
  <2>6. run' = [pc |-> "open", night |-> run.night, todo |-> Tail(run.todo), open |-> run.open, rows |-> rows]
    BY <1>b, <2>1
  <2>7. SubprojectTypes'
    BY <1>a, <2>1, <2>2, <2>4, <2>5, <2>6 DEF SubprojectTypes
  <2>8. RunsHappened'
    BY <1>a, <2>1 DEF RunsHappened
  <2>9. CountsInOrder'
    BY <1>a, <2>1, <2>4, <2>5, <2>6 DEF CountsInOrder
  <2>. QED
    BY <2>1, <2>7, <2>8, <2>9, <1>c DEF SubprojectInv
<1>5. CASE Subproject!JiraFails
  <2>1. UNCHANGED <<faults, world, disk>> /\ run' = [run EXCEPT !.pc = "actions"]
    BY <1>5 DEF Subproject!JiraFails
  <2>2. run' = [pc |-> "actions", night |-> run.night, todo |-> run.todo, open |-> run.open, rows |-> run.rows]
    BY <1>b, <2>1
  <2>3. SubprojectTypes'
    BY <1>a, <2>1, <2>2 DEF SubprojectTypes
  <2>4. RunsHappened' /\ CountsInOrder'
    BY <1>a, <2>1, <2>2 DEF RunsHappened, CountsInOrder
  <2>. QED
    BY <2>1, <2>3, <2>4, <1>c DEF SubprojectInv
<1>6. CASE Subproject!WriteVersions
  <2>. DEFINE both == Subproject!Over(run.rows, disk.version)
  <2>1. /\ UNCHANGED <<faults, world>> /\ run' = [run EXCEPT !.pc = "actions"]
        /\ disk' = [disk EXCEPT !.version = both]
    BY <1>6 DEF Subproject!WriteVersions
  <2>2. \A x \in DOMAIN both : \/ x \in DOMAIN run.rows /\ both[x] = run.rows[x]
                               \/ x \in DOMAIN disk.version /\ both[x] = disk.version[x]
    BY DEF Subproject!Over
  <2>. HIDE DEF both
  <2>3. run' = [pc |-> "actions", night |-> run.night, todo |-> run.todo, open |-> run.open, rows |-> run.rows]
    BY <1>b, <2>1
  <2>4. disk' = [version |-> both, run |-> disk.run]
    BY <1>b, <2>1
  <2>5. SubprojectTypes'
    BY <1>a, <2>1, <2>2, <2>3, <2>4 DEF SubprojectTypes
  <2>6. RunsHappened' /\ CountsInOrder'
    BY <1>a, <2>1, <2>2, <2>3, <2>4 DEF RunsHappened, CountsInOrder
  <2>. QED
    BY <2>4, <2>5, <2>6, <1>c DEF SubprojectInv
<1>7. ASSUME run' = Subproject!Idle(run.night), UNCHANGED <<faults, world>>,
             disk' = [version |-> disk.version, run |-> disk'.run],
             RunsHappened', Subproject!RunsNeverOlder
      PROVE  SubprojectInv' /\ [Subproject!RunsNeverOlder]_(Subproject!vars)
  <2>1. run' = [pc |-> "idle", night |-> run.night, todo |-> << >>, open |-> 0, rows |-> << >>]
    BY <1>7 DEF Subproject!Idle, Subproject!None
  <2>2. << >> \in Seq(Subproject!Versions) /\ 0 \in 0..NumIssues
    BY DEF SubprojectConstants
  <2>3. disk' = [version |-> disk'.version, run |-> disk'.run] /\ disk'.version = disk.version
    BY <1>7
  <2>4. SubprojectTypes'
    BY <1>a, <1>7, <2>1, <2>2, <2>3 DEF SubprojectTypes
  <2>5. CountsInOrder'
    BY <1>a, <1>7, <2>1, <2>3 DEF CountsInOrder
  <2>. QED
    BY <1>7, <2>4, <2>5 DEF SubprojectInv
<1>8. CASE Subproject!Kill \/ (Subproject!WriteRuns /\ disk' = disk)
  <2>1. run' = Subproject!Idle(run.night) /\ UNCHANGED <<faults, world, disk>>
    BY <1>8 DEF Subproject!Kill, Subproject!WriteRuns
  <2>2. RunsHappened'
    BY <1>a, <2>1 DEF RunsHappened
  <2>. QED
    BY <1>b, <1>c, <1>7, <2>1, <2>2
<1>9. CASE Subproject!WriteRuns /\ disk' # disk
  <2>. DEFINE latest == Subproject!FetchLatestWorkflowRuns
              both == Subproject!Over(latest, disk.run)
  <2>1. UNCHANGED <<faults, world>> /\ run' = Subproject!Idle(run.night) /\ disk' = [disk EXCEPT !.run = both]
    BY <1>9 DEF Subproject!WriteRuns
  <2>2. \A w \in DOMAIN latest :
          /\ latest[w] = [workflow |-> w, number |-> latest[w].number] /\ latest[w].number \in 1..Len(world.runs)
          /\ world.runs[latest[w].number].workflow = w /\ world.runs[latest[w].number].own
          /\ w \in DOMAIN disk.run => disk.run[w].number <= latest[w].number
    BY NewestOnPage
  <2>. HIDE DEF latest
  <2>3. /\ DOMAIN both = DOMAIN latest \cup DOMAIN disk.run
        /\ \A w \in DOMAIN both : both[w] = IF w \in DOMAIN latest THEN latest[w] ELSE disk.run[w]
    BY DEF Subproject!Over
  <2>. HIDE DEF both
  <2>4. disk' = [version |-> disk.version, run |-> both] /\ disk'.run = both
    BY <1>b, <2>1
  <2>5. \A w \in DOMAIN both :
          /\ both[w] = [workflow |-> w, number |-> both[w].number] /\ both[w].number \in 1..Len(world.runs)
          /\ world.runs[both[w].number].workflow = w /\ world.runs[both[w].number].own
    BY <2>2, <2>3, <1>a DEF RunsHappened
  <2>6. \A w \in DOMAIN disk.run : w \in DOMAIN both /\ both[w].number >= disk.run[w].number
    <3>1. SUFFICES ASSUME NEW w \in DOMAIN disk.run
                   PROVE  both[w].number >= disk.run[w].number
      BY <2>3
    <3>2. disk.run[w].number \in Nat /\ both[w].number \in Nat
      <4>1. w \in DOMAIN both /\ both[w].number \in 1..Len(world.runs)
        BY <2>3, <2>5
      <4>. QED
        BY <4>1, <1>b, <1>n DEF SubprojectWorld
    <3>. QED
      BY <3>2, <2>2, <2>3
  <2>7. RunsHappened'
    BY <2>1, <2>4, <2>5 DEF RunsHappened
  <2>8. Subproject!RunsNeverOlder
    BY <2>4, <2>6 DEF Subproject!RunsNeverOlder
  <2>. QED
    BY <1>7, <2>1, <2>4, <2>7, <2>8
<1>10. CASE UNCHANGED Subproject!vars
  <2>1. UNCHANGED <<faults, world, disk, run>>
    BY <1>10 DEF Subproject!vars
  <2>2. SubprojectTypes'
    BY <1>a, <2>1 DEF SubprojectTypes
  <2>3. RunsHappened' /\ CountsInOrder'
    BY <1>a, <2>1 DEF RunsHappened, CountsInOrder, Subproject!IssuesOf
  <2>. QED
    BY <2>1, <2>2, <2>3, <1>c DEF SubprojectInv
<1>. QED
  BY <1>1, <1>2, <1>3, <1>4, <1>5, <1>6, <1>8, <1>9, <1>10 DEF Subproject!Next, Subproject!Night

LEMMA SubprojectInvariant ==
  ASSUME SubprojectConstants
  PROVE  Subproject!Spec => []SubprojectInv /\ [][Subproject!RunsNeverOlder]_(Subproject!vars)
<1>1. Subproject!Init => SubprojectInv
  BY SubprojectInit
<1>2. SubprojectInv /\ [Subproject!Next]_(Subproject!vars) =>
        SubprojectInv' /\ [Subproject!RunsNeverOlder]_(Subproject!vars)
  BY SubprojectStep
<1>. QED
  BY <1>1, <1>2, PTL DEF Subproject!Spec

(* The rows of a subproject's releases are what they should be, and none   *)
(* has more open issues than issues, though the two are counted one after  *)
(* the other while people resolve and add (and move none).                 *)
THEOREM SubprojectCountsAreTrue ==
  ASSUME SubprojectConstants
  PROVE  Subproject!Spec => [](Subproject!TypeOK /\ Subproject!OpenWithinTotal)
<1>1. SubprojectInv => Subproject!TypeOK
  <2>1. SUFFICES ASSUME SubprojectInv PROVE Subproject!TypeOK
    OBVIOUS
  <2>2. \A w \in DOMAIN disk.run : disk.run[w] \in Subproject!RunRow
    <3>1. SUFFICES ASSUME NEW w \in DOMAIN disk.run PROVE disk.run[w] \in Subproject!RunRow
      OBVIOUS
    <3>. DEFINE n == disk.run[w].number
    <3>2. /\ disk.run[w] = [workflow |-> w, number |-> n]
          /\ n \in 1..Len(world.runs) /\ world.runs[n].workflow = w
      BY <2>1 DEF SubprojectInv, RunsHappened
    <3>3. world.runs \in Seq(Started) /\ Len(world.runs) <= MaxWorkflowRuns
      BY <2>1 DEF SubprojectInv, SubprojectTypes, SubprojectWorld
    <3>. HIDE DEF n
    <3>4. n \in 1..MaxWorkflowRuns /\ world.runs[n] \in Started
      BY <3>2, <3>3 DEF SubprojectConstants
    <3>. QED
      BY <3>2, <3>4 DEF Started, Subproject!RunRow
  <2>. QED
    BY <2>1, <2>2 DEF Subproject!TypeOK, SubprojectInv, SubprojectTypes, SubprojectWorld
<1>2. SubprojectInv => Subproject!OpenWithinTotal
  BY DEF SubprojectInv, CountsInOrder, Subproject!OpenWithinTotal
<1>. QED
  BY <1>1, <1>2, SubprojectInvariant, PTL

(* The run shown of a workflow is never followed by an older one, whether  *)
(* the newest page of runs still has one of it or not.                     *)
THEOREM WorkflowRunsNeverOlder ==
  ASSUME SubprojectConstants
  PROVE  Subproject!Spec => [][Subproject!RunsNeverOlder]_(Subproject!vars)
BY SubprojectInvariant, PTL

-----------------------------------------------------------------------------
(* The rows as they are read.                                              *)

Rows == INSTANCE Readings
          WITH Environments <- RowsEnvironments, MaxComments <- StoredComments,
               MaxUpdates <- MaxVersions


RowsConstants ==
  /\ MaxVersions \in Nat \ {0} /\ MaxParts \in Nat
  /\ \E n \in Nat \ {0} : DOMAIN Credits = 1..n

Found       == UNION {UNION {Credits[v][c] : c \in Rows!Commits} : v \in Rows!Parsers}
JiraRows   == [updated : 1..MaxVersions, resolved : 0..MaxVersions, resolution : BOOLEAN, reporter : BOOLEAN]
Reviewed    == [who : Reviewers, at : 1..MaxVersions]
JiraPart    == [issue : JiraRows, reviews : SUBSET Reviewed, comments : SUBSET Nat, changelog : SUBSET Nat]
PrPart      == [updated : 1..MaxVersions, reviews : SUBSET Nat]
TrailerPart == [name : {"walk", "reparse"}, rows : SUBSET [sha : Rows!Commits, who : Found, parser_version : Rows!Parsers]]
IssueStates == [updated : 1..MaxVersions, resolved : 0..MaxVersions, reviewers : SUBSET Reviewers,
                histories : Seq(Nat), comments : Nat, deleted : SUBSET Nat]

PartsOf(log) == {log[k] : k \in DOMAIN log}

RowsTypes ==
  /\ faults \in RowsEnvironments
  /\ world = [issue |-> world.issue, pr |-> world.pr, parser |-> world.parser]
  /\ world.issue \in IssueStates /\ world.issue.resolved <= world.issue.updated
  /\ world.pr \in [updated : 1..MaxVersions, reviews : Nat] /\ world.parser \in Rows!Parsers
  /\ disk = [jira |-> disk.jira, github |-> disk.github, git |-> disk.git]
  /\ disk.jira \in Seq(JiraPart) /\ disk.github \in Seq(PrPart) /\ disk.git \in Seq(TrailerPart)
  /\ Len(disk.jira) <= MaxParts /\ Len(disk.github) <= MaxParts /\ Len(disk.git) <= MaxParts
  /\ run \in 0..world.issue.updated

(* When a reviewer is said to have looked at the issue.                    *)
ReviewedAt == IF world.issue.resolved # 0 THEN world.issue.resolved ELSE world.issue.updated

(* What a partition tells was so; two rows of one version do not differ in *)
(* when it was resolved.                                                   *)
IssuesWereSo ==
  /\ \A p \in PartsOf(disk.jira) :
       /\ p.issue.updated <= world.issue.updated
       /\ p.issue.updated = world.issue.updated => p.issue.resolved = world.issue.resolved
       /\ p.issue.resolution => p.issue.resolved # 0
       /\ \A r \in p.reviews : r.at <= ReviewedAt
       /\ p.changelog \subseteq Rows!ToSet(world.issue.histories)
       /\ p.comments \subseteq 1..world.issue.comments
  /\ \A p, q \in PartsOf(disk.jira) : p.issue.updated = q.issue.updated => p.issue.resolved = q.issue.resolved

(* The version walked last is stored as a whole.                           *)
WalkIsStored ==
  run = world.issue.updated =>
    Rows!Partition(Rows!IssueRow(TRUE, TRUE), Rows!ReviewRows, Rows!CommentRows, Rows!ChangelogRows)
      \in PartsOf(disk.jira)

(* A partition has all that one parser finds in a commit, or nothing.      *)
TrailersAreWhole ==
  \A p \in PartsOf(disk.git) : \A r \in p.rows :
    /\ r.who \in Credits[r.parser_version][r.sha]
    /\ \A who \in Credits[r.parser_version][r.sha] :
         [sha |-> r.sha, who |-> who, parser_version |-> r.parser_version] \in p.rows

RowsInv == RowsTypes /\ IssuesWereSo /\ WalkIsStored /\ TrailersAreWhole

LEMMA AppendedParts ==
  ASSUME NEW S, NEW log \in Seq(S), NEW e \in S
  PROVE  /\ Append(log, e) \in Seq(S) /\ Len(Append(log, e)) = Len(log) + 1 /\ Len(log) \in Nat
         /\ PartsOf(Append(log, e)) = PartsOf(log) \cup {e}
<1>1. /\ Append(log, e) \in Seq(S) /\ Len(Append(log, e)) = Len(log) + 1 /\ Len(log) \in Nat
      /\ DOMAIN log = 1..Len(log) /\ DOMAIN Append(log, e) = 1..(Len(log) + 1)
      /\ \A k \in 1..Len(log) : Append(log, e)[k] = log[k]
      /\ Append(log, e)[Len(log) + 1] = e
  OBVIOUS
<1>2. \A k \in 1..(Len(log) + 1) : k \in 1..Len(log) \/ k = Len(log) + 1
  BY <1>1
<1>3. PartsOf(Append(log, e)) \subseteq PartsOf(log) \cup {e}
  BY <1>1, <1>2 DEF PartsOf
<1>4. PartsOf(log) \cup {e} \subseteq PartsOf(Append(log, e))
  <2>1. Len(log) + 1 \in 1..(Len(log) + 1) /\ \A k \in 1..Len(log) : k \in 1..(Len(log) + 1)
    BY <1>1
  <2>. QED
    BY <1>1, <2>1 DEF PartsOf
<1>. QED
  BY <1>1, <1>3, <1>4

(* The ranking of an issue's rows is one of numbers.                       *)
Rank(row) == 4 * row.updated + (IF row.resolution THEN 2 ELSE 0) + (IF row.reporter THEN 1 ELSE 0)

LEMMA AboveIsRank ==
  ASSUME RowsConstants, NEW row \in JiraRows, NEW best \in JiraRows
  PROVE  /\ Rows!Above(row, best) <=> Rank(row) > Rank(best)
         /\ Rank(row) \in 1..(4 * MaxVersions + 3)
         /\ Rank(row) = Rank(best) =>
              row.updated = best.updated /\ row.resolution = best.resolution /\ row.reporter = best.reporter
<1>1. /\ row.updated \in 1..MaxVersions /\ row.resolution \in BOOLEAN /\ row.reporter \in BOOLEAN
      /\ best.updated \in 1..MaxVersions /\ best.resolution \in BOOLEAN /\ best.reporter \in BOOLEAN
  BY DEF JiraRows
<1>2. PICK a \in {0, 2}, b \in {0, 1} :
        (row.resolution <=> a = 2) /\ (row.reporter <=> b = 1) /\ Rank(row) = 4 * row.updated + a + b
  BY <1>1 DEF Rank
<1>3. PICK c \in {0, 2}, d \in {0, 1} :
        (best.resolution <=> c = 2) /\ (best.reporter <=> d = 1) /\ Rank(best) = 4 * best.updated + c + d
  BY <1>1 DEF Rank
<1>4. PICK m \in Nat : m = MaxVersions
  BY DEF RowsConstants
<1>5. PICK u \in 1..m, v \in 1..m : u = row.updated /\ v = best.updated
  BY <1>1, <1>4
<1>6. /\ 4 * u + a + b > 4 * v + c + d <=> u > v \/ (u = v /\ a > c) \/ (u = v /\ a = c /\ b > d)
      /\ 4 * u + a + b \in 1..(4 * m + 3)
      /\ 4 * u + a + b = 4 * v + c + d => u = v /\ a = c /\ b = d
  OBVIOUS
<1>7. Rows!Above(row, best) <=> u > v \/ (u = v /\ a > c) \/ (u = v /\ a = c /\ b > d)
  <2>1. /\ a > c <=> row.resolution /\ ~best.resolution
        /\ b > d <=> row.reporter /\ ~best.reporter
        /\ a = c <=> (row.resolution <=> best.resolution)
    BY <1>2, <1>3
  <2>2. (row.resolution = best.resolution) <=> (row.resolution <=> best.resolution)
    BY <1>1, Zenon
  <2>. QED
    BY <2>1, <2>2, <1>5 DEF Rows!Above
<1>8. a = c /\ b = d => row.resolution = best.resolution /\ row.reporter = best.reporter
  <2>1. a = c /\ b = d => (row.resolution <=> best.resolution) /\ (row.reporter <=> best.reporter)
    BY <1>2, <1>3
  <2>2. (row.resolution = best.resolution) <=> (row.resolution <=> best.resolution)
    BY <1>1, Zenon
  <2>3. (row.reporter = best.reporter) <=> (row.reporter <=> best.reporter)
    BY <1>1, Zenon
  <2>. QED
    BY <2>1, <2>2, <2>3
<1>. QED
  BY <1>2, <1>3, <1>4, <1>5, <1>6, <1>7, <1>8

(* The row that is read is one of the rows, and none is above it.          *)
LEMMA BestRow ==
  ASSUME RowsConstants, NEW n \in Nat \ {0}, NEW rows \in [1..n -> JiraRows]
  PROVE  \E k \in 1..n : Rows!DedupeIssueRows(rows) = rows[k] /\ \A j \in 1..n : ~Rows!Above(rows[j], rows[k])
<1>. DEFINE ranks == {Rank(rows[j]) : j \in 1..n}
            first == {k \in DOMAIN rows : \A j \in DOMAIN rows : ~Rows!Above(rows[j], rows[k])}
<1>1. \A j, k \in 1..n : Rank(rows[j]) \in 1..(4 * MaxVersions + 3)
                         /\ (Rows!Above(rows[j], rows[k]) <=> Rank(rows[j]) > Rank(rows[k]))
  BY AboveIsRank
<1>2. \E m \in ranks : \A x \in ranks : x <= m
  <2>1. ranks \in SUBSET (1..(4 * MaxVersions + 3)) /\ ranks # {}
    BY <1>1
  <2>2. 4 * MaxVersions + 3 \in Nat
    BY DEF RowsConstants
  <2>. HIDE DEF ranks
  <2>. QED
    BY <2>1, <2>2, LargestNumber
<1>3. PICK k \in 1..n : \A j \in 1..n : Rank(rows[j]) <= Rank(rows[k])
  BY <1>2
<1>4. \A j \in 1..n : ~(Rank(rows[j]) > Rank(rows[k]))
  BY <1>1, <1>3
<1>5. first \in SUBSET Nat /\ k \in first /\ first \subseteq 1..n
  BY <1>1, <1>4
<1>6. \E m \in first : \A x \in first : m <= x
  <2>. HIDE DEF first
  <2>. QED
    BY <1>5, SmallestNumber
<1>7. Rows!Min(first) \in first
  <2>. HIDE DEF first
  <2>1. Rows!Min(first) = CHOOSE x \in first : \A y \in first : x =< y
    BY DEF Rows!Min
  <2>. QED
    BY <2>1, <1>6
<1>8. Rows!DedupeIssueRows(rows) = rows[Rows!Min(first)]
  BY DEF Rows!DedupeIssueRows
<1>. QED
  BY <1>5, <1>7, <1>8
(* What a run reads of JIRA is told by which partitions there are.         *)
NewestReviews(all) == {r \in all : \A q \in all : q.who = r.who => q.at <= r.at}

JiraRead(parts, read) ==
  /\ read = [issue        |-> read.issue,
             review_event |-> NewestReviews(UNION {p.reviews : p \in parts}),
             comments     |-> UNION {p.comments : p \in parts},
             changelog    |-> UNION {p.changelog : p \in parts}]
  /\ \E p \in parts : read.issue = p.issue
  /\ \A p \in parts : ~Rows!Above(p.issue, read.issue)

LEMMA ReadOfParts ==
  ASSUME RowsConstants, NEW log \in Seq(JiraPart), log # << >>
  PROVE  JiraRead(PartsOf(log), Rows!ReadJira(log))
<1>. DEFINE n == Len(log)
            of(table) == Rows!ToSet(Rows!ReadTable(log, table))
<1>1. /\ n \in Nat \ {0} /\ DOMAIN log = 1..n /\ log \in [1..n -> JiraPart]
  OBVIOUS
<1>2. \A k \in 1..n : log[k]["issue"] = log[k].issue
  OBVIOUS
<1>. HIDE DEF n
<1>3. PICK k \in 1..n :
        /\ Rows!DedupeIssueRows(Rows!ReadTable(log, "issue")) = log[k].issue
        /\ \A j \in 1..n : ~Rows!Above(log[j].issue, log[k].issue)
  <2>. DEFINE rows == Rows!ReadTable(log, "issue")
  <2>1. rows = [k \in 1..n |-> log[k].issue]
    BY <1>1, <1>2 DEF Rows!ReadTable
  <2>2. rows \in [1..n -> JiraRows] /\ \A k \in 1..n : rows[k] = log[k].issue
    BY <1>1, <2>1 DEF JiraPart
  <2>. HIDE DEF rows
  <2>3. PICK k \in 1..n : Rows!DedupeIssueRows(rows) = rows[k] /\ \A j \in 1..n : ~Rows!Above(rows[j], rows[k])
    BY <1>1, <2>2, BestRow
  <2>. QED
    BY <2>2, <2>3 DEF rows
<1>4. /\ of("reviews") = {p.reviews : p \in PartsOf(log)}
      /\ of("comments") = {p.comments : p \in PartsOf(log)}
      /\ of("changelog") = {p.changelog : p \in PartsOf(log)}
  BY <1>1 DEF PartsOf, Rows!ToSet, Rows!ReadTable
<1>. HIDE DEF of
<1>5. Rows!ReadJira(log) =
        [issue        |-> log[k].issue,
         review_event |-> NewestReviews(UNION {p.reviews : p \in PartsOf(log)}),
         comments     |-> UNION {p.comments : p \in PartsOf(log)},
         changelog    |-> UNION {p.changelog : p \in PartsOf(log)}]
  BY <1>3, <1>4
     DEF Rows!ReadJira, Rows!DedupeJiraReviewEvents, Rows!DedupeIssueComments,
         Rows!DedupeJiraChangelog,
                    NewestReviews, of
<1>6. \A p \in PartsOf(log) : ~Rows!Above(p.issue, log[k].issue)
  BY <1>1, <1>3 DEF PartsOf
<1>7. \E p \in PartsOf(log) : log[k].issue = p.issue
  BY <1>1, <1>3 DEF PartsOf
<1>. DEFINE R == NewestReviews(UNION {p.reviews : p \in PartsOf(log)})
            C == UNION {p.comments : p \in PartsOf(log)}
            L == UNION {p.changelog : p \in PartsOf(log)}
            read == Rows!ReadJira(log)
<1>8. read = [issue |-> log[k].issue, review_event |-> R, comments |-> C, changelog |-> L]
  BY <1>5
<1>. HIDE DEF R, C, L, read
<1>9. read.issue = log[k].issue /\ read = [issue |-> read.issue, review_event |-> R, comments |-> C, changelog |-> L]
  BY <1>8
<1>. QED
  BY <1>6, <1>7, <1>9 DEF JiraRead, R, C, L, read

(* Rows of one version agree on when it was resolved.                      *)
TiesAgree(parts) ==
  \A p, q \in parts : p.issue.updated = q.issue.updated => p.issue.resolved = q.issue.resolved

LEMMA SameRead ==
  ASSUME RowsConstants, NEW P \in SUBSET JiraPart, TiesAgree(P), NEW a, NEW b, JiraRead(P, a), JiraRead(P, b)
  PROVE  a = b
<1>1. PICK p \in P : a.issue = p.issue
  BY DEF JiraRead
<1>2. PICK q \in P : b.issue = q.issue
  BY DEF JiraRead
<1>3. p.issue \in JiraRows /\ q.issue \in JiraRows
  BY DEF JiraPart
<1>4. ~Rows!Above(p.issue, q.issue) /\ ~Rows!Above(q.issue, p.issue)
  BY <1>1, <1>2 DEF JiraRead
<1>5. p.issue = q.issue
  <2>1. ~(Rank(p.issue) > Rank(q.issue)) /\ ~(Rank(q.issue) > Rank(p.issue))
    BY <1>3, <1>4, AboveIsRank
  <2>2. Rank(p.issue) \in Int /\ Rank(q.issue) \in Int
    BY <1>3, AboveIsRank
  <2>3. Rank(p.issue) = Rank(q.issue)
    BY <2>1, <2>2
  <2>4. /\ p.issue.updated = q.issue.updated /\ p.issue.resolution = q.issue.resolution
        /\ p.issue.reporter = q.issue.reporter
    BY <2>3, <1>3, AboveIsRank
  <2>5. p.issue.resolved = q.issue.resolved
    BY <2>4 DEF TiesAgree
  <2>6. /\ p.issue = [updated |-> p.issue.updated, resolved |-> p.issue.resolved,
                      resolution |-> p.issue.resolution, reporter |-> p.issue.reporter]
        /\ q.issue = [updated |-> q.issue.updated, resolved |-> q.issue.resolved,
                      resolution |-> q.issue.resolution, reporter |-> q.issue.reporter]
    BY <1>3 DEF JiraRows
  <2>. QED
    BY <2>4, <2>5, <2>6
<1>6. a.issue = b.issue
  BY <1>1, <1>2, <1>5
<1>. QED
  BY <1>6 DEF JiraRead

(* A partition that brings nothing leaves the read as it was.              *)
LEMMA NothingNew ==
  ASSUME NEW P, NEW e, NEW read, JiraRead(P, read), ~Rows!Above(e.issue, read.issue),
         \E p \in P : e.reviews \subseteq p.reviews,
         \E p \in P : e.comments \subseteq p.comments,
         \E p \in P : e.changelog \subseteq p.changelog
  PROVE  JiraRead(P \cup {e}, read)
<1>1. /\ UNION {p.reviews : p \in P \cup {e}} = UNION {p.reviews : p \in P}
      /\ UNION {p.comments : p \in P \cup {e}} = UNION {p.comments : p \in P}
      /\ UNION {p.changelog : p \in P \cup {e}} = UNION {p.changelog : p \in P}
  OBVIOUS
<1>. QED
  BY <1>1 DEF JiraRead
LEMMA RowsInit == RowsConstants /\ Rows!Init => RowsInv
<1>. SUFFICES ASSUME RowsConstants, Rows!Init PROVE RowsInv
  OBVIOUS
<1>1. /\ << >> \in Seq(JiraPart) /\ << >> \in Seq(PrPart) /\ << >> \in Seq(TrailerPart) /\ << >> \in Seq(Nat)
      /\ Len(<< >>) = 0
  OBVIOUS
<1>2. 1 \in 1..MaxVersions /\ 0 \in 0..MaxVersions /\ 0 \in Nat /\ 0 <= MaxParts /\ 0 <= 1
  BY DEF RowsConstants
<1>3. 1 \in Rows!Parsers
  <2>1. PICK n \in Nat \ {0} : DOMAIN Credits = 1..n
    BY DEF RowsConstants
  <2>. QED
    BY <2>1 DEF Rows!Parsers
<1>4. world.issue \in IssueStates
  BY <1>1, <1>2 DEF Rows!Init, IssueStates
<1>5. RowsTypes
  BY <1>1, <1>2, <1>3, <1>4 DEF Rows!Init, RowsTypes
<1>6. PartsOf(disk.jira) = {} /\ PartsOf(disk.git) = {}
  BY DEF Rows!Init, PartsOf
<1>7. run # world.issue.updated
  BY DEF Rows!Init
<1>. QED
  BY <1>5, <1>6, <1>7 DEF RowsInv, IssuesWereSo, WalkIsStored, TrailersAreWhole

(* An issue moves on: nothing that was told of it gets wrong.              *)
LEMMA JiraMoves ==
  ASSUME RowsConstants, RowsInv,
         Rows!Resolve \/ Rows!Transit \/ Rows!Comment \/ \E p \in Reviewers : Rows!NameReviewer(p)
  PROVE  /\ UNCHANGED <<faults, disk, run>>
         /\ world' = [issue |-> world'.issue, pr |-> world.pr, parser |-> world.parser]
         /\ world'.issue \in IssueStates /\ world'.issue.resolved <= world'.issue.updated
         /\ world'.issue.updated = world.issue.updated + 1
         /\ ReviewedAt <= ReviewedAt'
         /\ Rows!ToSet(world.issue.histories) \subseteq Rows!ToSet(world'.issue.histories)
         /\ world.issue.comments <= world'.issue.comments
<1>1. /\ world.issue \in IssueStates /\ world.issue.resolved <= world.issue.updated
      /\ world = [issue |-> world.issue, pr |-> world.pr, parser |-> world.parser]
  BY DEF RowsInv, RowsTypes
<1>. DEFINE old == world.issue
<1>2. /\ old.updated \in 1..MaxVersions /\ old.resolved \in 0..MaxVersions /\ old.resolved \in Nat
      /\ old.reviewers \in SUBSET Reviewers /\ old.histories \in Seq(Nat) /\ old.comments \in Nat
      /\ old.deleted \in SUBSET Nat
  BY <1>1 DEF IssueStates
<1>. DEFINE after ==
               /\ UNCHANGED <<faults, disk, run>>
               /\ world' = [issue |-> world'.issue, pr |-> world.pr, parser |-> world.parser]
               /\ world'.issue \in IssueStates /\ world'.issue.resolved <= world'.issue.updated
               /\ world'.issue.updated = world.issue.updated + 1
               /\ ReviewedAt <= ReviewedAt'
               /\ Rows!ToSet(world.issue.histories) \subseteq Rows!ToSet(world'.issue.histories)
               /\ world.issue.comments <= world'.issue.comments
<1>3. ASSUME NEW change \in IssueStates, change.updated = old.updated, Rows!UpdateIssue(change),
             \/ change.resolved = old.resolved
             \/ change.resolved = IF old.resolved = 0 THEN old.updated + 1 ELSE 0,
             Rows!ToSet(old.histories) \subseteq Rows!ToSet(change.histories),
             old.comments <= change.comments
      PROVE  after
  <2>1. /\ old.updated < MaxVersions /\ UNCHANGED <<faults, disk, run>>
        /\ world' = [world EXCEPT !.issue = [change EXCEPT !.updated = old.updated + 1]]
    BY <1>3 DEF Rows!UpdateIssue
  <2>2. old.updated + 1 \in 1..MaxVersions
    BY <2>1, <1>2 DEF RowsConstants
  <2>. DEFINE new == [change EXCEPT !.updated = old.updated + 1]
  <2>3. /\ new \in IssueStates /\ new.updated = old.updated + 1 /\ new.resolved = change.resolved
        /\ new.histories = change.histories /\ new.comments = change.comments
    BY <2>2, <1>3 DEF IssueStates
  <2>. HIDE DEF new
  <2>4. world' = [world EXCEPT !.issue = new]
    BY <2>1 DEF new
  <2>5. world' = [issue |-> world'.issue, pr |-> world.pr, parser |-> world.parser] /\ world'.issue = new
    BY <1>1, <2>4
  <2>6. new.resolved <= new.updated /\ ReviewedAt <= (IF new.resolved # 0 THEN new.resolved ELSE new.updated)
    BY <1>1, <1>2, <1>3, <2>3 DEF ReviewedAt
  <2>7. ReviewedAt <= ReviewedAt'
    BY <2>5, <2>6 DEF ReviewedAt
  <2>. QED
    BY <1>3, <2>1, <2>3, <2>5, <2>6, <2>7
<1>. HIDE DEF after, old
<1>4. ASSUME Rows!Resolve
      PROVE  after
  <2>. DEFINE at == IF old.resolved = 0 THEN old.updated + 1 ELSE 0
              change == [old EXCEPT !.resolved = at]
  <2>1. Rows!UpdateIssue(change)
    BY <1>4 DEF Rows!Resolve, old
  <2>2. at \in 0..MaxVersions
    <3>1. old.updated < MaxVersions
      BY <2>1 DEF Rows!UpdateIssue, old
    <3>. QED
      BY <3>1, <1>2 DEF RowsConstants
  <2>. HIDE DEF at
  <2>3. /\ change \in IssueStates /\ change.updated = old.updated /\ change.resolved = at
        /\ change.histories = old.histories /\ change.comments = old.comments
    BY <1>1, <2>2 DEF IssueStates, old
  <2>. HIDE DEF change
  <2>. QED
    BY <2>1, <2>3, <1>2, <1>3 DEF at
<1>5. ASSUME NEW p \in Reviewers, Rows!NameReviewer(p)
      PROVE  after
  <2>. DEFINE named == IF p \in old.reviewers THEN old.reviewers \ {p} ELSE old.reviewers \cup {p}
              change == [old EXCEPT !.reviewers = named]
  <2>1. Rows!UpdateIssue(change)
    BY <1>5 DEF Rows!NameReviewer, old
  <2>2. named \in SUBSET Reviewers
    BY <1>2
  <2>. HIDE DEF named
  <2>3. /\ change \in IssueStates /\ change.updated = old.updated /\ change.resolved = old.resolved
        /\ change.histories = old.histories /\ change.comments = old.comments
    BY <1>1, <2>2 DEF IssueStates, old
  <2>. HIDE DEF change
  <2>. QED
    BY <2>1, <2>3, <1>2, <1>3
<1>6. ASSUME Rows!Transit
      PROVE  after
  <2>. DEFINE more == Append(old.histories, old.updated + 1)
              change == [old EXCEPT !.histories = more]
  <2>1. Rows!UpdateIssue(change)
    BY <1>6 DEF Rows!Transit, old
  <2>2. more \in Seq(Nat) /\ Rows!ToSet(old.histories) \subseteq Rows!ToSet(more)
    <3>1. old.updated + 1 \in Nat
      BY <1>2
    <3>2. /\ more \in Seq(Nat) /\ PartsOf(more) = PartsOf(old.histories) \cup {old.updated + 1}
      BY <3>1, <1>2, AppendedParts
    <3>. QED
      BY <3>2 DEF PartsOf, Rows!ToSet
  <2>. HIDE DEF more
  <2>3. /\ change \in IssueStates /\ change.updated = old.updated /\ change.resolved = old.resolved
        /\ change.histories = more /\ change.comments = old.comments
    BY <1>1, <2>2 DEF IssueStates, old
  <2>. HIDE DEF change
  <2>. QED
    BY <2>1, <2>2, <2>3, <1>2, <1>3
<1>7. ASSUME Rows!Comment
      PROVE  after
  <2>1. CASE Rows!UpdateIssue([old EXCEPT !.comments = old.comments + 1])
    <3>. DEFINE change == [old EXCEPT !.comments = old.comments + 1]
    <3>1. /\ change \in IssueStates /\ change.updated = old.updated /\ change.resolved = old.resolved
          /\ change.histories = old.histories /\ old.comments <= change.comments
      BY <1>1, <1>2 DEF IssueStates, old
    <3>. HIDE DEF change
    <3>2. Rows!UpdateIssue(change)
      BY <2>1 DEF change
    <3>. QED
      BY <3>1, <3>2, <1>3
  <2>2. ASSUME NEW k \in 1..old.comments, Rows!UpdateIssue([old EXCEPT !.deleted = old.deleted \cup {k}])
        PROVE  after
    <3>. DEFINE change == [old EXCEPT !.deleted = old.deleted \cup {k}]
    <3>1. /\ change \in IssueStates /\ change.updated = old.updated /\ change.resolved = old.resolved
          /\ change.histories = old.histories /\ old.comments <= change.comments
      BY <1>1, <1>2 DEF IssueStates, old
    <3>. HIDE DEF change
    <3>2. Rows!UpdateIssue(change)
      BY <2>2 DEF change
    <3>. QED
      BY <3>1, <3>2, <1>3
  <2>. QED
    BY <1>7, <2>1, <2>2 DEF Rows!Comment, old
<1>8. after
  BY <1>4, <1>5, <1>6, <1>7
<1>. QED
  BY <1>8 DEF after

(* What a walk or a backfill stores of an issue is so.                     *)
LEMMA StoredParts ==
  ASSUME RowsConstants, RowsInv, NEW told \in BOOLEAN, NEW reporter \in BOOLEAN
  PROVE  /\ Rows!IssueRow(told, reporter) \in JiraRows
         /\ Rows!IssueRow(told, reporter).updated = world.issue.updated
         /\ Rows!IssueRow(told, reporter).resolved = world.issue.resolved
         /\ Rows!IssueRow(told, reporter).resolution => world.issue.resolved # 0
         /\ Rows!ReviewRows \in SUBSET Reviewed /\ \A r \in Rows!ReviewRows : r.at <= ReviewedAt
         /\ Rows!CommentRows \in SUBSET Nat /\ Rows!CommentRows \subseteq 1..world.issue.comments
         /\ Rows!ChangelogRows \in SUBSET Nat /\ Rows!ChangelogRows = Rows!ToSet(world.issue.histories)
<1>1. world.issue \in IssueStates /\ world.issue.resolved <= world.issue.updated
  BY DEF RowsInv, RowsTypes
<1>2. /\ world.issue.updated \in 1..MaxVersions /\ world.issue.resolved \in 0..MaxVersions
      /\ world.issue.reviewers \in SUBSET Reviewers /\ world.issue.histories \in Seq(Nat) /\ world.issue.comments \in Nat
  BY <1>1 DEF IssueStates
<1>3. /\ Rows!IssueRow(told, reporter) \in JiraRows
      /\ Rows!IssueRow(told, reporter).updated = world.issue.updated
      /\ Rows!IssueRow(told, reporter).resolved = world.issue.resolved
      /\ Rows!IssueRow(told, reporter).resolution => world.issue.resolved # 0
  <2>1. (told /\ world.issue.resolved # 0) \in BOOLEAN
    OBVIOUS
  <2>. QED
    BY <2>1, <1>2 DEF Rows!IssueRow, JiraRows
<1>4. Rows!ReviewRows \in SUBSET Reviewed /\ \A r \in Rows!ReviewRows : r.at <= ReviewedAt
  <2>1. ReviewedAt \in 1..MaxVersions
    BY <1>2 DEF ReviewedAt
  <2>2. Rows!ReviewRows = {[who |-> p, at |-> ReviewedAt] : p \in world.issue.reviewers}
    BY DEF Rows!ReviewRows, ReviewedAt
  <2>3. ReviewedAt <= ReviewedAt
    BY <2>1
  <2>. QED
    BY <2>1, <2>2, <2>3, <1>2 DEF Reviewed
<1>5. Rows!CommentRows \in SUBSET Nat /\ Rows!CommentRows \subseteq 1..world.issue.comments
  BY <1>2 DEF Rows!CommentRows
<1>6. Rows!ChangelogRows \in SUBSET Nat /\ Rows!ChangelogRows = Rows!ToSet(world.issue.histories)
  BY <1>2 DEF Rows!ChangelogRows, Rows!ToSet
<1>. QED
  BY <1>3, <1>4, <1>5, <1>6
(* An issue's partition is stored.                                         *)
LEMMA JiraStored ==
  ASSUME RowsConstants, RowsInv, NEW e \in JiraPart, NEW walked \in 0..world.issue.updated, Rows!StoreIssue(e, walked),
         e.issue.updated = world.issue.updated, e.issue.resolved = world.issue.resolved,
         e.issue.resolution => world.issue.resolved # 0,
         \A r \in e.reviews : r.at <= ReviewedAt,
         e.comments \subseteq 1..world.issue.comments,
         e.changelog \subseteq Rows!ToSet(world.issue.histories),
         walked = run \/ walked = 0 \/
           e = Rows!Partition(Rows!IssueRow(TRUE, TRUE), Rows!ReviewRows, Rows!CommentRows, Rows!ChangelogRows)
  PROVE  /\ RowsInv'
         /\ UNCHANGED <<faults, world>> /\ disk' = [jira |-> Append(disk.jira, e), github |-> disk.github, git |-> disk.git]
         /\ PartsOf(disk'.jira) = PartsOf(disk.jira) \cup {e}
<1>1. /\ RowsTypes /\ IssuesWereSo /\ WalkIsStored /\ TrailersAreWhole
      /\ disk = [jira |-> disk.jira, github |-> disk.github, git |-> disk.git] /\ disk.jira \in Seq(JiraPart)
  BY DEF RowsInv, RowsTypes
<1>. DEFINE log == Append(disk.jira, e)
<1>2. /\ Len(disk.jira) < MaxParts /\ UNCHANGED <<faults, world>> /\ run' = walked
      /\ disk' = [disk EXCEPT !.jira = log]
  BY DEF Rows!StoreIssue
<1>3. log \in Seq(JiraPart) /\ Len(log) = Len(disk.jira) + 1 /\ PartsOf(log) = PartsOf(disk.jira) \cup {e}
      /\ Len(disk.jira) \in Nat
  BY <1>1, AppendedParts
<1>. HIDE DEF log
<1>4. disk' = [jira |-> log, github |-> disk.github, git |-> disk.git]
  BY <1>1, <1>2
<1>5. Len(log) <= MaxParts
  BY <1>2, <1>3 DEF RowsConstants
<1>6. /\ disk'.jira = log /\ disk'.github = disk.github /\ disk'.git = disk.git
      /\ disk' = [jira |-> disk'.jira, github |-> disk'.github, git |-> disk'.git]
  BY <1>4
<1>7. RowsTypes'
  BY <1>1, <1>2, <1>3, <1>5, <1>6 DEF RowsTypes
<1>8. IssuesWereSo'
  <2>1. e.issue.updated <= world.issue.updated
    <3>1. e.issue.updated \in Nat
      BY DEF JiraPart, JiraRows
    <3>. QED
      BY <3>1
  <2>2. \A p \in PartsOf(log) :
          /\ p.issue.updated <= world.issue.updated
          /\ p.issue.updated = world.issue.updated => p.issue.resolved = world.issue.resolved
          /\ p.issue.resolution => p.issue.resolved # 0
          /\ \A r \in p.reviews : r.at <= ReviewedAt
          /\ p.changelog \subseteq Rows!ToSet(world.issue.histories)
          /\ p.comments \subseteq 1..world.issue.comments
    BY <2>1, <1>1, <1>3 DEF IssuesWereSo
  <2>3. \A p, q \in PartsOf(log) : p.issue.updated = q.issue.updated => p.issue.resolved = q.issue.resolved
    BY <1>1, <1>3 DEF IssuesWereSo
  <2>4. PartsOf(disk.jira)' = PartsOf(log) /\ ReviewedAt' = ReviewedAt
    BY <1>2, <1>6 DEF PartsOf, ReviewedAt
  <2>. QED
    BY <2>2, <2>3, <2>4, <1>2 DEF IssuesWereSo
<1>9. WalkIsStored'
  <2>1. world.issue.updated # 0
    BY <1>1 DEF RowsTypes, IssueStates
  <2>2. walked = world.issue.updated =>
          Rows!Partition(Rows!IssueRow(TRUE, TRUE), Rows!ReviewRows, Rows!CommentRows, Rows!ChangelogRows) \in PartsOf(log)
    BY <2>1, <1>1, <1>3 DEF WalkIsStored
  <2>3. /\ PartsOf(disk.jira)' = PartsOf(log)
        /\ Rows!Partition(Rows!IssueRow(TRUE, TRUE), Rows!ReviewRows, Rows!CommentRows, Rows!ChangelogRows)' =
             Rows!Partition(Rows!IssueRow(TRUE, TRUE), Rows!ReviewRows, Rows!CommentRows, Rows!ChangelogRows)
    BY <1>2, <1>6
       DEF PartsOf, Rows!Partition, Rows!IssueRow, Rows!ReviewRows, Rows!CommentRows,
           Rows!ChangelogRows
  <2>. QED
    BY <2>2, <2>3, <1>2 DEF WalkIsStored
<1>10. TrailersAreWhole'
  BY <1>1, <1>6 DEF TrailersAreWhole, PartsOf
<1>. QED
  BY <1>2, <1>3, <1>4, <1>6, <1>7, <1>8, <1>9, <1>10 DEF RowsInv, log

(* The three ways to store an issue.                                       *)
IssuePart(e) ==
  /\ e \in JiraPart
  /\ e.issue.updated = world.issue.updated /\ e.issue.resolved = world.issue.resolved
  /\ e.issue.resolution => world.issue.resolved # 0
  /\ \A r \in e.reviews : r.at <= ReviewedAt
  /\ e.comments \subseteq 1..world.issue.comments
  /\ e.changelog \subseteq Rows!ToSet(world.issue.histories)

LEMMA WalkedParts ==
  ASSUME RowsConstants, RowsInv, NEW told \in BOOLEAN, NEW reporter \in BOOLEAN,
         NEW reviews \in {{}, Rows!ReviewRows}, NEW comments \in {{}, Rows!CommentRows},
         NEW changelog \in {{}, Rows!ChangelogRows}
  PROVE  LET e == Rows!Partition(Rows!IssueRow(told, reporter), reviews, comments, changelog)
         IN  /\ IssuePart(e)
             /\ e.issue = Rows!IssueRow(told, reporter) /\ e.reviews = reviews
             /\ e.comments = comments /\ e.changelog = changelog
<1>. DEFINE row == Rows!IssueRow(told, reporter)
            e == Rows!Partition(row, reviews, comments, changelog)
<1>1. /\ row \in JiraRows /\ row.updated = world.issue.updated /\ row.resolved = world.issue.resolved
      /\ row.resolution => world.issue.resolved # 0
      /\ Rows!ReviewRows \in SUBSET Reviewed /\ \A r \in Rows!ReviewRows : r.at <= ReviewedAt
      /\ Rows!CommentRows \in SUBSET Nat /\ Rows!CommentRows \subseteq 1..world.issue.comments
      /\ Rows!ChangelogRows \in SUBSET Nat /\ Rows!ChangelogRows = Rows!ToSet(world.issue.histories)
  BY StoredParts
<1>. HIDE DEF row
<1>2. e = [issue |-> row, reviews |-> reviews, comments |-> comments, changelog |-> changelog]
  BY DEF Rows!Partition
<1>. HIDE DEF e
<1>3. e.issue = row /\ e.reviews = reviews /\ e.comments = comments /\ e.changelog = changelog
  BY <1>2
<1>4. e \in JiraPart
  BY <1>1, <1>2 DEF JiraPart
<1>5. IssuePart(e)
  BY <1>1, <1>3, <1>4 DEF IssuePart
<1>. QED
  BY <1>3, <1>5 DEF e, row

LEMMA RowsStep == RowsConstants /\ RowsInv /\ [Rows!Next]_(Rows!vars) => RowsInv'
<1>. SUFFICES ASSUME RowsConstants, RowsInv, [Rows!Next]_(Rows!vars)
              PROVE  RowsInv'
  OBVIOUS
<1>0. RowsTypes /\ IssuesWereSo /\ WalkIsStored /\ TrailersAreWhole
  BY DEF RowsInv
<1>a. /\ world = [issue |-> world.issue, pr |-> world.pr, parser |-> world.parser]
      /\ disk = [jira |-> disk.jira, github |-> disk.github, git |-> disk.git]
      /\ world.issue \in IssueStates /\ run \in 0..world.issue.updated
  BY <1>0 DEF RowsTypes
<1>b. ASSUME UNCHANGED <<disk, run>>, world'.issue = world.issue
      PROVE  IssuesWereSo' /\ WalkIsStored' /\ TrailersAreWhole'
  <2>1. IssuesWereSo'
    BY <1>0, <1>b DEF IssuesWereSo, PartsOf, ReviewedAt
  <2>2. WalkIsStored'
    BY <1>0, <1>b
       DEF WalkIsStored, PartsOf, Rows!Partition, Rows!IssueRow, Rows!ReviewRows, Rows!CommentRows,
           Rows!ChangelogRows
  <2>3. TrailersAreWhole'
    BY <1>0, <1>b DEF TrailersAreWhole, PartsOf
  <2>. QED
    BY <2>1, <2>2, <2>3
<1>1. CASE Rows!Resolve \/ Rows!Transit \/ Rows!Comment \/ \E p \in Reviewers : Rows!NameReviewer(p)
  <2>1. /\ UNCHANGED <<faults, disk, run>>
        /\ world' = [issue |-> world'.issue, pr |-> world.pr, parser |-> world.parser]
        /\ world'.issue \in IssueStates /\ world'.issue.resolved <= world'.issue.updated
        /\ world'.issue.updated = world.issue.updated + 1
        /\ ReviewedAt <= ReviewedAt'
        /\ Rows!ToSet(world.issue.histories) \subseteq Rows!ToSet(world'.issue.histories)
        /\ world.issue.comments <= world'.issue.comments
    BY <1>1, JiraMoves
  <2>2. /\ world.issue.updated \in Nat /\ world'.issue.updated \in Nat
        /\ world.issue.comments \in Nat /\ world'.issue.comments \in Nat
        /\ ReviewedAt \in Nat /\ ReviewedAt' \in Nat
    BY <1>a, <2>1 DEF IssueStates, ReviewedAt
  <2>3. run \in 0..world'.issue.updated /\ run # world'.issue.updated
    BY <1>a, <2>1, <2>2
  <2>4. world'.pr = world.pr /\ world'.parser = world.parser
        /\ world' = [issue |-> world'.issue, pr |-> world'.pr, parser |-> world'.parser]
    BY <2>1
  <2>5. RowsTypes'
    BY <1>0, <2>1, <2>3, <2>4 DEF RowsTypes
  <2>6. IssuesWereSo'
    <3>1. SUFFICES ASSUME NEW p \in PartsOf(disk.jira)
                   PROVE  /\ p.issue.updated <= world'.issue.updated
                          /\ p.issue.updated # world'.issue.updated
                          /\ p.issue.resolution => p.issue.resolved # 0
                          /\ \A r \in p.reviews : r.at <= ReviewedAt'
                          /\ p.changelog \subseteq Rows!ToSet(world'.issue.histories)
                          /\ p.comments \subseteq 1..world'.issue.comments
      <4>1. PartsOf(disk.jira)' = PartsOf(disk.jira)
        BY <2>1 DEF PartsOf
      <4>2. \A p, q \in PartsOf(disk.jira) : p.issue.updated = q.issue.updated => p.issue.resolved = q.issue.resolved
        BY <1>0 DEF IssuesWereSo
      <4>. QED
        BY <3>1, <4>1, <4>2 DEF IssuesWereSo
    <3>2. p \in JiraPart
      BY <1>0 DEF RowsTypes, PartsOf
    <3>3. /\ p.issue.updated \in Nat /\ p.reviews \in SUBSET Reviewed /\ p.comments \in SUBSET Nat
          /\ \A r \in Reviewed : r.at \in Nat
      BY <3>2 DEF JiraPart, JiraRows, Reviewed
    <3>4. /\ p.issue.updated <= world.issue.updated
          /\ p.issue.resolution => p.issue.resolved # 0
          /\ \A r \in p.reviews : r.at <= ReviewedAt
          /\ p.changelog \subseteq Rows!ToSet(world.issue.histories)
          /\ p.comments \subseteq 1..world.issue.comments
      BY <1>0 DEF IssuesWereSo
    <3>5. p.issue.updated <= world'.issue.updated /\ p.issue.updated # world'.issue.updated
      BY <2>1, <2>2, <3>3, <3>4
    <3>6. \A r \in p.reviews : r.at <= ReviewedAt'
      BY <2>1, <2>2, <3>3, <3>4
    <3>7. p.comments \subseteq 1..world'.issue.comments
      <4>1. 1..world.issue.comments \subseteq 1..world'.issue.comments
        BY <2>1, <2>2
      <4>. QED
        BY <4>1, <3>4
    <3>. QED
      BY <2>1, <3>4, <3>5, <3>6, <3>7
  <2>7. WalkIsStored'
    BY <2>1, <2>3 DEF WalkIsStored
  <2>8. TrailersAreWhole'
    BY <1>0, <2>1 DEF TrailersAreWhole, PartsOf
  <2>. QED
    BY <2>5, <2>6, <2>7, <2>8 DEF RowsInv
<1>2. CASE Rows!UpdatePr
  <2>1. PICK reviews \in {world.pr.reviews, world.pr.reviews + 1} :
          world' = [world EXCEPT !.pr = [updated |-> world.pr.updated + 1, reviews |-> reviews]]
    BY <1>2 DEF Rows!UpdatePr
  <2>2. world.pr.updated < MaxVersions /\ UNCHANGED <<faults, disk, run>>
    BY <1>2 DEF Rows!UpdatePr
  <2>. DEFINE new == [updated |-> world.pr.updated + 1, reviews |-> reviews]
  <2>3. new \in [updated : 1..MaxVersions, reviews : Nat]
    BY <1>0, <2>2 DEF RowsTypes, RowsConstants
  <2>. HIDE DEF new
  <2>4. world' = [world EXCEPT !.pr = new]
    BY <2>1 DEF new
  <2>5. world'.issue = world.issue /\ world'.pr = new /\ world'.parser = world.parser
        /\ world' = [issue |-> world'.issue, pr |-> world'.pr, parser |-> world'.parser]
    BY <1>a, <2>4
  <2>6. RowsTypes'
    BY <1>0, <2>2, <2>3, <2>5 DEF RowsTypes
  <2>. QED
    BY <1>b, <2>2, <2>5, <2>6 DEF RowsInv
<1>3. CASE Rows!ReleaseParser
  <2>1. /\ world.parser + 1 \in Rows!Parsers /\ UNCHANGED <<faults, disk, run>>
        /\ world' = [world EXCEPT !.parser = world.parser + 1]
    BY <1>3 DEF Rows!ReleaseParser
  <2>2. world'.issue = world.issue /\ world'.pr = world.pr /\ world'.parser = world.parser + 1
        /\ world' = [issue |-> world'.issue, pr |-> world'.pr, parser |-> world'.parser]
    BY <1>a, <2>1
  <2>3. RowsTypes'
    BY <1>0, <2>1, <2>2 DEF RowsTypes
  <2>. QED
    BY <1>b, <2>1, <2>2, <2>3 DEF RowsInv
<1>4. CASE Rows!WalkIssue \/ Rows!WalkIssueBefore
  <2>1. ASSUME NEW told \in BOOLEAN, NEW changelog \in {{}, Rows!ChangelogRows}, NEW walked \in 0..world.issue.updated,
               walked = 0 \/ (told = TRUE /\ changelog = Rows!ChangelogRows),
               Rows!StoreIssue(Rows!Partition(Rows!IssueRow(told, TRUE), Rows!ReviewRows, Rows!CommentRows, changelog), walked)
        PROVE  RowsInv'
    <3>. DEFINE e == Rows!Partition(Rows!IssueRow(told, TRUE), Rows!ReviewRows, Rows!CommentRows, changelog)
    <3>1. IssuePart(e)
      BY <2>1, WalkedParts
    <3>2. walked = 0 \/ e = Rows!Partition(Rows!IssueRow(TRUE, TRUE), Rows!ReviewRows, Rows!CommentRows, Rows!ChangelogRows)
      BY <2>1
    <3>3. Rows!StoreIssue(e, walked)
      BY <2>1
    <3>. HIDE DEF e
    <3>. QED
      BY <3>1, <3>2, <3>3, JiraStored DEF IssuePart
  <2>2. 0 \in 0..world.issue.updated /\ world.issue.updated \in 0..world.issue.updated
    BY <1>a DEF IssueStates
  <2>3. CASE Rows!WalkIssue
    BY <2>1, <2>2, <2>3 DEF Rows!WalkIssue
  <2>4. CASE Rows!WalkIssueBefore
    BY <2>1, <2>2, <2>4 DEF Rows!WalkIssueBefore
  <2>. QED
    BY <1>4, <2>3, <2>4
<1>5. CASE Rows!BackfillIssue
  <2>1. PICK comments \in {{}, Rows!CommentRows} :
          Rows!StoreIssue(Rows!Partition(Rows!IssueRow(TRUE, FALSE), {}, comments, Rows!ChangelogRows), run)
    BY <1>5 DEF Rows!BackfillIssue
  <2>. DEFINE e == Rows!Partition(Rows!IssueRow(TRUE, FALSE), {}, comments, Rows!ChangelogRows)
  <2>2. IssuePart(e)
    BY WalkedParts
  <2>3. Rows!StoreIssue(e, run)
    BY <2>1
  <2>. HIDE DEF e
  <2>. QED
    BY <2>2, <2>3, <1>a, JiraStored DEF IssuePart
<1>6. CASE Rows!StorePr
  <2>. DEFINE e == [updated |-> world.pr.updated, reviews |-> 1..world.pr.reviews]
              log == Append(disk.github, e)
  <2>1. /\ Len(disk.github) < MaxParts /\ UNCHANGED <<faults, world, run>>
        /\ disk' = [disk EXCEPT !.github = log]
    BY <1>6 DEF Rows!StorePr
  <2>2. e \in PrPart /\ disk.github \in Seq(PrPart)
    BY <1>0 DEF RowsTypes, PrPart
  <2>. HIDE DEF e
  <2>3. log \in Seq(PrPart) /\ Len(log) = Len(disk.github) + 1 /\ Len(disk.github) \in Nat
    BY <2>2
  <2>. HIDE DEF log
  <2>4. Len(log) <= MaxParts
    BY <2>1, <2>3 DEF RowsConstants
  <2>5. /\ disk'.jira = disk.jira /\ disk'.github = log /\ disk'.git = disk.git
        /\ disk' = [jira |-> disk'.jira, github |-> disk'.github, git |-> disk'.git]
    BY <1>a, <2>1
  <2>6. RowsTypes'
    BY <1>0, <2>1, <2>3, <2>4, <2>5 DEF RowsTypes
  <2>7. IssuesWereSo' /\ WalkIsStored' /\ TrailersAreWhole'
    <3>1. IssuesWereSo'
      BY <1>0, <2>1, <2>5 DEF IssuesWereSo, PartsOf, ReviewedAt
    <3>2. WalkIsStored'
      <4>1. Rows!Partition(Rows!IssueRow(TRUE, TRUE), Rows!ReviewRows, Rows!CommentRows, Rows!ChangelogRows)' =
              Rows!Partition(Rows!IssueRow(TRUE, TRUE), Rows!ReviewRows, Rows!CommentRows, Rows!ChangelogRows)
        BY <2>1 DEF Rows!Partition, Rows!IssueRow, Rows!ReviewRows, Rows!CommentRows, Rows!ChangelogRows
      <4>2. PartsOf(disk.jira)' = PartsOf(disk.jira)
        BY <2>5 DEF PartsOf
      <4>. QED
        BY <1>0, <2>1, <4>1, <4>2 DEF WalkIsStored
    <3>3. TrailersAreWhole'
      BY <1>0, <2>1, <2>5 DEF TrailersAreWhole, PartsOf
    <3>. QED
      BY <3>1, <3>2, <3>3
  <2>. QED
    BY <2>6, <2>7 DEF RowsInv
<1>7. ASSUME NEW name \in {"walk", "reparse"}, NEW commits \in SUBSET Rows!Commits, Rows!StoreTrailers(name, commits)
      PROVE  RowsInv'
  <2>. DEFINE rows == Rows!TrailerRows(commits)
              e == [name |-> name, rows |-> rows]
              log == Append(disk.git, e)
  <2>1. /\ Len(disk.git) < MaxParts /\ UNCHANGED <<faults, world, run>>
        /\ disk' = [disk EXCEPT !.git = log]
    BY <1>7 DEF Rows!StoreTrailers
  <2>2. rows = UNION {{[sha |-> c, who |-> p, parser_version |-> world.parser] : p \in Credits[world.parser][c]} : c \in commits}
    BY DEF Rows!TrailerRows
  <2>. HIDE DEF rows
  <2>3. rows \in SUBSET [sha : Rows!Commits, who : Found, parser_version : Rows!Parsers]
    <3>1. world.parser \in Rows!Parsers
      BY <1>0 DEF RowsTypes
    <3>2. \A c \in commits : \A p \in Credits[world.parser][c] : p \in Found
      BY <3>1 DEF Found
    <3>3. ASSUME NEW r \in rows
          PROVE  r \in [sha : Rows!Commits, who : Found, parser_version : Rows!Parsers]
      <4>1. PICK c \in commits : r \in {[sha |-> c, who |-> p, parser_version |-> world.parser] : p \in Credits[world.parser][c]}
        BY <2>2, <3>3
      <4>2. PICK p \in Credits[world.parser][c] : r = [sha |-> c, who |-> p, parser_version |-> world.parser]
        BY <4>1
      <4>. QED
        BY <3>1, <3>2, <4>2
    <3>. QED
      BY <3>3
  <2>4. \A r \in rows : /\ r.who \in Credits[r.parser_version][r.sha]
                        /\ \A who \in Credits[r.parser_version][r.sha] :
                             [sha |-> r.sha, who |-> who, parser_version |-> r.parser_version] \in rows
    <3>1. SUFFICES ASSUME NEW r \in rows
                   PROVE  /\ r.who \in Credits[r.parser_version][r.sha]
                          /\ \A who \in Credits[r.parser_version][r.sha] :
                               [sha |-> r.sha, who |-> who, parser_version |-> r.parser_version] \in rows
      OBVIOUS
    <3>2. PICK c \in commits : r \in {[sha |-> c, who |-> p, parser_version |-> world.parser] : p \in Credits[world.parser][c]}
      BY <2>2
    <3>3. PICK p \in Credits[world.parser][c] : r = [sha |-> c, who |-> p, parser_version |-> world.parser]
      BY <3>2
    <3>4. r.sha = c /\ r.who = p /\ r.parser_version = world.parser
      BY <3>3
    <3>5. ASSUME NEW who \in Credits[world.parser][c]
          PROVE  [sha |-> c, who |-> who, parser_version |-> world.parser] \in rows
      BY <2>2
    <3>. QED
      BY <3>4, <3>5
  <2>5. e \in TrailerPart /\ disk.git \in Seq(TrailerPart) /\ e.rows = rows
    BY <1>0, <2>3 DEF RowsTypes, TrailerPart
  <2>. HIDE DEF e
  <2>6. log \in Seq(TrailerPart) /\ Len(log) = Len(disk.git) + 1 /\ Len(disk.git) \in Nat
        /\ PartsOf(log) = PartsOf(disk.git) \cup {e}
    BY <2>5, AppendedParts
  <2>. HIDE DEF log
  <2>7. Len(log) <= MaxParts
    BY <2>1, <2>6 DEF RowsConstants
  <2>8. /\ disk'.jira = disk.jira /\ disk'.github = disk.github /\ disk'.git = log
        /\ disk' = [jira |-> disk'.jira, github |-> disk'.github, git |-> disk'.git]
    BY <1>a, <2>1
  <2>9. RowsTypes'
    BY <1>0, <2>1, <2>6, <2>7, <2>8 DEF RowsTypes
  <2>10. IssuesWereSo' /\ WalkIsStored'
    <3>1. IssuesWereSo'
      BY <1>0, <2>1, <2>8 DEF IssuesWereSo, PartsOf, ReviewedAt
    <3>2. WalkIsStored'
      <4>1. Rows!Partition(Rows!IssueRow(TRUE, TRUE), Rows!ReviewRows, Rows!CommentRows, Rows!ChangelogRows)' =
              Rows!Partition(Rows!IssueRow(TRUE, TRUE), Rows!ReviewRows, Rows!CommentRows, Rows!ChangelogRows)
        BY <2>1 DEF Rows!Partition, Rows!IssueRow, Rows!ReviewRows, Rows!CommentRows, Rows!ChangelogRows
      <4>2. PartsOf(disk.jira)' = PartsOf(disk.jira)
        BY <2>8 DEF PartsOf
      <4>. QED
        BY <1>0, <2>1, <4>1, <4>2 DEF WalkIsStored
    <3>. QED
      BY <3>1, <3>2
  <2>11. TrailersAreWhole'
    <3>1. PartsOf(disk.git)' = PartsOf(disk.git) \cup {e}
      BY <2>6, <2>8 DEF PartsOf
    <3>. QED
      BY <1>0, <2>4, <2>5, <3>1 DEF TrailersAreWhole
  <2>. QED
    BY <2>9, <2>10, <2>11 DEF RowsInv
<1>8. CASE UNCHANGED Rows!vars
  <2>1. UNCHANGED <<faults, world, disk, run>>
    BY <1>8 DEF Rows!vars
  <2>2. RowsTypes'
    BY <1>0, <2>1 DEF RowsTypes
  <2>. QED
    BY <1>b, <2>1, <2>2 DEF RowsInv
<1>9. CASE Rows!Next
  <2>1. Rows!Commits \in SUBSET Rows!Commits /\ \A c \in Rows!Commits : {c} \in SUBSET Rows!Commits
    OBVIOUS
  <2>. QED
    BY <1>1, <1>2, <1>3, <1>4, <1>5, <1>6, <1>7, <1>9, <2>1 DEF Rows!Next
<1>. QED
  BY <1>8, <1>9

LEMMA RowsInvariant ==
  ASSUME RowsConstants
  PROVE  Rows!Spec => []RowsInv
<1>1. Rows!Init => RowsInv
  BY RowsInit
<1>2. RowsInv /\ [Rows!Next]_(Rows!vars) => RowsInv'
  BY RowsStep
<1>. QED
  BY <1>1, <1>2, PTL DEF Rows!Spec
(* Other partitions' order, same partitions.                               *)
LEMMA ReorderedParts ==
  ASSUME NEW S, NEW log \in Seq(S), NEW other \in Rows!Reordered(log)
  PROVE  other \in Seq(S) /\ PartsOf(other) = PartsOf(log) /\ (log # << >> => other # << >>)
<1>. DEFINE n == Len(log)
<1>1. n \in Nat /\ DOMAIN log = 1..n /\ log \in [1..n -> S] /\ (log # << >> => n # 0)
  OBVIOUS
<1>. HIDE DEF n
<1>2. PICK order \in Rows!Bijection(DOMAIN log, DOMAIN log) : other = [k \in DOMAIN log |-> log[order[k]]]
  BY DEF Rows!Reordered
<1>3. order \in [1..n -> 1..n] /\ \A t \in 1..n : \E s \in 1..n : order[s] = t
  BY <1>1, <1>2 DEF Rows!Bijection, Rows!Surjection
<1>4. other \in [1..n -> S] /\ \A k \in 1..n : other[k] = log[order[k]]
  BY <1>1, <1>2, <1>3
<1>5. other \in Seq(S)
  BY <1>1, <1>4
<1>6. DOMAIN other = 1..n
  BY <1>4
<1>7. PartsOf(other) = PartsOf(log)
  <2>1. ASSUME NEW t \in 1..n
        PROVE  \E s \in 1..n : other[s] = log[t]
    BY <1>3, <1>4
  <2>2. ASSUME NEW s \in 1..n
        PROVE  \E t \in 1..n : other[s] = log[t]
    BY <1>3, <1>4
  <2>3. PartsOf(other) = {other[s] : s \in 1..n} /\ PartsOf(log) = {log[t] : t \in 1..n}
    BY <1>1, <1>6 DEF PartsOf
  <2>. QED
    BY <2>1, <2>2, <2>3
<1>8. log # << >> => other # << >>
  <2>1. SUFFICES ASSUME log # << >>, other = << >> PROVE FALSE
    OBVIOUS
  <2>2. 1 \in 1..n
    BY <1>1, <2>1
  <2>3. DOMAIN other = {}
    BY <2>1
  <2>. QED
    BY <2>2, <2>3, <1>6
<1>. QED
  BY <1>5, <1>7, <1>8

LEMMA OtherReads ==
  ASSUME NEW log
  PROVE  /\ Rows!ReadGithub(log) = [pr        |-> Rows!Max({p.updated : p \in PartsOf(log)}),
                                    pr_review |-> UNION {p.reviews : p \in PartsOf(log)}]
         /\ Rows!ReadTrailers(log) = Rows!DedupeCommitTrailers(Rows!ReadTable(log, "rows"))
         /\ UNION Rows!ToSet(Rows!ReadTable(log, "rows")) = UNION {p.rows : p \in PartsOf(log)}
<1>1. /\ Rows!ToSet(Rows!ReadTable(log, "updated")) = {p.updated : p \in PartsOf(log)}
      /\ Rows!ToSet(Rows!ReadTable(log, "reviews")) = {p.reviews : p \in PartsOf(log)}
      /\ Rows!ToSet(Rows!ReadTable(log, "rows")) = {p.rows : p \in PartsOf(log)}
  BY DEF Rows!ToSet, Rows!ReadTable, PartsOf
<1>. QED
  BY <1>1 DEF Rows!ReadGithub, Rows!DedupePrRows, Rows!DedupePrReviews, Rows!ReadTrailers

(* What the tables tell is whole, of one night, and free of their order.   *)
LEMMA JiraReads ==
  ASSUME RowsConstants, RowsInv, disk.jira # << >>
  PROVE  /\ PartsOf(disk.jira) \in SUBSET JiraPart /\ TiesAgree(PartsOf(disk.jira))
         /\ JiraRead(PartsOf(disk.jira), Rows!ReadJira(disk.jira))
<1>1. disk.jira \in Seq(JiraPart) /\ IssuesWereSo
  BY DEF RowsInv, RowsTypes
<1>2. PartsOf(disk.jira) \in SUBSET JiraPart
  BY <1>1 DEF PartsOf
<1>. QED
  BY <1>1, <1>2, ReadOfParts DEF TiesAgree, IssuesWereSo

LEMMA ReadsWhole == RowsConstants /\ RowsInv => Rows!IssueReadsWhole
<1>. SUFFICES ASSUME RowsConstants, RowsInv, disk.jira # << >>
              PROVE  LET row == Rows!ReadJira(disk.jira).issue
                         rows == Rows!ToSet(Rows!ReadTable(disk.jira, "issue"))
                     IN  /\ \A r \in rows : r.updated <= row.updated
                         /\ (\E r \in rows : r.updated = row.updated /\ r.reporter /\ r.resolution = (r.resolved # 0))
                              => row.reporter /\ row.resolution = (row.resolved # 0)
  BY DEF Rows!IssueReadsWhole
<1>. DEFINE parts == PartsOf(disk.jira)
            row == Rows!ReadJira(disk.jira).issue
            rows == Rows!ToSet(Rows!ReadTable(disk.jira, "issue"))
<1>1. parts \in SUBSET JiraPart /\ TiesAgree(parts) /\ JiraRead(parts, Rows!ReadJira(disk.jira))
  BY JiraReads
<1>2. rows = {p.issue : p \in parts}
  BY DEF Rows!ToSet, Rows!ReadTable, PartsOf
<1>3. \A p \in parts : p.issue.resolution => p.issue.resolved # 0
  BY DEF RowsInv, IssuesWereSo
<1>. HIDE DEF parts, rows
<1>4. PICK best \in parts : row = best.issue
  BY <1>1 DEF JiraRead
<1>5. \A p \in parts : ~Rows!Above(p.issue, row)
  BY <1>1 DEF JiraRead
<1>. HIDE DEF row
<1>6. row \in JiraRows /\ \A p \in parts : p.issue \in JiraRows
  BY <1>1, <1>4 DEF JiraPart
<1>7. ASSUME NEW r \in rows
      PROVE  r.updated <= row.updated
  <2>1. ~Rows!Above(r, row) /\ r \in JiraRows
    BY <1>2, <1>5, <1>6
  <2>2. r.updated \in Nat /\ row.updated \in Nat
    BY <2>1, <1>6 DEF JiraRows
  <2>. QED
    BY <2>1, <2>2 DEF Rows!Above
<1>8. ASSUME NEW r \in rows, r.updated = row.updated, r.reporter, r.resolution = (r.resolved # 0)
      PROVE  row.reporter /\ row.resolution = (row.resolved # 0)
  <2>1. PICK p \in parts : r = p.issue
    BY <1>2
  <2>2. r.resolved = row.resolved
    BY <2>1, <1>1, <1>4, <1>8 DEF TiesAgree
  <2>3. ~Rows!Above(r, row) /\ r \in JiraRows
    BY <2>1, <1>5, <1>6
  <2>4. row.resolution => row.resolved # 0
    BY <1>3, <1>4
  <2>5. r.resolution \in BOOLEAN /\ row.resolution \in BOOLEAN /\ r.reporter \in BOOLEAN /\ row.reporter \in BOOLEAN
    BY <2>3, <1>6 DEF JiraRows
  <2>6. r.resolution <=> r.resolved # 0
    BY <1>8
  <2>7. ~(r.resolution /\ ~row.resolution)
    BY <2>3, <1>8 DEF Rows!Above
  <2>8. row.resolution <=> row.resolved # 0
    BY <2>2, <2>4, <2>6, <2>7
  <2>9. r.resolution <=> row.resolution
    BY <2>2, <2>6, <2>8
  <2>10. r.resolution = row.resolution
    <3>1. (r.resolution = row.resolution) <=> (r.resolution <=> row.resolution)
      BY <2>5, Zenon
    <3>. QED
      BY <2>9, <3>1
  <2>11. row.reporter
    BY <2>3, <2>10, <1>8 DEF Rows!Above
  <2>12. row.resolution = (row.resolved # 0)
    <3>1. row.resolution \in BOOLEAN /\ (row.resolution <=> row.resolved # 0)
      BY <2>5, <2>8
    <3>. QED
      BY <3>1, Zenon
  <2>. QED
    BY <2>11, <2>12
<1>. QED
  BY <1>7, <1>8 DEF row, rows

LEMMA ReadsTogether == RowsConstants /\ RowsInv => Rows!TablesReadTogether
<1>. DEFINE parts == PartsOf(disk.jira)
            read == Rows!ReadJira(disk.jira)
            at == IF read.issue.resolved # 0 THEN read.issue.resolved ELSE read.issue.updated
<1>. SUFFICES ASSUME RowsConstants, RowsInv, disk.jira # << >>, run = world.issue.updated
              PROVE  /\ {r \in read.review_event : r.who \in world.issue.reviewers} =
                          {[who |-> p, at |-> at] : p \in world.issue.reviewers}
                     /\ read.changelog = Rows!ToSet(world.issue.histories)
                     /\ Rows!CommentRows \subseteq read.comments /\ read.comments \subseteq 1..world.issue.comments
  BY DEF Rows!TablesReadTogether
<1>1. parts \in SUBSET JiraPart /\ TiesAgree(parts) /\ JiraRead(parts, read)
  BY JiraReads
<1>2. /\ \A p \in parts :
           /\ p.issue.updated <= world.issue.updated
           /\ p.issue.updated = world.issue.updated => p.issue.resolved = world.issue.resolved
           /\ \A r \in p.reviews : r.at <= ReviewedAt
           /\ p.changelog \subseteq Rows!ToSet(world.issue.histories)
           /\ p.comments \subseteq 1..world.issue.comments
  BY DEF RowsInv, IssuesWereSo
<1>. DEFINE walk == Rows!Partition(Rows!IssueRow(TRUE, TRUE), Rows!ReviewRows, Rows!CommentRows, Rows!ChangelogRows)
<1>3. walk \in parts
  BY DEF RowsInv, WalkIsStored
<1>4. /\ walk.issue.updated = world.issue.updated /\ walk.reviews = Rows!ReviewRows
      /\ walk.comments = Rows!CommentRows /\ walk.changelog = Rows!ToSet(world.issue.histories)
  <2>1. walk.issue = Rows!IssueRow(TRUE, TRUE)
    BY DEF Rows!Partition
  <2>. QED
    BY <2>1 DEF Rows!Partition, Rows!IssueRow, Rows!ChangelogRows
<1>. HIDE DEF walk, parts, read
<1>5. /\ read.review_event = NewestReviews(UNION {p.reviews : p \in parts})
      /\ read.comments = UNION {p.comments : p \in parts} /\ read.changelog = UNION {p.changelog : p \in parts}
  BY <1>1 DEF JiraRead
<1>6. at = ReviewedAt
  <2>1. PICK best \in parts : read.issue = best.issue
    BY <1>1 DEF JiraRead
  <2>2. walk.issue \in JiraRows /\ best.issue \in JiraRows /\ ~Rows!Above(walk.issue, best.issue)
    BY <1>1, <1>3, <2>1 DEF JiraRead, JiraPart
  <2>3. best.issue.updated <= world.issue.updated
    BY <1>2
  <2>4. best.issue.updated = world.issue.updated
    <3>1. best.issue.updated \in Nat /\ walk.issue.updated \in Nat
      BY <2>2 DEF JiraRows
    <3>. QED
      BY <3>1, <2>2, <2>3, <1>4 DEF Rows!Above
  <2>. QED
    BY <2>1, <2>4, <1>2 DEF ReviewedAt
<1>. HIDE DEF at
<1>7. Rows!ReviewRows = {[who |-> p, at |-> ReviewedAt] : p \in world.issue.reviewers}
  BY DEF Rows!ReviewRows, ReviewedAt
<1>. DEFINE all == UNION {p.reviews : p \in parts}
<1>8. /\ \A r \in all : r \in Reviewed /\ r.at <= ReviewedAt
      /\ \A p \in world.issue.reviewers : [who |-> p, at |-> ReviewedAt] \in all
  BY <1>1, <1>2, <1>3, <1>4, <1>7 DEF JiraPart
<1>. HIDE DEF all
<1>9. ReviewedAt \in Nat /\ \A r \in Reviewed : r.at \in Nat /\ r = [who |-> r.who, at |-> r.at]
  <2>1. world.issue \in IssueStates
    BY DEF RowsInv, RowsTypes
  <2>. QED
    BY <2>1 DEF ReviewedAt, IssueStates, Reviewed
<1>10. ASSUME NEW r \in NewestReviews(all), r.who \in world.issue.reviewers
       PROVE  r = [who |-> r.who, at |-> ReviewedAt]
  <2>. DEFINE mine == [who |-> r.who, at |-> ReviewedAt]
  <2>1. mine \in all /\ mine.who = r.who /\ mine.at = ReviewedAt
    BY <1>8, <1>10
  <2>. HIDE DEF mine
  <2>2. r \in all /\ mine.at <= r.at
    BY <2>1, <1>10 DEF NewestReviews
  <2>3. r.at = ReviewedAt
    BY <2>1, <2>2, <1>8, <1>9
  <2>. QED
    BY <2>2, <2>3, <1>8, <1>9
<1>11. ASSUME NEW p \in world.issue.reviewers
       PROVE  [who |-> p, at |-> ReviewedAt] \in NewestReviews(all)
  <2>. DEFINE mine == [who |-> p, at |-> ReviewedAt]
  <2>1. mine \in all /\ mine.at = ReviewedAt
    BY <1>8
  <2>. HIDE DEF mine
  <2>2. \A q \in all : q.at <= mine.at
    BY <2>1, <1>8
  <2>3. mine \in NewestReviews(all)
    BY <2>1, <2>2 DEF NewestReviews
  <2>. QED
    BY <2>3 DEF mine
<1>12. {r \in NewestReviews(all) : r.who \in world.issue.reviewers} = {[who |-> p, at |-> ReviewedAt] : p \in world.issue.reviewers}
  BY <1>10, <1>11
<1>13. read.changelog = Rows!ToSet(world.issue.histories)
  BY <1>2, <1>3, <1>4, <1>5
<1>14. Rows!CommentRows \subseteq read.comments /\ read.comments \subseteq 1..world.issue.comments
  BY <1>2, <1>3, <1>4, <1>5
<1>. QED
  BY <1>5, <1>6, <1>12, <1>13, <1>14 DEF all

LEMMA ReadsInAnyOrder == RowsConstants /\ RowsInv => Rows!OrderIsFree
<1>. SUFFICES ASSUME RowsConstants, RowsInv PROVE Rows!OrderIsFree
  OBVIOUS
<1>1. disk.jira \in Seq(JiraPart) /\ disk.github \in Seq(PrPart) /\ disk.git \in Seq(TrailerPart)
  BY DEF RowsInv, RowsTypes
<1>2. ASSUME disk.jira # << >>, NEW log \in Rows!Reordered(disk.jira)
      PROVE  Rows!ReadJira(log) = Rows!ReadJira(disk.jira)
  <2>1. log \in Seq(JiraPart) /\ PartsOf(log) = PartsOf(disk.jira) /\ log # << >>
    BY <1>1, <1>2, ReorderedParts
  <2>2. JiraRead(PartsOf(disk.jira), Rows!ReadJira(log))
    BY <2>1, ReadOfParts
  <2>. QED
    BY <2>2, <1>2, JiraReads, SameRead
<1>3. ASSUME NEW log \in Rows!Reordered(disk.github)
      PROVE  Rows!ReadGithub(log) = Rows!ReadGithub(disk.github)
  <2>1. PartsOf(log) = PartsOf(disk.github)
    BY <1>1, ReorderedParts
  <2>. QED
    BY <2>1, OtherReads
<1>4. ASSUME NEW log \in Rows!Reordered(disk.git)
      PROVE  Rows!ReadTrailers(log) = Rows!ReadTrailers(disk.git)
  <2>1. PartsOf(log) = PartsOf(disk.git)
    BY <1>1, ReorderedParts
  <2>2. UNION Rows!ToSet(Rows!ReadTable(log, "rows")) = UNION Rows!ToSet(Rows!ReadTable(disk.git, "rows"))
    BY <2>1, OtherReads
  <2>. QED
    BY <2>2, OtherReads DEF Rows!DedupeCommitTrailers
<1>. QED
  BY <1>2, <1>3, <1>4 DEF Rows!OrderIsFree
(* A commit is read as the newest parser that found anyone found it.       *)
LEMMA ReparsesReplace == RowsConstants /\ RowsInv => Rows!ReparseReplaces
<1>. SUFFICES ASSUME RowsConstants, RowsInv PROVE Rows!ReparseReplaces
  OBVIOUS
<1>. DEFINE parts == PartsOf(disk.git)
            all == UNION {p.rows : p \in parts}
            rows == Rows!ReadTrailers(disk.git)
            read(c) == {r \in rows : r.sha = c}
<1>1. rows = {r \in all : \A q \in all : q.sha = r.sha => q.parser_version <= r.parser_version}
  BY OtherReads DEF Rows!DedupeCommitTrailers
<1>2. parts \in SUBSET TrailerPart /\ parts = Rows!ToSet(disk.git)
  BY DEF RowsInv, RowsTypes, PartsOf, Rows!ToSet
<1>3. PICK n \in Nat \ {0} : Rows!Parsers = 1..n
  BY DEF RowsConstants, Rows!Parsers
<1>4. \A p \in parts : \A r \in p.rows : r \in all /\ r.parser_version \in 1..n
  BY <1>2, <1>3 DEF TrailerPart
<1>5. \A p \in parts : \A r \in p.rows :
        /\ r.who \in Credits[r.parser_version][r.sha]
        /\ \A who \in Credits[r.parser_version][r.sha] :
             [sha |-> r.sha, who |-> who, parser_version |-> r.parser_version] \in p.rows
  BY DEF RowsInv, TrailersAreWhole
<1>6. \A r \in all : \E p \in parts : r \in p.rows
  OBVIOUS
<1>. HIDE DEF parts, all, rows
<1>7. ASSUME NEW c \in Rows!Commits
      PROVE  /\ Cardinality({r.parser_version : r \in read(c)}) <= 1
             /\ \A p \in parts : \A stored \in p.rows : stored.sha = c =>
                  \E v \in Rows!Parsers : v >= stored.parser_version /\ {r.who : r \in read(c)} = Credits[v][c]
  <2>. DEFINE mine == {r \in all : r.sha = c}
              versions == {r.parser_version : r \in mine}
  <2>1. CASE mine = {}
    <3>1. {r.parser_version : r \in read(c)} = {}
      BY <2>1, <1>1
    <3>2. Cardinality({}) = 0
      BY FS_EmptySet
    <3>3. \A p \in parts : \A stored \in p.rows : stored.sha # c
      BY <2>1, <1>4
    <3>. QED
      BY <3>1, <3>2, <3>3
  <2>2. CASE mine # {}
    <3>1. versions \in SUBSET (1..n) /\ versions # {}
      BY <2>2, <1>4, <1>6
    <3>2. \E v \in versions : \A w \in versions : w <= v
      <4>. HIDE DEF versions
      <4>. QED
        BY <3>1, <1>3, LargestNumber
    <3>3. PICK newest \in mine : \A q \in mine : q.parser_version <= newest.parser_version
      BY <3>2
    <3>. DEFINE v == newest.parser_version
    <3>4. PICK p \in parts : newest \in p.rows
      BY <3>3, <1>6
    <3>5. v \in 1..n /\ newest.sha = c
      BY <3>3, <3>4, <1>4
    <3>. HIDE DEF v
    <3>6. \A r \in all : r.sha = c => r.parser_version <= v /\ r.parser_version \in 1..n
      BY <3>3, <1>4, <1>6 DEF v
    <3>7. \A r \in read(c) : r.parser_version = v
      <4>1. SUFFICES ASSUME NEW r \in read(c) PROVE r.parser_version = v
        OBVIOUS
      <4>2. r \in all /\ r.sha = c /\ newest.parser_version <= r.parser_version
        BY <4>1, <3>3, <3>5, <1>1
      <4>. QED
        BY <4>2, <3>5, <3>6 DEF v
    <3>8. \A r \in all : r.sha = c /\ r.parser_version = v => r \in read(c)
      BY <3>6, <1>1
    <3>9. ASSUME NEW who \in Credits[v][c]
          PROVE  who \in {r.who : r \in read(c)}
      <4>. DEFINE row == [sha |-> c, who |-> who, parser_version |-> v]
      <4>1. row \in all
        BY <3>4, <3>5, <1>4, <1>5 DEF v
      <4>2. row.sha = c /\ row.parser_version = v /\ row.who = who
        OBVIOUS
      <4>. HIDE DEF row
      <4>. QED
        BY <4>1, <4>2, <3>8
    <3>10. ASSUME NEW r \in read(c)
           PROVE  r.who \in Credits[v][c]
      <4>1. r \in all /\ r.sha = c /\ r.parser_version = v
        BY <3>7, <1>1
      <4>. QED
        BY <4>1, <1>5, <1>6
    <3>11. {r.who : r \in read(c)} = Credits[v][c]
      BY <3>9, <3>10
    <3>12. {r.parser_version : r \in read(c)} \subseteq {v}
      BY <3>7
    <3>13. Cardinality({r.parser_version : r \in read(c)}) <= 1
      <4>1. IsFiniteSet({v}) /\ Cardinality({v}) = 1
        BY FS_Singleton
      <4>. HIDE DEF read
      <4>. QED
        BY <3>12, <4>1, FS_Subset
    <3>14. \A q \in parts : \A stored \in q.rows : stored.sha = c => v >= stored.parser_version
      BY <3>5, <3>6, <1>4
    <3>. QED
      BY <3>5, <3>11, <3>13, <3>14, <1>3
  <2>. QED
    BY <2>1, <2>2
<1>8. \A S : Rows!Cardinality(S) = Cardinality(S)
  BY DEF Rows!Cardinality, Cardinality
<1>. QED
  BY <1>2, <1>7, <1>8 DEF Rows!ReparseReplaces, rows

-----------------------------------------------------------------------------
(* Reading again after one more partition.                                 *)

(* No reviewer's time is taken back by more rows.                          *)
LEMMA NewestReviewsGrow ==
  ASSUME RowsConstants, NEW old \in SUBSET Reviewed, NEW all \in SUBSET Reviewed, old \subseteq all,
         NEW r \in NewestReviews(old)
  PROVE  \E q \in NewestReviews(all) : q.who = r.who /\ r.at <= q.at
<1>. DEFINE his == {q \in all : q.who = r.who}
            times == {q.at : q \in his}
<1>1. r \in his
  BY DEF NewestReviews
<1>2. times \in SUBSET (1..MaxVersions) /\ times # {}
  BY <1>1 DEF Reviewed
<1>3. \E m \in times : \A x \in times : x <= m
  <2>. HIDE DEF times
  <2>. QED
    BY <1>2, LargestNumber DEF RowsConstants
<1>4. PICK q \in his : \A s \in his : s.at <= q.at
  BY <1>3
<1>5. q \in NewestReviews(all)
  BY <1>4 DEF NewestReviews
<1>. QED
  BY <1>1, <1>4, <1>5

LEMMA JiraReread ==
  ASSUME RowsConstants, NEW P \in SUBSET JiraPart, NEW e \in JiraPart, NEW before, NEW after,
         JiraRead(P, before), JiraRead(P \cup {e}, after)
  PROVE  /\ before.issue.updated <= after.issue.updated
         /\ \A r \in before.review_event : \E q \in after.review_event : q.who = r.who /\ r.at <= q.at
         /\ before.comments \subseteq after.comments /\ before.changelog \subseteq after.changelog
<1>1. before.issue.updated <= after.issue.updated
  <2>1. PICK p \in P : before.issue = p.issue
    BY DEF JiraRead
  <2>2. PICK q \in P \cup {e} : after.issue = q.issue
    BY DEF JiraRead
  <2>3. ~Rows!Above(p.issue, after.issue)
    BY DEF JiraRead
  <2>4. p.issue.updated \in Nat /\ q.issue.updated \in Nat
    BY DEF JiraPart, JiraRows
  <2>. QED
    BY <2>1, <2>2, <2>3, <2>4 DEF Rows!Above
<1>. DEFINE old == UNION {p.reviews : p \in P}
            all == UNION {p.reviews : p \in P \cup {e}}
<1>2. old \in SUBSET Reviewed /\ all \in SUBSET Reviewed /\ old \subseteq all
  BY DEF JiraPart
<1>3. /\ before.review_event = NewestReviews(old) /\ after.review_event = NewestReviews(all)
      /\ before.comments = UNION {p.comments : p \in P} /\ after.comments = UNION {p.comments : p \in P \cup {e}}
      /\ before.changelog = UNION {p.changelog : p \in P} /\ after.changelog = UNION {p.changelog : p \in P \cup {e}}
  BY DEF JiraRead
<1>. HIDE DEF old, all
<1>4. \A r \in before.review_event : \E q \in after.review_event : q.who = r.who /\ r.at <= q.at
  BY <1>2, <1>3, NewestReviewsGrow
<1>5. before.comments \subseteq after.comments /\ before.changelog \subseteq after.changelog
  BY <1>3
<1>. QED
  BY <1>1, <1>4, <1>5

(* What the code stores again of a version it has walked is no news.       *)
LEMMA WalkedIsNoNews ==
  ASSUME RowsConstants, RowsInv, run = world.issue.updated, NEW read, JiraRead(PartsOf(disk.jira), read),
         NEW told \in BOOLEAN, NEW reporter \in BOOLEAN,
         NEW reviews \in {{}, Rows!ReviewRows}, NEW comments \in {{}, Rows!CommentRows},
         NEW changelog \in {{}, Rows!ChangelogRows}, NEW e,
         e = Rows!Partition(Rows!IssueRow(told, reporter), reviews, comments, changelog)
  PROVE  JiraRead(PartsOf(disk.jira) \cup {e}, read)
<1>. DEFINE parts == PartsOf(disk.jira)
            walk == Rows!Partition(Rows!IssueRow(TRUE, TRUE), Rows!ReviewRows, Rows!CommentRows, Rows!ChangelogRows)
<1>1. /\ e \in JiraPart /\ e.issue = Rows!IssueRow(told, reporter) /\ e.reviews = reviews
      /\ e.comments = comments /\ e.changelog = changelog
  <2>. DEFINE stored == Rows!Partition(Rows!IssueRow(told, reporter), reviews, comments, changelog)
  <2>1. /\ IssuePart(stored) /\ stored.issue = Rows!IssueRow(told, reporter) /\ stored.reviews = reviews
        /\ stored.comments = comments /\ stored.changelog = changelog
    <3>1. IssuePart(stored)
      BY WalkedParts
    <3>2. stored.issue = Rows!IssueRow(told, reporter) /\ stored.reviews = reviews
      BY DEF Rows!Partition
    <3>3. stored.comments = comments /\ stored.changelog = changelog
      BY DEF Rows!Partition
    <3>. QED
      BY <3>1, <3>2, <3>3
  <2>2. e = stored
    OBVIOUS
  <2>. HIDE DEF stored
  <2>. QED
    BY <2>1, <2>2 DEF IssuePart
<1>2. /\ walk \in JiraPart /\ walk.issue = Rows!IssueRow(TRUE, TRUE) /\ walk.reviews = Rows!ReviewRows
      /\ walk.comments = Rows!CommentRows /\ walk.changelog = Rows!ChangelogRows
  <2>1. /\ TRUE \in BOOLEAN /\ Rows!ReviewRows \in {{}, Rows!ReviewRows} /\ Rows!CommentRows \in {{}, Rows!CommentRows}
        /\ Rows!ChangelogRows \in {{}, Rows!ChangelogRows}
    OBVIOUS
  <2>. QED
    BY <2>1, WalkedParts DEF IssuePart
<1>3. walk \in parts
  BY DEF RowsInv, WalkIsStored
<1>. HIDE DEF walk
<1>4. parts \in SUBSET JiraPart
  BY DEF RowsInv, RowsTypes, PartsOf
<1>5. ~Rows!Above(e.issue, walk.issue)
  <2>1. world.issue.updated \in Nat
    BY DEF RowsInv, RowsTypes, IssueStates
  <2>. QED
    BY <2>1, <1>1, <1>2 DEF Rows!Above, Rows!IssueRow
<1>. HIDE DEF parts
<1>6. PICK best \in parts : read.issue = best.issue
  BY DEF JiraRead, parts
<1>7. ~Rows!Above(walk.issue, read.issue)
  BY <1>3 DEF JiraRead, parts
<1>8. e.issue \in JiraRows /\ walk.issue \in JiraRows /\ read.issue \in JiraRows
  BY <1>1, <1>2, <1>4, <1>6 DEF JiraPart
<1>9. ~Rows!Above(e.issue, read.issue)
  <2>1. ~(Rank(e.issue) > Rank(walk.issue)) /\ ~(Rank(walk.issue) > Rank(read.issue))
    BY <1>5, <1>7, <1>8, AboveIsRank
  <2>2. Rank(e.issue) \in Int /\ Rank(walk.issue) \in Int /\ Rank(read.issue) \in Int
    BY <1>8, AboveIsRank
  <2>3. ~(Rank(e.issue) > Rank(read.issue))
    BY <2>1, <2>2
  <2>. QED
    BY <2>3, <1>8, AboveIsRank
<1>10. e.reviews \subseteq walk.reviews /\ e.comments \subseteq walk.comments /\ e.changelog \subseteq walk.changelog
  BY <1>1, <1>2
<1>11. JiraRead(parts, read)
  BY DEF parts
<1>12. JiraRead(parts \cup {e}, read)
  BY <1>3, <1>9, <1>10, <1>11, NothingNew
<1>. QED
  BY <1>12 DEF parts

(* What is read of the pull request.                                       *)
LEMMA PrReads ==
  ASSUME RowsConstants, NEW log \in Seq(PrPart), log # << >>
  PROVE  /\ \E p \in PartsOf(log) : Rows!ReadGithub(log).pr = p.updated
         /\ \A p \in PartsOf(log) : p.updated <= Rows!ReadGithub(log).pr
         /\ Rows!ReadGithub(log).pr_review = UNION {p.reviews : p \in PartsOf(log)}
         /\ PartsOf(log) \in SUBSET PrPart
<1>. DEFINE versions == {p.updated : p \in PartsOf(log)}
<1>1. PartsOf(log) \in SUBSET PrPart
  BY DEF PartsOf
<1>2. \E p \in PartsOf(log) : TRUE
  <2>1. 1 \in DOMAIN log
    OBVIOUS
  <2>. QED
    BY <2>1 DEF PartsOf
<1>3. versions \in SUBSET (1..MaxVersions) /\ versions # {}
  BY <1>1, <1>2 DEF PrPart
<1>. HIDE DEF versions
<1>4. PICK m \in versions : \A x \in versions : x <= m
  BY <1>3, LargestNumber DEF RowsConstants
<1>5. Rows!Max(versions) = CHOOSE x \in versions : \A y \in versions : x >= y
  BY DEF Rows!Max
<1>6. \A x \in versions : m >= x /\ x \in Nat
  BY <1>3, <1>4
<1>7. Rows!Max(versions) \in versions /\ \A y \in versions : Rows!Max(versions) >= y
  BY <1>5, <1>6
<1>8. \A y \in versions : y <= Rows!Max(versions)
  BY <1>6, <1>7
<1>9. Rows!ReadGithub(log) = [pr |-> Rows!Max(versions), pr_review |-> UNION {p.reviews : p \in PartsOf(log)}]
  BY OtherReads DEF versions
<1>10. Rows!ReadGithub(log).pr = Rows!Max(versions) /\ Rows!ReadGithub(log).pr_review = UNION {p.reviews : p \in PartsOf(log)}
  BY <1>9
<1>. QED
  BY <1>1, <1>7, <1>8, <1>10 DEF versions

LEMMA PrReread ==
  ASSUME RowsConstants, NEW old \in Seq(PrPart), old # << >>, NEW log \in Seq(PrPart), log # << >>,
         PartsOf(old) \subseteq PartsOf(log)
  PROVE  /\ Rows!ReadGithub(old).pr <= Rows!ReadGithub(log).pr
         /\ Rows!ReadGithub(old).pr_review \subseteq Rows!ReadGithub(log).pr_review
<1>1. PICK p \in PartsOf(old) : Rows!ReadGithub(old).pr = p.updated
  BY PrReads
<1>2. p.updated <= Rows!ReadGithub(log).pr
  BY PrReads
<1>3. UNION {q.reviews : q \in PartsOf(old)} \subseteq UNION {q.reviews : q \in PartsOf(log)}
  OBVIOUS
<1>. QED
  BY <1>1, <1>2, <1>3, PrReads
(* The action on the tables read, for each thing a step may store.         *)
LEMMA RowsReread == RowsConstants /\ RowsInv /\ [Rows!Next]_(Rows!vars) => Rows!RereadsSame
<1>. SUFFICES ASSUME RowsConstants, RowsInv, [Rows!Next]_(Rows!vars)
              PROVE  Rows!RereadsSame
  OBVIOUS
<1>. DEFINE jira ==
              (disk.jira # << >> /\ disk' # disk) =>
                /\ run = world.issue.updated => Rows!ReadJira(disk'.jira) = Rows!ReadJira(disk.jira)
                /\ Rows!ReadJira(disk.jira).issue.updated <= Rows!ReadJira(disk'.jira).issue.updated
                /\ \A r \in Rows!ReadJira(disk.jira).review_event :
                     \E q \in Rows!ReadJira(disk'.jira).review_event : q.who = r.who /\ r.at <= q.at
                /\ Rows!ReadJira(disk.jira).comments \subseteq Rows!ReadJira(disk'.jira).comments
                /\ Rows!ReadJira(disk.jira).changelog \subseteq Rows!ReadJira(disk'.jira).changelog
            github ==
              disk.github # << >> =>
                /\ Rows!ReadGithub(disk.github).pr <= Rows!ReadGithub(disk'.github).pr
                /\ Rows!ReadGithub(disk.github).pr_review \subseteq Rows!ReadGithub(disk'.github).pr_review
<1>1. RowsInv'
  BY RowsStep
<1>2. /\ disk.jira \in Seq(JiraPart) /\ disk.github \in Seq(PrPart)
      /\ disk'.jira \in Seq(JiraPart) /\ disk'.github \in Seq(PrPart)
      /\ disk = [jira |-> disk.jira, github |-> disk.github, git |-> disk.git]
      /\ run \in 0..world.issue.updated /\ world.issue \in IssueStates
  BY <1>1 DEF RowsInv, RowsTypes
<1>3. ASSUME disk'.jira = disk.jira, disk.jira # << >>
      PROVE  jira
  <2>. DEFINE read == Rows!ReadJira(disk.jira)
  <2>1. JiraRead(PartsOf(disk.jira), read) /\ PartsOf(disk.jira) \in SUBSET JiraPart
    BY <1>3, JiraReads
  <2>2. PICK p \in PartsOf(disk.jira) : p \in JiraPart /\ read.issue = p.issue
    BY <2>1 DEF JiraRead
  <2>3. read.issue.updated <= read.issue.updated
    <3>1. read.issue.updated \in Nat
      BY <2>2 DEF JiraPart, JiraRows
    <3>. QED
      BY <3>1
  <2>4. \A r \in read.review_event : r.at <= r.at
    <3>1. \A r \in read.review_event : r \in Reviewed
      BY <2>1 DEF JiraRead, NewestReviews, JiraPart
    <3>2. \A r \in Reviewed : r.at <= r.at
      BY DEF Reviewed
    <3>. QED
      BY <3>1, <3>2
  <2>5. Rows!ReadJira(disk'.jira) = read
    BY <1>3
  <2>. HIDE DEF read
  <2>6. /\ \A r \in read.review_event : \E q \in read.review_event : q.who = r.who /\ r.at <= q.at
        /\ read.comments \subseteq read.comments /\ read.changelog \subseteq read.changelog
    BY <2>4
  <2>7. \A before, after : before = read /\ after = read =>
          /\ run = world.issue.updated => after = before
          /\ before.issue.updated <= after.issue.updated
          /\ \A r \in before.review_event : \E q \in after.review_event : q.who = r.who /\ r.at <= q.at
          /\ before.comments \subseteq after.comments /\ before.changelog \subseteq after.changelog
    BY <2>3, <2>6
  <2>. QED
    BY <2>5, <2>7 DEF read
<1>4. ASSUME disk.github # << >>, disk'.github # << >>, PartsOf(disk.github) \subseteq PartsOf(disk'.github)
      PROVE  github
  BY <1>2, <1>4, PrReread
<1>. HIDE DEF jira, github
<1>. SUFFICES jira /\ github
  BY DEF jira, github, Rows!RereadsSame
<1>5. disk'.github = disk.github => github
  <2>1. disk.github = << >> => github
    BY DEF github
  <2>. QED
    BY <1>4, <2>1
<1>6. disk'.jira = disk.jira => jira
  <2>1. disk.jira = << >> => jira
    BY DEF jira
  <2>. QED
    BY <1>3, <2>1
<1>7. disk' = disk => jira /\ github
  BY <1>5, <1>6
<1>8. ASSUME NEW told \in BOOLEAN, NEW reporter \in BOOLEAN,
             NEW reviews \in {{}, Rows!ReviewRows}, NEW comments \in {{}, Rows!CommentRows},
             NEW changelog \in {{}, Rows!ChangelogRows}, NEW walked \in 0..world.issue.updated,
             walked = run \/ walked = 0 \/
               Rows!Partition(Rows!IssueRow(told, reporter), reviews, comments, changelog) =
                 Rows!Partition(Rows!IssueRow(TRUE, TRUE), Rows!ReviewRows, Rows!CommentRows, Rows!ChangelogRows),
             Rows!StoreIssue(Rows!Partition(Rows!IssueRow(told, reporter), reviews, comments, changelog), walked)
      PROVE  jira /\ github
  <2>. DEFINE e == Rows!Partition(Rows!IssueRow(told, reporter), reviews, comments, changelog)
              P == PartsOf(disk.jira)
              before == Rows!ReadJira(disk.jira)
              after == Rows!ReadJira(disk'.jira)
  <2>1. IssuePart(e)
    BY WalkedParts
  <2>2. e = Rows!Partition(Rows!IssueRow(told, reporter), reviews, comments, changelog)
    OBVIOUS
  <2>3. walked = run \/ walked = 0 \/
          e = Rows!Partition(Rows!IssueRow(TRUE, TRUE), Rows!ReviewRows, Rows!CommentRows, Rows!ChangelogRows)
    BY <1>8
  <2>4. Rows!StoreIssue(e, walked)
    BY <1>8
  <2>. HIDE DEF e
  <2>5. /\ disk' = [jira |-> Append(disk.jira, e), github |-> disk.github, git |-> disk.git]
        /\ PartsOf(disk'.jira) = P \cup {e}
    BY <2>1, <2>3, <2>4, JiraStored DEF IssuePart
  <2>6. github
    BY <2>5, <1>5
  <2>7. jira
    <3>1. SUFFICES ASSUME disk.jira # << >> PROVE jira
      BY DEF jira
    <3>2. P \in SUBSET JiraPart /\ TiesAgree(P) /\ JiraRead(P, before)
      BY <3>1, JiraReads
    <3>3. e \in JiraPart
      BY <2>1 DEF IssuePart
    <3>4. disk'.jira # << >>
      BY <2>5, <1>2
    <3>5. JiraRead(P \cup {e}, after)
      BY <1>2, <2>5, <3>4, ReadOfParts
    <3>6. ASSUME run = world.issue.updated
          PROVE  after = before
      <4>1. JiraRead(P \cup {e}, before)
        BY <2>2, <3>2, <3>6, WalkedIsNoNews
      <4>2. TiesAgree(P \cup {e}) /\ P \cup {e} \in SUBSET JiraPart
        <5>1. IssuesWereSo'
          BY <1>1 DEF RowsInv
        <5>2. PartsOf(disk.jira)' = P \cup {e}
          BY <2>5 DEF PartsOf
        <5>. QED
          BY <5>1, <5>2, <3>2, <3>3 DEF IssuesWereSo, TiesAgree
      <4>. HIDE DEF P, before, after
      <4>. QED
        BY <3>5, <4>1, <4>2, SameRead
    <3>. HIDE DEF P, before, after
    <3>7. /\ before.issue.updated <= after.issue.updated
          /\ \A r \in before.review_event : \E q \in after.review_event : q.who = r.who /\ r.at <= q.at
          /\ before.comments \subseteq after.comments /\ before.changelog \subseteq after.changelog
      BY <3>2, <3>3, <3>5, JiraReread
    <3>. QED
      BY <3>6, <3>7 DEF jira, before, after
  <2>. QED
    BY <2>6, <2>7
<1>9. 0 \in 0..world.issue.updated /\ world.issue.updated \in 0..world.issue.updated
  BY <1>2 DEF IssueStates
<1>10. CASE Rows!WalkIssue
  BY <1>8, <1>9, <1>10 DEF Rows!WalkIssue
<1>11. CASE Rows!WalkIssueBefore
  BY <1>8, <1>9, <1>11 DEF Rows!WalkIssueBefore
<1>12. CASE Rows!BackfillIssue
  <2>1. PICK comments \in {{}, Rows!CommentRows} :
          Rows!StoreIssue(Rows!Partition(Rows!IssueRow(TRUE, FALSE), {}, comments, Rows!ChangelogRows), run)
    BY <1>12 DEF Rows!BackfillIssue
  <2>. QED
    BY <2>1, <1>2, <1>8
<1>13. CASE Rows!StorePr
  <2>. DEFINE e == [updated |-> world.pr.updated, reviews |-> 1..world.pr.reviews]
  <2>1. disk' = [disk EXCEPT !.github = Append(disk.github, e)]
    BY <1>13 DEF Rows!StorePr
  <2>2. e \in PrPart
    BY DEF RowsInv, RowsTypes, PrPart
  <2>. HIDE DEF e
  <2>3. disk'.jira = disk.jira /\ disk'.github = Append(disk.github, e)
    BY <1>2, <2>1
  <2>4. PartsOf(disk.github) \subseteq PartsOf(disk'.github) /\ disk'.github # << >>
    <3>1. PartsOf(Append(disk.github, e)) = PartsOf(disk.github) \cup {e} /\ Append(disk.github, e) # << >>
      BY <1>2, <2>2, AppendedParts
    <3>. QED
      BY <2>3, <3>1
  <2>5. disk.github = << >> => github
    BY DEF github
  <2>. QED
    BY <1>4, <1>6, <2>3, <2>4, <2>5
<1>14. ASSUME NEW name, NEW commits, Rows!StoreTrailers(name, commits)
       PROVE  jira /\ github
  <2>1. disk' = [disk EXCEPT !.git = Append(disk.git, [name |-> name, rows |-> Rows!TrailerRows(commits)])]
    BY <1>14 DEF Rows!StoreTrailers
  <2>2. disk'.jira = disk.jira /\ disk'.github = disk.github
    BY <1>2, <2>1
  <2>. QED
    BY <1>5, <1>6, <2>2
<1>15. CASE Rows!Resolve \/ Rows!Transit \/ Rows!Comment \/ \E p \in Reviewers : Rows!NameReviewer(p)
  BY <1>7, <1>15, JiraMoves
<1>16. CASE Rows!UpdatePr \/ Rows!ReleaseParser \/ UNCHANGED Rows!vars
  BY <1>7, <1>16 DEF Rows!UpdatePr, Rows!ReleaseParser, Rows!vars
<1>17. CASE Rows!Next
  BY <1>10, <1>11, <1>12, <1>13, <1>14, <1>15, <1>16, <1>17 DEF Rows!Next
<1>. QED
  BY <1>16, <1>17

(* What a run reads of every table is whole, of one night where one walk   *)
(* wrote it, the same in any order of the partitions, and a reparse takes  *)
(* the place of what older parsers found.                                  *)
THEOREM TablesReadTrue ==
  ASSUME RowsConstants
  PROVE  Rows!Spec =>
           [](Rows!IssueReadsWhole /\ Rows!TablesReadTogether /\ Rows!OrderIsFree /\ Rows!ReparseReplaces)
<1>1. RowsInv => Rows!IssueReadsWhole /\ Rows!TablesReadTogether /\ Rows!OrderIsFree /\ Rows!ReparseReplaces
  BY ReadsWhole, ReadsTogether, ReadsInAnyOrder, ReparsesReplace
<1>2. Rows!Spec => []RowsInv
  BY RowsInvariant
<1>. QED
  BY <1>1, <1>2, PTL

(* A partition without news changes nothing that is read, and one with     *)
(* news takes no version, comment, history or review back.                 *)
THEOREM RereadsChangeNothing ==
  ASSUME RowsConstants
  PROVE  Rows!Spec => [][Rows!RereadsSame]_(Rows!vars)
<1>1. RowsInv /\ [Rows!Next]_(Rows!vars) => [Rows!RereadsSame]_(Rows!vars)
  BY RowsReread
<1>2. Rows!Spec => []RowsInv
  BY RowsInvariant
<1>. QED
  BY <1>1, <1>2, PTL DEF Rows!Spec

-----------------------------------------------------------------------------
(* The private run.                                                        *)

Private == INSTANCE PrivateRun
             WITH Environments <- PrivateEnvironments, Threads <- Discussions,
                  Bots <- Automated


Mentions == [author : Nat, text : Texts]

PrivateConstants ==
  /\ VenueOf \in [Discussions -> Private!Venues] /\ QuarterOf \in [Discussions -> Private!Quarters]
  /\ MaxPerThread \in Nat
  /\ \A e \in PrivateEnvironments : e.threads \subseteq Discussions /\ e.messages \subseteq Mentions

RunUnderWay == run.stage \in {"classify", "index", "threads", "ledger", "aggregates"}
Sampled(strata) == UNION {strata[s].sampled : s \in Private!Strata}

(* What is fetched of a thread, as an operator of its messages.            *)
Fetched(t, a) ==
  LET parent(k) == IF k = 1 THEN 0 ELSE a[k - 1].text
  IN  {[thread |-> t, place |-> k, author |-> a[k].author, hash |-> <<a[k].text, parent(k)>>] :
         k \in {k \in DOMAIN a : k <= MaxPerThread /\ a[k].author \notin Automated}}

FetchedOf(S, archive) == UNION {Fetched(t, archive[t]) : t \in S}
CollectedOf(S) == FetchedOf(S, world.archive)
RatedOf(S) == {p \in CollectedOf(S) : p.hash \in disk.cache}

PrivateTypes ==
  /\ faults \in PrivateEnvironments
  /\ world = [frame |-> world.frame, archive |-> world.archive, posts |-> world.posts,
              edits |-> world.edits, runs |-> world.runs]
  /\ world.frame \subseteq faults.threads /\ IsFiniteSet(world.frame)
  /\ world.archive \in [Discussions -> Seq(Mentions)] /\ world.edits \in Nat /\ world.runs \in Nat
  /\ disk = [cache |-> disk.cache, index |-> disk.index, threads |-> disk.threads, ledger |-> disk.ledger,
             aggregates |-> disk.aggregates, manifest |-> disk.manifest, patterns |-> disk.patterns,
             explorer |-> disk.explorer]
  /\ run = [stage |-> run.stage, strata |-> run.strata, pending |-> run.pending, calls |-> run.calls,
            skipped |-> run.skipped, paused |-> run.paused, begun |-> run.begun]

(* A run works on what it has fetched, and on nothing that came later.     *)
RunHasFetched ==
  RunUnderWay =>
    /\ run.begun = world.runs
    /\ run.pending = CollectedOf(Sampled(run.strata))
    /\ \A s \in Private!Strata : run.strata[s].sampled \subseteq Private!Frame(s)
    /\ run.skipped \subseteq {p.hash : p \in run.pending} /\ run.skipped \cap disk.cache = {}

(* The files that the run under way has written.                           *)
FilesOfRun ==
  /\ run.stage \in {"threads", "ledger", "aggregates"} => disk.index = [run |-> run.begun, entries |-> run.pending]
  /\ run.stage \in {"ledger", "aggregates"} =>
       disk.threads = [run |-> run.begun, rows |-> {Private!ThreadRow(p.thread) : p \in Private!FanOut}]

(* Every file is of a run before the one under way.                        *)
Earlier(file) ==
  file # << >> => file.run \in Nat /\ file.run <= world.runs /\ (RunUnderWay => file.run < world.runs)

RunsInOrder ==
  /\ Earlier(disk.aggregates) /\ Earlier(disk.patterns) /\ Earlier(disk.explorer)
  /\ disk.threads # << >> =>
       /\ disk.threads.run \in Nat /\ disk.threads.run <= world.runs
       /\ run.stage \in {"classify", "index", "threads"} => disk.threads.run < world.runs
       /\ \A r \in disk.threads.rows : r.thread \in faults.threads
  /\ disk.aggregates # << >> => disk.threads # << >> /\ {"run", "strata"} \subseteq DOMAIN disk.aggregates

(* The threads of a file are among the sample of the same run's aggregates. *)
OfTheSample(file, told) ==
  (file # << >> /\ told # << >> /\ file.run = told.run) =>
    \A r \in file.rows : \A s \in Private!Strata :
      <<VenueOf[r.thread], QuarterOf[r.thread]>> = s => r.thread \in told.strata[s].sampled

RowsAreSampled ==
  /\ OfTheSample(disk.threads, disk.aggregates) /\ OfTheSample(disk.threads, disk.patterns)
  /\ OfTheSample(disk.explorer, disk.aggregates) /\ OfTheSample(disk.explorer, disk.patterns)

(* What is published, and between the two files of it.                     *)
PublishedInOrder ==
  /\ run.stage = "publish" =>
       disk.patterns # << >> /\ disk.aggregates # << >> /\ disk.patterns.run = disk.aggregates.run
  /\ "kill" \notin faults.what =>
       /\ (disk.aggregates # << >> /\ run.stage \notin {"ledger", "aggregates"}) =>
            disk.threads.run = disk.aggregates.run
       /\ (run.stage # "publish" /\ disk.patterns # << >>) =>
            \/ disk.explorer # << >> /\ disk.explorer.run = disk.patterns.run
            \/ \E t \in faults.threads : t \in Unsafe
  /\ disk.explorer # << >> => \A r \in disk.explorer.rows : r.thread \notin Unsafe

(* As long as nobody edits, what the aggregates count can be had again.    *)
CountsCanBeHad ==
  disk.aggregates # << >> =>
    \A s \in Private!Strata :
      /\ disk.aggregates.strata[s].sampled \subseteq Private!Frame(s)
      /\ disk.aggregates.cells_by_quarter[s].messages \in Nat
      /\ world.edits = 0 =>
           disk.aggregates.cells_by_quarter[s].messages <= Cardinality(RatedOf(disk.aggregates.strata[s].sampled))

PrivateInv ==
  /\ PrivateTypes /\ RunHasFetched /\ FilesOfRun /\ RunsInOrder /\ RowsAreSampled /\ PublishedInOrder
  /\ CountsCanBeHad /\ Private!CoverageIsHonest /\ Private!FloorsHold

LEMMA PrivateCardinality == \A S : Private!Cardinality(S) = Cardinality(S)
  BY DEF Private!Cardinality, Cardinality

LEMMA CollectIsFetched == \A t : Private!Collect(t) = Fetched(t, world.archive[t])
  BY DEF Private!Collect, Fetched

LEMMA FiniteImage ==
  ASSUME NEW S, IsFiniteSet(S), NEW f, DOMAIN f = S
  PROVE  IsFiniteSet({f[x] : x \in S})
<1>. DEFINE T == {f[x] : x \in S}
            g == [x \in S |-> f[x]]
<1>1. g \in Surjection(S, T)
  BY DEF Surjection
<1>. QED
  BY <1>1, FS_Surjection

(* What is fetched of finitely many threads is finite, and of its thread.  *)
LEMMA FetchedParts ==
  ASSUME MaxPerThread \in Nat, NEW archive \in [Discussions -> Seq(Mentions)],
         NEW S \in SUBSET Discussions, IsFiniteSet(S)
  PROVE  /\ IsFiniteSet(FetchedOf(S, archive)) /\ Cardinality(FetchedOf(S, archive)) \in Nat
         /\ \A p \in FetchedOf(S, archive) : p.thread \in S /\ p \in Fetched(p.thread, archive[p.thread])
<1>1. ASSUME NEW t \in S
      PROVE  IsFiniteSet(Fetched(t, archive[t])) /\ \A p \in Fetched(t, archive[t]) : p.thread = t
  <2>. DEFINE a == archive[t]
              parent(k) == IF k = 1 THEN 0 ELSE a[k - 1].text
              places == {k \in DOMAIN a : k <= MaxPerThread /\ a[k].author \notin Automated}
  <2>1. Fetched(t, a) =
          {[thread |-> t, place |-> k, author |-> a[k].author, hash |-> <<a[k].text, parent(k)>>] : k \in places}
    BY DEF Fetched
  <2>2. IsFiniteSet(places)
    <3>1. a \in Seq(Mentions)
      OBVIOUS
    <3>2. DOMAIN a = 1..Len(a) /\ Len(a) \in Nat
      BY <3>1
    <3>3. IsFiniteSet(DOMAIN a)
      BY <3>2, FS_Interval
    <3>. QED
      BY <3>3, FS_Subset
  <2>. HIDE DEF places, a, parent
  <2>3. IsFiniteSet({[thread |-> t, place |-> k, author |-> a[k].author, hash |-> <<a[k].text, parent(k)>>] : k \in places})
    <3>. DEFINE f == [k \in places |->
                       [thread |-> t, place |-> k, author |-> a[k].author, hash |-> <<a[k].text, parent(k)>>]]
    <3>1. DOMAIN f = places
      OBVIOUS
    <3>2. IsFiniteSet({f[k] : k \in places})
      <4>. HIDE DEF f
      <4>. QED
        BY <2>2, <3>1, FiniteImage
    <3>. QED
      BY <3>2
  <2>. QED
    BY <2>1, <2>3 DEF a
<1>. DEFINE fetched == {Fetched(t, archive[t]) : t \in S}
<1>2. IsFiniteSet(fetched)
  <2>. DEFINE f == [t \in S |-> Fetched(t, archive[t])]
  <2>1. DOMAIN f = S
    OBVIOUS
  <2>2. IsFiniteSet({f[t] : t \in S})
    <3>. HIDE DEF f
    <3>. QED
      BY <2>1, FiniteImage
  <2>. QED
    BY <2>2
<1>3. IsFiniteSet(UNION fetched)
  <2>. \A F \in fetched : IsFiniteSet(F)
    BY <1>1
  <2>. HIDE DEF fetched
  <2>. QED
    BY <1>2, FS_UNION
<1>4. IsFiniteSet(FetchedOf(S, archive)) /\ Cardinality(FetchedOf(S, archive)) \in Nat
  BY <1>3, FS_CardinalityType DEF FetchedOf
<1>. QED
  BY <1>1, <1>4 DEF FetchedOf

(* More threads, more messages of them and more ratings: no fewer rated.   *)
LEMMA RatedGrow ==
  ASSUME NEW A, NEW B, A \subseteq B, IsFiniteSet(B)
  PROVE  Cardinality(A) <= Cardinality(B) /\ Cardinality(A) \in Nat /\ Cardinality(B) \in Nat /\ IsFiniteSet(A)
BY FS_Subset, FS_CardinalityType
(* What the run has fetched of a stratum is of the threads sampled of it.  *)
LEMMA StratumIsOfItsSample ==
  ASSUME PrivateConstants, PrivateTypes, RunHasFetched, RunUnderWay
  PROVE  /\ Sampled(run.strata) \in SUBSET Discussions /\ IsFiniteSet(Sampled(run.strata))
         /\ Sampled(run.strata) \subseteq world.frame
         /\ IsFiniteSet(run.pending) /\ run.pending = CollectedOf(Sampled(run.strata))
         /\ \A p \in run.pending : p.thread \in Sampled(run.strata) /\ <<VenueOf[p.thread], QuarterOf[p.thread]>> \in Private!Strata
         /\ \A s \in Private!Strata :
              Private!StratumMessages(Private!FanOut, s) = RatedOf(run.strata[s].sampled)
<1>1. /\ run.pending = CollectedOf(Sampled(run.strata))
      /\ \A s \in Private!Strata : run.strata[s].sampled \subseteq Private!Frame(s)
  BY DEF RunHasFetched
<1>2. world.frame \subseteq Discussions /\ IsFiniteSet(world.frame)
  BY DEF PrivateTypes, PrivateConstants
<1>3. Sampled(run.strata) \subseteq world.frame
  BY <1>1 DEF Sampled, Private!Frame
<1>4. Sampled(run.strata) \in SUBSET Discussions /\ IsFiniteSet(Sampled(run.strata))
  <2>1. Sampled(run.strata) \in SUBSET world.frame
    BY <1>3
  <2>. QED
    BY <2>1, <1>2, FS_Subset
<1>5. /\ IsFiniteSet(run.pending)
      /\ \A p \in run.pending : p.thread \in Sampled(run.strata) /\ p \in Fetched(p.thread, world.archive[p.thread])
  BY <1>1, <1>4, FetchedParts DEF CollectedOf, PrivateTypes, PrivateConstants
<1>6. \A t \in Discussions : <<VenueOf[t], QuarterOf[t]>> \in Private!Strata
  BY DEF PrivateConstants, Private!Strata
<1>7. ASSUME NEW s \in Private!Strata
      PROVE  Private!StratumMessages(Private!FanOut, s) = RatedOf(run.strata[s].sampled)
  <2>. DEFINE S == run.strata[s].sampled
  <2>1. S \subseteq Sampled(run.strata) /\ \A t \in S : <<VenueOf[t], QuarterOf[t]>> = s
    BY <1>1 DEF Sampled, Private!Frame
  <2>2. S \in SUBSET Discussions /\ IsFiniteSet(S)
    <3>1. S \in SUBSET Sampled(run.strata)
      BY <2>1
    <3>. HIDE DEF S
    <3>. QED
      BY <3>1, <1>4, FS_Subset
  <2>3. \A p \in CollectedOf(S) : p.thread \in S /\ p \in run.pending
    <3>1. \A p \in CollectedOf(S) : p.thread \in S
      <4>. HIDE DEF S
      <4>. QED
        BY <2>2, FetchedParts DEF CollectedOf, PrivateTypes, PrivateConstants
    <3>2. CollectedOf(S) \subseteq CollectedOf(Sampled(run.strata))
      BY <2>1 DEF CollectedOf, FetchedOf
    <3>. QED
      BY <3>1, <3>2, <1>1
  <2>4. ASSUME NEW p \in run.pending, <<VenueOf[p.thread], QuarterOf[p.thread]>> = s
        PROVE  p \in CollectedOf(S)
    <3>1. PICK z \in Private!Strata : p.thread \in run.strata[z].sampled
      BY <1>5 DEF Sampled
    <3>2. z = s
      BY <3>1, <1>1, <2>4 DEF Private!Frame
    <3>. QED
      BY <3>1, <3>2, <1>5 DEF CollectedOf, FetchedOf
  <2>. QED
    BY <2>1, <2>3, <2>4 DEF Private!StratumMessages, Private!FanOut, RatedOf
<1>8. \A p \in run.pending : <<VenueOf[p.thread], QuarterOf[p.thread]>> \in Private!Strata
  BY <1>4, <1>5, <1>6
<1>. QED
  BY <1>1, <1>3, <1>4, <1>5, <1>7, <1>8

(* A cell below a floor has no rate, and no share of a tier.               *)
LEMMA CellsKeepFloors ==
  ASSUME NEW v, NEW Q
  PROVE  /\ Private!CellFloor(Private!AggregateCell(v, Q))
         /\ \A c : Private!ToneMixCellFloor(Private!AggregateToneMixCell(v, Q, c))
<1>1. ASSUME NEW a, NEW b, NEW c, NEW d, NEW low \in BOOLEAN, NEW rates
      PROVE  Private!CellFloor([messages |-> a, authors |-> b, sampled |-> c, population |-> d,
                                insufficient |-> low, rates |-> IF low THEN << >> ELSE rates])
  BY DEF Private!CellFloor
<1>2. ASSUME NEW a, NEW low \in BOOLEAN, NEW tiers
      PROVE  Private!ToneMixCellFloor([messages |-> a, insufficient |-> low, tiers |-> IF low THEN << >> ELSE tiers])
  BY DEF Private!ToneMixCellFloor
<1>3. \A C : Private!Insufficient(C) \in BOOLEAN
  BY DEF Private!Insufficient
<1>4. Private!CellFloor(Private!AggregateCell(v, Q))
  BY <1>1, <1>3 DEF Private!AggregateCell
<1>5. ASSUME NEW c
      PROVE  Private!ToneMixCellFloor(Private!AggregateToneMixCell(v, Q, c))
  BY <1>2, <1>3 DEF Private!AggregateToneMixCell
<1>. QED
  BY <1>4, <1>5

(* The aggregates at the moment they are written.                          *)
LEMMA AggregatesTold ==
  /\ Private!Aggregates # << >> /\ {"run", "strata"} \subseteq DOMAIN Private!Aggregates
  /\ Private!Aggregates.run = run.begun /\ Private!Aggregates.strata = run.strata
  /\ Private!Aggregates.partial_run = Private!PartialRun
  /\ \A s \in Private!Strata :
       Private!Aggregates.cells_by_quarter[s].messages = Cardinality(Private!StratumMessages(Private!FanOut, s))
  /\ Private!FloorInvariants(Private!Aggregates)
<1>. DEFINE cells == [s \in Private!Strata |-> Private!AggregateCell(s[1], {s[2]})]
            years == [x \in Private!Venues \X Private!Years |-> Private!AggregateCell(x[1], Private!QuartersOf({x[2]}))]
            tones == [s \in Private!Strata |-> [c \in Cutoffs |-> Private!AggregateToneMixCell(s[1], {s[2]}, c)]]
            trends == [v \in Private!Venues |-> Private!ComputeTrendSummary(v)]
            cost == Private!CostLedger(disk.ledger)
            totals == [v \in Private!Venues |-> Private!VenueTotals(v)]
            told == Private!Aggregates
<1>1. told = [run |-> run.begun, strata |-> run.strata, partial_run |-> Private!PartialRun, cost |-> cost,
              venue_totals |-> totals, cells_by_quarter |-> cells, cells_by_year |-> years,
              tone_mix_by_quarter |-> tones, trend_summary |-> trends]
  BY DEF Private!Aggregates
<1>. HIDE DEF cells, years, tones, trends, cost, totals, told
<1>2. /\ told.run = run.begun /\ told.strata = run.strata /\ told.partial_run = Private!PartialRun
      /\ told.cells_by_quarter = cells /\ told.cells_by_year = years
      /\ told.tone_mix_by_quarter = tones /\ told.trend_summary = trends
  BY <1>1
<1>3. told # << >> /\ {"run", "strata"} \subseteq DOMAIN told
  <2>1. "run" \in DOMAIN told /\ "strata" \in DOMAIN told /\ DOMAIN << >> = {}
    BY <1>1
  <2>. QED
    BY <2>1
<1>4. ASSUME NEW s \in Private!Strata
      PROVE  cells[s].messages = Cardinality(Private!StratumMessages(Private!FanOut, s))
  <2>1. s = <<s[1], s[2]>>
    BY DEF Private!Strata
  <2>. DEFINE C == UNION {Private!StratumMessages(Private!FanOut, <<s[1], q>>) : q \in {s[2]}}
  <2>2. C = Private!StratumMessages(Private!FanOut, s)
    <3>1. C = Private!StratumMessages(Private!FanOut, <<s[1], s[2]>>)
      OBVIOUS
    <3>. QED
      BY <2>1, <3>1
  <2>3. Private!AggregateCell(s[1], {s[2]}).messages = Private!Cardinality(C)
    BY DEF Private!AggregateCell
  <2>4. cells[s] = Private!AggregateCell(s[1], {s[2]})
    BY DEF cells
  <2>. HIDE DEF C
  <2>. QED
    BY <2>2, <2>3, <2>4, PrivateCardinality
<1>5. \A s \in Private!Strata : Private!CellFloor(cells[s])
  BY CellsKeepFloors DEF cells
<1>6. \A x \in Private!Venues \X Private!Years : Private!CellFloor(years[x])
  BY CellsKeepFloors DEF years
<1>7. \A s \in Private!Strata, c \in Cutoffs : Private!ToneMixCellFloor(tones[s][c])
  BY CellsKeepFloors DEF tones
<1>8. ASSUME NEW v \in Private!Venues, NEW w \in DOMAIN TrendWindows
      PROVE  Private!CellFloor(trends[v].windows[w])
  <2>. DEFINE windows == [x \in DOMAIN TrendWindows |-> Private!AggregateCell(v, Private!QuartersOf(TrendWindows[x]))]
  <2>1. Private!ComputeTrendSummary(v).windows = windows
    BY DEF Private!ComputeTrendSummary
  <2>2. trends[v] = Private!ComputeTrendSummary(v)
    BY DEF trends
  <2>3. windows[w] = Private!AggregateCell(v, Private!QuartersOf(TrendWindows[w]))
    OBVIOUS
  <2>. HIDE DEF windows
  <2>. QED
    BY <2>1, <2>2, <2>3, CellsKeepFloors
<1>9. Private!FloorInvariants(told)
  BY <1>2, <1>5, <1>6, <1>7, <1>8 DEF Private!FloorInvariants
<1>. QED
  BY <1>2, <1>3, <1>4, <1>9 DEF told

(* Aggregates say that they are partial when, and only when, they are.     *)
LEMMA PartialIsTold ==
  ASSUME PrivateConstants, PrivateTypes, RunHasFetched, RunUnderWay
  PROVE  /\ Private!PartialRun = << >> => Private!FanOut = run.pending
         /\ Private!PartialRun # << >> =>
              \E s \in Private!Strata :
                Private!PartialRun.coverage_by_stratum[s].classified < Private!PartialRun.coverage_by_stratum[s].sampled
<1>. DEFINE coverage(s) == [sampled |-> Private!Cardinality(Private!StratumMessages(run.pending, s)),
                            classified |-> Private!Cardinality(Private!StratumMessages(Private!FanOut, s))]
            covered == [s \in Private!Strata |-> coverage(s)]
            partial == [paused |-> run.paused, coverage_by_stratum |-> covered]
<1>1. Private!PartialRun = IF Private!FanOut = run.pending /\ run.skipped = {} THEN << >> ELSE partial
  BY DEF Private!PartialRun
<1>2. partial # << >> /\ partial.coverage_by_stratum = covered
  <2>. HIDE DEF covered
  <2>1. "paused" \in DOMAIN partial /\ DOMAIN << >> = {}
    OBVIOUS
  <2>. QED
    BY <2>1
<1>3. \A s \in Private!Strata : covered[s].sampled = Cardinality(Private!StratumMessages(run.pending, s))
                                 /\ covered[s].classified = Cardinality(Private!StratumMessages(Private!FanOut, s))
  BY PrivateCardinality
<1>. HIDE DEF partial, covered
<1>4. Private!PartialRun = << >> => Private!FanOut = run.pending
  BY <1>1, <1>2
<1>5. ASSUME Private!FanOut # run.pending \/ run.skipped # {}
      PROVE  \E s \in Private!Strata : covered[s].classified < covered[s].sampled
  <2>1. PICK p \in run.pending : p.hash \notin disk.cache
    <3>1. CASE Private!FanOut # run.pending
      BY <3>1 DEF Private!FanOut
    <3>2. CASE run.skipped # {}
      BY <3>2 DEF RunHasFetched
    <3>. QED
      BY <1>5, <3>1, <3>2
  <2>. DEFINE s == <<VenueOf[p.thread], QuarterOf[p.thread]>>
              A == Private!StratumMessages(Private!FanOut, s)
              B == Private!StratumMessages(run.pending, s)
  <2>2. s \in Private!Strata /\ IsFiniteSet(run.pending)
    BY StratumIsOfItsSample
  <2>3. p \in B /\ p \notin A /\ A \subseteq B /\ B \subseteq run.pending
    BY <2>1 DEF Private!StratumMessages, Private!FanOut
  <2>. HIDE DEF A, B
  <2>4. IsFiniteSet(B)
    BY <2>2, <2>3, FS_Subset
  <2>5. Cardinality(A) <= Cardinality(B) /\ Cardinality(A) # Cardinality(B)
    BY <2>3, <2>4, FS_Subset
  <2>6. Cardinality(A) \in Nat /\ Cardinality(B) \in Nat
    BY <2>3, <2>4, RatedGrow
  <2>7. Cardinality(A) < Cardinality(B)
    BY <2>5, <2>6
  <2>. QED
    BY <2>2, <2>7, <1>3 DEF A, B
<1>. QED
  BY <1>1, <1>2, <1>4, <1>5
LEMMA PrivateInit == PrivateConstants /\ Private!Init => PrivateInv
<1>. SUFFICES ASSUME PrivateConstants, Private!Init PROVE PrivateInv
  OBVIOUS
<1>1. /\ faults \in PrivateEnvironments
      /\ world = [frame |-> {}, archive |-> [t \in Discussions |-> << >>], posts |-> 0, edits |-> 0, runs |-> 0]
      /\ disk = [cache |-> {}, index |-> << >>, threads |-> << >>, ledger |-> << >>, aggregates |-> << >>,
                 manifest |-> << >>, patterns |-> << >>, explorer |-> << >>]
      /\ run = [stage |-> "idle", strata |-> << >>, pending |-> {}, calls |-> 0, skipped |-> {},
                paused |-> FALSE, begun |-> 0]
  BY DEF Private!Init, Private!NoRun
<1>2. /\ world.frame = {} /\ world.edits = 0 /\ world.runs = 0 /\ run.stage = "idle"
      /\ world.archive = [t \in Discussions |-> << >>]
      /\ disk.threads = << >> /\ disk.aggregates = << >> /\ disk.patterns = << >> /\ disk.explorer = << >>
  BY <1>1
<1>3. PrivateTypes
  <2>1. IsFiniteSet({})
    BY FS_EmptySet
  <2>2. << >> \in Seq(Mentions)
    OBVIOUS
  <2>. QED
    BY <1>1, <1>2, <2>1, <2>2 DEF PrivateTypes
<1>4. ~RunUnderWay /\ run.stage \notin {"threads", "ledger", "aggregates"} /\ run.stage # "publish"
  BY <1>2 DEF RunUnderWay
<1>5. /\ RunHasFetched /\ FilesOfRun /\ RunsInOrder /\ RowsAreSampled /\ PublishedInOrder /\ CountsCanBeHad
      /\ Private!CoverageIsHonest /\ Private!FloorsHold
  BY <1>2, <1>4
     DEF RunHasFetched, FilesOfRun, RunsInOrder, Earlier, RowsAreSampled, OfTheSample,
         PublishedInOrder,
                    CountsCanBeHad, Private!CoverageIsHonest, Private!FloorsHold, Private!Told
<1>. QED
  BY <1>3, <1>5 DEF PrivateInv

LEMMA FetchedGrows ==
  ASSUME NEW t, NEW a \in Seq(Mentions), NEW b \in Seq(Mentions), Len(a) <= Len(b), \A k \in 1..Len(a) : b[k] = a[k]
  PROVE  Fetched(t, a) \subseteq Fetched(t, b)
<1>. DEFINE before(k) == IF k = 1 THEN 0 ELSE a[k - 1].text
            after(k) == IF k = 1 THEN 0 ELSE b[k - 1].text
            old == {k \in DOMAIN a : k <= MaxPerThread /\ a[k].author \notin Automated}
            new == {k \in DOMAIN b : k <= MaxPerThread /\ b[k].author \notin Automated}
<1>1. DOMAIN a = 1..Len(a) /\ DOMAIN b = 1..Len(b) /\ Len(a) \in Nat /\ Len(b) \in Nat
  OBVIOUS
<1>2. ASSUME NEW k \in old
      PROVE  k \in new /\ a[k] = b[k] /\ before(k) = after(k)
  <2>1. k \in 1..Len(a) /\ k \in 1..Len(b)
    BY <1>1
  <2>2. k # 1 => k - 1 \in 1..Len(a)
    BY <1>1, <2>1
  <2>. QED
    BY <1>1, <2>1, <2>2
<1>3. /\ Fetched(t, a) = {[thread |-> t, place |-> k, author |-> a[k].author, hash |-> <<a[k].text, before(k)>>] : k \in old}
      /\ Fetched(t, b) = {[thread |-> t, place |-> k, author |-> b[k].author, hash |-> <<b[k].text, after(k)>>] : k \in new}
  BY DEF Fetched
<1>. HIDE DEF old, new, before, after
<1>. QED
  BY <1>2, <1>3

(* Between two runs, threads are opened, written to and edited.            *)
WorldGrows ==
  /\ UNCHANGED <<faults, disk, run>> /\ run.stage = "idle"
  /\ world' = [frame |-> world'.frame, archive |-> world'.archive, posts |-> world'.posts,
               edits |-> world'.edits, runs |-> world'.runs]
  /\ world.frame \subseteq world'.frame /\ world'.frame \subseteq faults.threads /\ IsFiniteSet(world'.frame)
  /\ world'.archive \in [Discussions -> Seq(Mentions)] /\ world'.edits \in Nat /\ world'.runs = world.runs
  /\ world'.edits = 0 =>
       world.edits = 0 /\ \A t \in Discussions : Fetched(t, world.archive[t]) \subseteq Fetched(t, world'.archive[t])

LEMMA WorldMoves ==
  ASSUME PrivateConstants, PrivateTypes,
         \/ \E t \in Discussions : Private!Open(t)
         \/ \E t \in Discussions, m \in faults.messages : Private!Post(t, m)
         \/ \E t \in Discussions, k \in Private!Places, x \in Texts : Private!Edit(t, k, x)
  PROVE  WorldGrows
<1>1. /\ world = [frame |-> world.frame, archive |-> world.archive, posts |-> world.posts,
                  edits |-> world.edits, runs |-> world.runs]
      /\ world.frame \subseteq faults.threads /\ IsFiniteSet(world.frame)
      /\ world.archive \in [Discussions -> Seq(Mentions)] /\ world.edits \in Nat
      /\ faults.threads \subseteq Discussions /\ faults.messages \subseteq Mentions
  BY DEF PrivateTypes, PrivateConstants
<1>2. ASSUME NEW t \in Discussions, Private!Open(t)
      PROVE  WorldGrows
  <2>. DEFINE frame == world.frame \cup {t}
  <2>1. /\ UNCHANGED <<faults, disk, run>> /\ run.stage = "idle" /\ t \in faults.threads
        /\ world' = [world EXCEPT !.frame = frame]
    BY <1>2 DEF Private!Open, Private!Outside
  <2>2. IsFiniteSet(frame) /\ world.frame \subseteq frame /\ frame \subseteq faults.threads
    BY <1>1, <2>1, FS_AddElement
  <2>. HIDE DEF frame
  <2>3. world' = [frame |-> frame, archive |-> world.archive, posts |-> world.posts, edits |-> world.edits, runs |-> world.runs]
    BY <1>1, <2>1
  <2>4. world'.frame = frame /\ world'.archive = world.archive /\ world'.posts = world.posts
        /\ world'.edits = world.edits /\ world'.runs = world.runs
    BY <2>3
  <2>5. world' = [frame |-> world'.frame, archive |-> world'.archive, posts |-> world'.posts,
                  edits |-> world'.edits, runs |-> world'.runs]
    BY <2>3, <2>4
  <2>. QED
    BY <1>1, <2>1, <2>2, <2>4, <2>5 DEF WorldGrows
<1>3. ASSUME NEW t \in Discussions, NEW m \in faults.messages, Private!Post(t, m)
      PROVE  WorldGrows
  <2>. DEFINE frame == world.frame \cup {t}
              thread == Append(world.archive[t], m)
              archive == [world.archive EXCEPT ![t] = thread]
  <2>1. /\ UNCHANGED <<faults, disk, run>> /\ run.stage = "idle" /\ t \in faults.threads
        /\ world' = [world EXCEPT !.posts = world.posts + 1, !.frame = frame, !.archive = archive]
    BY <1>3 DEF Private!Post, Private!Outside
  <2>2. IsFiniteSet(frame) /\ world.frame \subseteq frame /\ frame \subseteq faults.threads
    BY <1>1, <2>1, FS_AddElement
  <2>. HIDE DEF frame
  <2>3. /\ thread \in Seq(Mentions) /\ Len(world.archive[t]) <= Len(thread)
        /\ \A k \in 1..Len(world.archive[t]) : thread[k] = world.archive[t][k]
    <3>1. m \in Mentions /\ world.archive[t] \in Seq(Mentions)
      BY <1>1
    <3>. QED
      BY <3>1
  <2>. HIDE DEF thread
  <2>4. archive \in [Discussions -> Seq(Mentions)] /\ \A u \in Discussions : archive[u] = IF u = t THEN thread ELSE world.archive[u]
    BY <1>1, <2>3
  <2>. HIDE DEF archive
  <2>5. world' = [frame |-> frame, archive |-> archive, posts |-> world.posts + 1, edits |-> world.edits, runs |-> world.runs]
    BY <1>1, <2>1
  <2>6. world'.frame = frame /\ world'.archive = archive /\ world'.posts = world.posts + 1
        /\ world'.edits = world.edits /\ world'.runs = world.runs
    BY <2>5
  <2>7. world' = [frame |-> world'.frame, archive |-> world'.archive, posts |-> world'.posts,
                  edits |-> world'.edits, runs |-> world'.runs]
    BY <2>5, <2>6
  <2>8. \A u \in Discussions : Fetched(u, world.archive[u]) \subseteq Fetched(u, archive[u])
    <3>1. Fetched(t, world.archive[t]) \subseteq Fetched(t, thread)
      BY <1>1, <2>3, FetchedGrows
    <3>. QED
      BY <2>4, <3>1
  <2>. QED
    BY <1>1, <2>1, <2>2, <2>4, <2>6, <2>7, <2>8 DEF WorldGrows
<1>4. ASSUME NEW t \in Discussions, NEW k \in Private!Places, NEW x \in Texts, Private!Edit(t, k, x)
      PROVE  WorldGrows
  <2>. DEFINE line == [world.archive[t][k] EXCEPT !.text = x]
              thread == [world.archive[t] EXCEPT ![k] = line]
              archive == [world.archive EXCEPT ![t] = thread]
  <2>1. /\ UNCHANGED <<faults, disk, run>> /\ run.stage = "idle" /\ k \in DOMAIN world.archive[t]
        /\ world' = [world EXCEPT !.edits = world.edits + 1, !.archive = archive]
    BY <1>4 DEF Private!Edit, Private!Outside
  <2>2. line \in Mentions
    <3>1. world.archive[t] \in Seq(Mentions)
      BY <1>1
    <3>2. world.archive[t][k] \in Mentions
      BY <2>1, <3>1
    <3>. QED
      BY <3>2 DEF Mentions
  <2>. HIDE DEF line
  <2>3. thread \in Seq(Mentions)
    <3>1. world.archive[t] \in Seq(Mentions)
      BY <1>1
    <3>. QED
      BY <2>1, <2>2, <3>1
  <2>. HIDE DEF thread
  <2>4. archive \in [Discussions -> Seq(Mentions)]
    BY <1>1, <2>3
  <2>. HIDE DEF archive
  <2>5. world' = [frame |-> world.frame, archive |-> archive, posts |-> world.posts, edits |-> world.edits + 1, runs |-> world.runs]
    BY <1>1, <2>1
  <2>6. world'.frame = world.frame /\ world'.archive = archive /\ world'.posts = world.posts
        /\ world'.edits = world.edits + 1 /\ world'.runs = world.runs
    BY <2>5
  <2>7. world' = [frame |-> world'.frame, archive |-> world'.archive, posts |-> world'.posts,
                  edits |-> world'.edits, runs |-> world'.runs]
    BY <2>5, <2>6
  <2>8. world'.edits \in Nat /\ world'.edits # 0
    BY <1>1, <2>6
  <2>. QED
    BY <1>1, <2>1, <2>4, <2>6, <2>7, <2>8 DEF WorldGrows
<1>. QED
  BY <1>2, <1>3, <1>4

LEMMA WorldMovesOn == PrivateConstants /\ PrivateInv /\ WorldGrows => PrivateInv'
<1>. SUFFICES ASSUME PrivateConstants, PrivateInv, WorldGrows
              PROVE  PrivateInv'
  OBVIOUS
<1>1. /\ UNCHANGED <<faults, disk, run>> /\ run.stage = "idle" /\ world'.runs = world.runs
      /\ world.frame \subseteq world'.frame
  BY DEF WorldGrows
<1>2. ~RunUnderWay' /\ ~RunUnderWay /\ run'.stage \notin {"threads", "ledger", "aggregates"}
  BY <1>1 DEF RunUnderWay
<1>3. PrivateTypes'
  <2>1. PrivateTypes
    BY DEF PrivateInv
  <2>. QED
    BY <2>1, <1>1 DEF WorldGrows, PrivateTypes
<1>4. RunHasFetched' /\ FilesOfRun'
  BY <1>2 DEF RunHasFetched, FilesOfRun
<1>5. RunsInOrder'
  <2>1. RunsInOrder
    BY DEF PrivateInv
  <2>. QED
    BY <2>1, <1>1, <1>2 DEF RunsInOrder, Earlier
<1>6. RowsAreSampled' /\ PublishedInOrder' /\ Private!CoverageIsHonest' /\ Private!FloorsHold'
  <2>1. RowsAreSampled /\ PublishedInOrder /\ Private!CoverageIsHonest /\ Private!FloorsHold
    BY DEF PrivateInv
  <2>2. RowsAreSampled'
    BY <2>1, <1>1 DEF RowsAreSampled, OfTheSample
  <2>3. PublishedInOrder'
    BY <2>1, <1>1 DEF PublishedInOrder
  <2>4. Private!CoverageIsHonest'
    BY <2>1, <1>1 DEF Private!CoverageIsHonest, Private!Told
  <2>5. Private!FloorsHold'
    <3>1. Private!FloorInvariants(disk.aggregates)' = Private!FloorInvariants(disk.aggregates)
      BY <1>1
    <3>. QED
      BY <2>1, <1>1, <3>1 DEF Private!FloorsHold, Private!Told
  <2>. QED
    BY <2>2, <2>3, <2>4, <2>5
<1>7. CountsCanBeHad'
  <2>1. SUFFICES ASSUME disk.aggregates # << >>, NEW s \in Private!Strata
                 PROVE  /\ disk.aggregates.strata[s].sampled \subseteq Private!Frame(s)'
                        /\ disk.aggregates.cells_by_quarter[s].messages \in Nat
                        /\ world'.edits = 0 =>
                             disk.aggregates.cells_by_quarter[s].messages
                               <= Cardinality(RatedOf(disk.aggregates.strata[s].sampled)')
    BY <1>1 DEF CountsCanBeHad
  <2>. DEFINE S == disk.aggregates.strata[s].sampled
  <2>2. /\ S \subseteq Private!Frame(s) /\ disk.aggregates.cells_by_quarter[s].messages \in Nat
        /\ world.edits = 0 => disk.aggregates.cells_by_quarter[s].messages <= Cardinality(RatedOf(S))
    BY <2>1 DEF PrivateInv, CountsCanBeHad
  <2>3. Private!Frame(s) \subseteq Private!Frame(s)' /\ Private!Frame(s) \subseteq world.frame
    BY <1>1 DEF Private!Frame
  <2>. DEFINE A == RatedOf(S)
              B == RatedOf(S)'
  <2>4. ASSUME world'.edits = 0
        PROVE  disk.aggregates.cells_by_quarter[s].messages <= Cardinality(B)
    <3>1. S \in SUBSET Discussions /\ IsFiniteSet(S)
      <4>1. world.frame \subseteq Discussions /\ IsFiniteSet(world.frame)
        BY DEF PrivateInv, PrivateTypes, PrivateConstants
      <4>2. S \in SUBSET world.frame
        BY <2>2, <2>3
      <4>. HIDE DEF S
      <4>. QED
        BY <4>1, <4>2, FS_Subset
    <3>2. world.edits = 0 /\ \A t \in Discussions : Fetched(t, world.archive[t]) \subseteq Fetched(t, world'.archive[t])
      BY <2>4 DEF WorldGrows
    <3>3. A = {p \in FetchedOf(S, world.archive) : p.hash \in disk.cache}
          /\ B = {p \in FetchedOf(S, world'.archive) : p.hash \in disk.cache}
      BY <1>1 DEF RatedOf, CollectedOf
    <3>4. A \subseteq B
      <4>. HIDE DEF S, A, B
      <4>1. FetchedOf(S, world.archive) \subseteq FetchedOf(S, world'.archive)
        BY <3>1, <3>2 DEF FetchedOf
      <4>. QED
        BY <3>3, <4>1
    <3>5. IsFiniteSet(B)
      <4>. HIDE DEF S
      <4>1. IsFiniteSet(FetchedOf(S, world'.archive))
        BY <1>3, <3>1, FetchedParts DEF PrivateTypes, PrivateConstants
      <4>2. B \in SUBSET FetchedOf(S, world'.archive)
        BY <3>3
      <4>. HIDE DEF B
      <4>. QED
        BY <4>1, <4>2, FS_Subset
    <3>6. Cardinality(A) <= Cardinality(B) /\ Cardinality(A) \in Nat /\ Cardinality(B) \in Nat
      <4>. HIDE DEF A, B
      <4>. QED
        BY <3>4, <3>5, RatedGrow
    <3>. QED
      BY <2>2, <3>2, <3>6
  <2>. QED
    BY <2>2, <2>3, <2>4
<1>. QED
  BY <1>3, <1>4, <1>5, <1>6, <1>7 DEF PrivateInv
(* What a step that leaves the files alone keeps.                          *)
LEMMA AggregatesStay ==
  ASSUME PrivateConstants, PrivateInv, UNCHANGED faults, disk'.aggregates = disk.aggregates, disk.cache \subseteq disk'.cache,
         world'.frame = world.frame, world'.archive = world.archive, world'.edits = world.edits
  PROVE  CountsCanBeHad' /\ Private!FloorsHold'
<1>1. CountsCanBeHad /\ Private!FloorsHold /\ PrivateTypes
  BY DEF PrivateInv
<1>2. Private!FloorsHold'
  <2>1. Private!FloorInvariants(disk.aggregates)' = Private!FloorInvariants(disk.aggregates)
    BY DEF Private!FloorInvariants
  <2>. QED
    BY <1>1, <2>1 DEF Private!FloorsHold, Private!Told
<1>3. ASSUME disk.aggregates # << >>, NEW s \in Private!Strata
      PROVE  /\ disk.aggregates.strata[s].sampled \subseteq Private!Frame(s)'
             /\ disk.aggregates.cells_by_quarter[s].messages \in Nat
             /\ world.edits = 0 =>
                  disk.aggregates.cells_by_quarter[s].messages
                    <= Cardinality(RatedOf(disk.aggregates.strata[s].sampled)')
  <2>. DEFINE S == disk.aggregates.strata[s].sampled
              n == disk.aggregates.cells_by_quarter[s].messages
              A == RatedOf(S)
              B == {p \in FetchedOf(S, world.archive) : p.hash \in disk'.cache}
  <2>1. S \subseteq Private!Frame(s) /\ n \in Nat /\ (world.edits = 0 => n <= Cardinality(A))
    BY <1>1, <1>3 DEF CountsCanBeHad
  <2>2. Private!Frame(s)' = Private!Frame(s) /\ Private!Frame(s) \subseteq world.frame
    BY DEF Private!Frame
  <2>3. S \in SUBSET Discussions /\ IsFiniteSet(S)
    <3>1. world.frame \subseteq Discussions /\ IsFiniteSet(world.frame)
      BY <1>1 DEF PrivateTypes, PrivateConstants
    <3>2. S \in SUBSET world.frame
      BY <2>1, <2>2
    <3>. HIDE DEF S
    <3>. QED
      BY <3>1, <3>2, FS_Subset
  <2>4. A \subseteq B
    BY DEF RatedOf, CollectedOf
  <2>5. IsFiniteSet(B)
    <3>1. IsFiniteSet(FetchedOf(S, world.archive))
      <4>. HIDE DEF S
      <4>. QED
        BY <1>1, <2>3, FetchedParts DEF PrivateTypes, PrivateConstants
    <3>2. B \in SUBSET FetchedOf(S, world.archive)
      OBVIOUS
    <3>. HIDE DEF S, B
    <3>. QED
      BY <3>1, <3>2, FS_Subset
  <2>6. Cardinality(A) <= Cardinality(B) /\ Cardinality(A) \in Nat /\ Cardinality(B) \in Nat
    <3>. HIDE DEF A, B
    <3>. QED
      BY <2>4, <2>5, RatedGrow
  <2>7. B = RatedOf(disk.aggregates.strata[s].sampled)'
    BY DEF RatedOf, CollectedOf
  <2>8. world.edits = 0 => n <= Cardinality(B)
    <3>. HIDE DEF A, B, n
    <3>. QED
      BY <2>1, <2>6
  <2>. QED
    BY <2>1, <2>2, <2>7, <2>8
<1>. QED
  BY <1>2, <1>3 DEF CountsCanBeHad

LEMMA RowsStay ==
  ASSUME PrivateInv, disk'.threads = disk.threads, disk'.aggregates = disk.aggregates,
         disk'.patterns = disk.patterns, disk'.explorer = disk.explorer
  PROVE  RowsAreSampled'
BY DEF PrivateInv, RowsAreSampled, OfTheSample

LEMMA CoverageStays ==
  ASSUME PrivateInv, disk'.index = disk.index, disk'.threads = disk.threads, disk'.aggregates = disk.aggregates,
         disk.cache \subseteq disk'.cache
  PROVE  Private!CoverageIsHonest'
<1>1. Private!CoverageIsHonest
  BY DEF PrivateInv
<1>. QED
  BY <1>1 DEF Private!CoverageIsHonest, Private!Told

LEMMA OrderStays ==
  ASSUME PrivateInv, UNCHANGED faults, disk'.threads = disk.threads, disk'.aggregates = disk.aggregates,
         disk'.patterns = disk.patterns, disk'.explorer = disk.explorer, world'.runs = world.runs,
         RunUnderWay' => RunUnderWay,
         run'.stage \in {"classify", "index", "threads"} => run.stage \in {"classify", "index", "threads"}
  PROVE  RunsInOrder'
BY DEF PrivateInv, RunsInOrder, Earlier

LEMMA PublicationStays ==
  ASSUME PrivateInv, UNCHANGED faults, disk'.threads = disk.threads, disk'.aggregates = disk.aggregates,
         disk'.patterns = disk.patterns, disk'.explorer = disk.explorer, run'.stage # "publish",
         "kill" \in faults.what \/ run.stage # "publish",
         "kill" \in faults.what \/ run'.stage \in {"ledger", "aggregates"} \/ run.stage \notin {"ledger", "aggregates"}
  PROVE  PublishedInOrder'
<1>1. PublishedInOrder
  BY DEF PrivateInv
<1>. QED
  BY <1>1 DEF PublishedInOrder

(* A run begins: it fetches, and it is later than all files.               *)
LEMMA RunBegins ==
  ASSUME PrivateConstants, PrivateInv, NEW classify \in BOOLEAN, Private!BeginRun(classify)
  PROVE  PrivateInv'
<1>. DEFINE strata == Private!SampleAllStrata
            pending == UNION {Private!Collect(t) : t \in UNION {strata[s].sampled : s \in Private!Strata}}
            stage == IF classify THEN "classify" ELSE "index"
<1>1. /\ run.stage = "idle" /\ UNCHANGED <<faults, disk>>
      /\ world' = [world EXCEPT !.runs = world.runs + 1]
      /\ run' = [stage |-> stage, strata |-> strata, pending |-> pending, calls |-> 0, skipped |-> {},
                 paused |-> FALSE, begun |-> world.runs + 1]
  BY DEF Private!BeginRun, Private!NoRun
<1>2. PrivateTypes
  BY DEF PrivateInv
<1>3. /\ world'.frame = world.frame /\ world'.archive = world.archive /\ world'.posts = world.posts
      /\ world'.edits = world.edits /\ world'.runs = world.runs + 1
      /\ world' = [frame |-> world'.frame, archive |-> world'.archive, posts |-> world'.posts,
                   edits |-> world'.edits, runs |-> world'.runs]
  BY <1>1, <1>2 DEF PrivateTypes
<1>. HIDE DEF strata, pending, stage
<1>4. /\ run'.stage = stage /\ run'.strata = strata /\ run'.pending = pending /\ run'.skipped = {}
      /\ run'.begun = world.runs + 1
      /\ run' = [stage |-> run'.stage, strata |-> run'.strata, pending |-> run'.pending, calls |-> run'.calls,
                 skipped |-> run'.skipped, paused |-> run'.paused, begun |-> run'.begun]
  BY <1>1
<1>5. stage \in {"classify", "index"}
  BY DEF stage
<1>6. PrivateTypes'
  <2>1. world'.runs \in Nat
    BY <1>2, <1>3 DEF PrivateTypes
  <2>2. disk' = [cache |-> disk'.cache, index |-> disk'.index, threads |-> disk'.threads, ledger |-> disk'.ledger,
                 aggregates |-> disk'.aggregates, manifest |-> disk'.manifest, patterns |-> disk'.patterns,
                 explorer |-> disk'.explorer]
    BY <1>1, <1>2 DEF PrivateTypes
  <2>. QED
    BY <1>1, <1>2, <1>3, <1>4, <2>1, <2>2 DEF PrivateTypes
<1>7. RunHasFetched'
  <2>1. pending = CollectedOf(Sampled(strata))
    BY CollectIsFetched DEF pending, CollectedOf, FetchedOf, Sampled
  <2>2. CollectedOf(Sampled(run.strata))' = CollectedOf(Sampled(strata))
    BY <1>3, <1>4 DEF CollectedOf, Sampled
  <2>3. \A s \in Private!Strata : strata[s].sampled \subseteq Private!Frame(s)
    BY DEF strata, Private!SampleAllStrata, Private!SampleStratum, Private!DeterministicSample
  <2>4. \A s : Private!Frame(s)' = Private!Frame(s)
    BY <1>3 DEF Private!Frame
  <2>. QED
    BY <1>3, <1>4, <2>1, <2>2, <2>3, <2>4 DEF RunHasFetched
<1>8. FilesOfRun'
  BY <1>4, <1>5 DEF FilesOfRun
<1>9. RunsInOrder'
  <2>1. RunsInOrder /\ world.runs \in Nat
    BY <1>2 DEF PrivateInv, PrivateTypes
  <2>2. \A n \in Nat : n <= world.runs => n <= world'.runs /\ n < world'.runs
    BY <1>3, <2>1
  <2>. QED
    BY <1>1, <2>1, <2>2 DEF RunsInOrder, Earlier
<1>10. PublishedInOrder'
  BY <1>1, <1>4, <1>5, PublicationStays
<1>11. CountsCanBeHad' /\ Private!FloorsHold'
  BY <1>1, <1>3, AggregatesStay
<1>12. RowsAreSampled' /\ Private!CoverageIsHonest'
  BY <1>1, RowsStay, CoverageStays
<1>. QED
  BY <1>6, <1>7, <1>8, <1>9, <1>10, <1>11, <1>12 DEF PrivateInv

(* Steps that change no file but the cache.                                *)
LEMMA RunGoesOn ==
  ASSUME PrivateConstants, PrivateInv, UNCHANGED <<faults, world>>,
         disk'.threads = disk.threads, disk'.aggregates = disk.aggregates, disk'.patterns = disk.patterns,
         disk'.explorer = disk.explorer, disk'.index = disk.index, disk.cache \subseteq disk'.cache,
         PrivateTypes', RunHasFetched', FilesOfRun',
         RunUnderWay' => RunUnderWay,
         run'.stage \in {"classify", "index", "threads"} => run.stage \in {"classify", "index", "threads"},
         run'.stage # "publish",
         "kill" \in faults.what \/ run.stage # "publish",
         "kill" \in faults.what \/ run'.stage \in {"ledger", "aggregates"} \/ run.stage \notin {"ledger", "aggregates"}
  PROVE  PrivateInv'
<1>1. RunsInOrder'
  BY OrderStays
<1>2. PublishedInOrder'
  BY PublicationStays
<1>3. CountsCanBeHad' /\ Private!FloorsHold'
  BY AggregatesStay
<1>4. RowsAreSampled' /\ Private!CoverageIsHonest'
  BY RowsStay, CoverageStays
<1>. QED
  BY <1>1, <1>2, <1>3, <1>4 DEF PrivateInv

LEMMA RunRates ==
  ASSUME PrivateConstants, PrivateInv,
         \/ Private!EndClassification
         \/ \E h \in Private!Hashes : Private!Classify(h) \/ Private!Skip(h)
  PROVE  PrivateInv'
<1>1. PrivateTypes /\ RunHasFetched
  BY DEF PrivateInv
<1>2. ASSUME Private!EndClassification
      PROVE  PrivateInv'
  <2>. DEFINE paused == Private!ToRate # {}
  <2>1. /\ run.stage = "classify" /\ UNCHANGED <<faults, world, disk>>
        /\ run' = [run EXCEPT !.stage = "index", !.paused = paused]
    BY <1>2 DEF Private!EndClassification
  <2>. HIDE DEF paused
  <2>2. /\ run'.stage = "index" /\ run'.strata = run.strata /\ run'.pending = run.pending
        /\ run'.skipped = run.skipped /\ run'.begun = run.begun
        /\ run' = [stage |-> run'.stage, strata |-> run'.strata, pending |-> run'.pending, calls |-> run'.calls,
                   skipped |-> run'.skipped, paused |-> run'.paused, begun |-> run'.begun]
    BY <1>1, <2>1 DEF PrivateTypes
  <2>3. PrivateTypes'
    BY <1>1, <2>1, <2>2 DEF PrivateTypes
  <2>4. RunHasFetched'
    BY <1>1, <2>1, <2>2 DEF RunHasFetched, RunUnderWay, CollectedOf, Sampled, Private!Frame
  <2>5. FilesOfRun'
    BY <2>2 DEF FilesOfRun
  <2>. QED
    BY <2>1, <2>2, <2>3, <2>4, <2>5, RunGoesOn DEF RunUnderWay
<1>3. ASSUME NEW h \in Private!Hashes, Private!Classify(h)
      PROVE  PrivateInv'
  <2>. DEFINE cache == disk.cache \cup {h}
  <2>1. /\ run.stage = "classify" /\ h \in Private!ToRate /\ UNCHANGED <<faults, world>>
        /\ disk' = [disk EXCEPT !.cache = cache]
        /\ run' = [run EXCEPT !.calls = run.calls + 1]
    BY <1>3 DEF Private!Classify
  <2>2. h \notin run.skipped /\ disk.cache \subseteq cache /\ run.skipped \cap cache = {}
    BY <1>1, <2>1 DEF Private!ToRate, RunHasFetched, RunUnderWay
  <2>. HIDE DEF cache
  <2>3. /\ run'.stage = "classify" /\ run'.strata = run.strata /\ run'.pending = run.pending
        /\ run'.skipped = run.skipped /\ run'.begun = run.begun
        /\ run' = [stage |-> run'.stage, strata |-> run'.strata, pending |-> run'.pending, calls |-> run'.calls,
                   skipped |-> run'.skipped, paused |-> run'.paused, begun |-> run'.begun]
    BY <1>1, <2>1 DEF PrivateTypes
  <2>4. /\ disk'.cache = cache /\ disk'.index = disk.index /\ disk'.threads = disk.threads
        /\ disk'.aggregates = disk.aggregates /\ disk'.patterns = disk.patterns /\ disk'.explorer = disk.explorer
        /\ disk' = [cache |-> disk'.cache, index |-> disk'.index, threads |-> disk'.threads, ledger |-> disk'.ledger,
                    aggregates |-> disk'.aggregates, manifest |-> disk'.manifest, patterns |-> disk'.patterns,
                    explorer |-> disk'.explorer]
    BY <1>1, <2>1 DEF PrivateTypes
  <2>5. PrivateTypes'
    BY <1>1, <2>1, <2>3, <2>4 DEF PrivateTypes
  <2>6. RunHasFetched'
    BY <1>1, <2>1, <2>2, <2>3, <2>4 DEF RunHasFetched, RunUnderWay, CollectedOf, Sampled, Private!Frame
  <2>7. FilesOfRun'
    BY <2>3 DEF FilesOfRun
  <2>. QED
    BY <2>1, <2>2, <2>3, <2>4, <2>5, <2>6, <2>7, RunGoesOn DEF RunUnderWay
<1>4. ASSUME NEW h \in Private!Hashes, Private!Skip(h)
      PROVE  PrivateInv'
  <2>. DEFINE skipped == run.skipped \cup {h}
  <2>1. /\ run.stage = "classify" /\ h \in Private!ToRate /\ UNCHANGED <<faults, world, disk>>
        /\ run' = [run EXCEPT !.skipped = skipped]
    BY <1>4 DEF Private!Skip
  <2>2. skipped \subseteq {p.hash : p \in run.pending} /\ skipped \cap disk.cache = {}
    BY <1>1, <2>1 DEF Private!ToRate, RunHasFetched, RunUnderWay
  <2>. HIDE DEF skipped
  <2>3. /\ run'.stage = "classify" /\ run'.strata = run.strata /\ run'.pending = run.pending
        /\ run'.skipped = skipped /\ run'.begun = run.begun
        /\ run' = [stage |-> run'.stage, strata |-> run'.strata, pending |-> run'.pending, calls |-> run'.calls,
                   skipped |-> run'.skipped, paused |-> run'.paused, begun |-> run'.begun]
    BY <1>1, <2>1 DEF PrivateTypes
  <2>4. PrivateTypes'
    BY <1>1, <2>1, <2>3 DEF PrivateTypes
  <2>5. RunHasFetched'
    BY <1>1, <2>1, <2>2, <2>3 DEF RunHasFetched, RunUnderWay, CollectedOf, Sampled, Private!Frame
  <2>6. FilesOfRun'
    BY <2>3 DEF FilesOfRun
  <2>. QED
    BY <2>1, <2>3, <2>4, <2>5, <2>6, RunGoesOn DEF RunUnderWay
<1>. QED
  BY <1>2, <1>3, <1>4
LEMMA FilesAreFiles == \A a, b, c : [run |-> a, rows |-> b] # << >> /\ [run |-> a, entries |-> c] # << >>
<1>. TAKE a, b, c
<1>1. "run" \in DOMAIN [run |-> a, rows |-> b] /\ "run" \in DOMAIN [run |-> a, entries |-> c] /\ DOMAIN << >> = {}
  OBVIOUS
<1>. QED
  BY <1>1

(* A row is of a thread of the sample.                                     *)
LEMMA RowsAreOfTheSample ==
  ASSUME PrivateConstants, PrivateInv, RunUnderWay, NEW r \in {Private!ThreadRow(p.thread) : p \in Private!FanOut}
  PROVE  /\ r.thread \in faults.threads
         /\ \A s \in Private!Strata :
              <<VenueOf[r.thread], QuarterOf[r.thread]>> = s => r.thread \in run.strata[s].sampled
<1>1. PICK p \in run.pending : r.thread = p.thread
  <2>1. PICK p \in Private!FanOut : r = Private!ThreadRow(p.thread)
    OBVIOUS
  <2>2. \A t, a, b, c : [thread |-> t, quarter |-> a, n_messages |-> b, n_distinct_participants |-> c].thread = t
    OBVIOUS
  <2>3. Private!ThreadRow(p.thread).thread = p.thread
    BY ONLY <2>2 DEF Private!ThreadRow
  <2>. QED
    BY <2>1, <2>3 DEF Private!FanOut
<1>2. p.thread \in Sampled(run.strata) /\ Sampled(run.strata) \subseteq world.frame
  BY StratumIsOfItsSample DEF PrivateInv
<1>3. PICK z \in Private!Strata : p.thread \in run.strata[z].sampled
  BY <1>2 DEF Sampled
<1>4. <<VenueOf[p.thread], QuarterOf[p.thread]>> = z
  BY <1>3 DEF PrivateInv, RunHasFetched, Private!Frame
<1>. QED
  BY <1>1, <1>2, <1>3, <1>4 DEF PrivateInv, PrivateTypes

LEMMA RunWrites ==
  ASSUME PrivateConstants, PrivateInv,
         Private!SampleOnly \/ Private!WriteMessageIndex \/ Private!WriteThreads \/ Private!AppendCostLedgerEntry
  PROVE  PrivateInv'
<1>1. PrivateTypes /\ RunHasFetched /\ FilesOfRun /\ RunsInOrder /\ world.runs \in Nat
  BY DEF PrivateInv, PrivateTypes
<1>2. CASE Private!SampleOnly
  <2>. DEFINE manifest == Private!SampleAllStrata
  <2>1. /\ run.stage = "idle" /\ UNCHANGED <<faults, world, run>>
        /\ disk' = [disk EXCEPT !.manifest = manifest]
    BY <1>2 DEF Private!SampleOnly
  <2>. HIDE DEF manifest
  <2>2. /\ disk'.cache = disk.cache /\ disk'.index = disk.index /\ disk'.threads = disk.threads
        /\ disk'.aggregates = disk.aggregates /\ disk'.patterns = disk.patterns /\ disk'.explorer = disk.explorer
        /\ disk' = [cache |-> disk'.cache, index |-> disk'.index, threads |-> disk'.threads, ledger |-> disk'.ledger,
                    aggregates |-> disk'.aggregates, manifest |-> disk'.manifest, patterns |-> disk'.patterns,
                    explorer |-> disk'.explorer]
    BY <1>1, <2>1 DEF PrivateTypes
  <2>3. PrivateTypes'
    BY <1>1, <2>1, <2>2 DEF PrivateTypes
  <2>4. ~RunUnderWay' /\ run'.stage \notin {"threads", "ledger", "aggregates"}
    BY <2>1 DEF RunUnderWay
  <2>5. RunHasFetched' /\ FilesOfRun'
    BY <2>4 DEF RunHasFetched, FilesOfRun
  <2>. QED
    BY <2>1, <2>2, <2>3, <2>4, <2>5, RunGoesOn
<1>3. CASE Private!AppendCostLedgerEntry
  <2>. DEFINE ledger == Append(disk.ledger, run.calls)
  <2>1. /\ run.stage = "ledger" /\ UNCHANGED <<faults, world>>
        /\ disk' = [disk EXCEPT !.ledger = ledger]
        /\ run' = [run EXCEPT !.stage = "aggregates"]
    BY <1>3 DEF Private!AppendCostLedgerEntry
  <2>. HIDE DEF ledger
  <2>2. /\ disk'.cache = disk.cache /\ disk'.index = disk.index /\ disk'.threads = disk.threads
        /\ disk'.aggregates = disk.aggregates /\ disk'.patterns = disk.patterns /\ disk'.explorer = disk.explorer
        /\ disk' = [cache |-> disk'.cache, index |-> disk'.index, threads |-> disk'.threads, ledger |-> disk'.ledger,
                    aggregates |-> disk'.aggregates, manifest |-> disk'.manifest, patterns |-> disk'.patterns,
                    explorer |-> disk'.explorer]
    BY <1>1, <2>1 DEF PrivateTypes
  <2>3. /\ run'.stage = "aggregates" /\ run'.strata = run.strata /\ run'.pending = run.pending
        /\ run'.skipped = run.skipped /\ run'.begun = run.begun
        /\ run' = [stage |-> run'.stage, strata |-> run'.strata, pending |-> run'.pending, calls |-> run'.calls,
                   skipped |-> run'.skipped, paused |-> run'.paused, begun |-> run'.begun]
    BY <1>1, <2>1 DEF PrivateTypes
  <2>4. PrivateTypes'
    BY <1>1, <2>1, <2>2, <2>3 DEF PrivateTypes
  <2>5. RunHasFetched'
    BY <1>1, <2>1, <2>2, <2>3 DEF RunHasFetched, RunUnderWay, CollectedOf, Sampled, Private!Frame
  <2>6. FilesOfRun'
    <3>1. Private!FanOut' = Private!FanOut
      BY <2>2, <2>3 DEF Private!FanOut
    <3>. QED
      BY <1>1, <2>1, <2>2, <2>3, <3>1 DEF FilesOfRun, Private!ThreadRow
  <2>. QED
    BY <2>1, <2>2, <2>3, <2>4, <2>5, <2>6, RunGoesOn DEF RunUnderWay
<1>4. CASE Private!WriteMessageIndex
  <2>. DEFINE index == [run |-> run.begun, entries |-> run.pending]
  <2>1. /\ run.stage = "index" /\ UNCHANGED <<faults, world>>
        /\ disk' = [disk EXCEPT !.index = index]
        /\ run' = [run EXCEPT !.stage = "threads"]
    BY <1>4 DEF Private!WriteMessageIndex
  <2>. HIDE DEF index
  <2>2. /\ disk'.cache = disk.cache /\ disk'.index = index /\ disk'.threads = disk.threads
        /\ disk'.aggregates = disk.aggregates /\ disk'.patterns = disk.patterns /\ disk'.explorer = disk.explorer
        /\ disk' = [cache |-> disk'.cache, index |-> disk'.index, threads |-> disk'.threads, ledger |-> disk'.ledger,
                    aggregates |-> disk'.aggregates, manifest |-> disk'.manifest, patterns |-> disk'.patterns,
                    explorer |-> disk'.explorer]
    BY <1>1, <2>1 DEF PrivateTypes
  <2>3. /\ run'.stage = "threads" /\ run'.strata = run.strata /\ run'.pending = run.pending
        /\ run'.skipped = run.skipped /\ run'.begun = run.begun
        /\ run' = [stage |-> run'.stage, strata |-> run'.strata, pending |-> run'.pending, calls |-> run'.calls,
                   skipped |-> run'.skipped, paused |-> run'.paused, begun |-> run'.begun]
    BY <1>1, <2>1 DEF PrivateTypes
  <2>4. PrivateTypes'
    BY <1>1, <2>1, <2>2, <2>3 DEF PrivateTypes
  <2>5. RunHasFetched'
    BY <1>1, <2>1, <2>2, <2>3 DEF RunHasFetched, RunUnderWay, CollectedOf, Sampled, Private!Frame
  <2>6. FilesOfRun'
    BY <2>2, <2>3 DEF FilesOfRun, index
  <2>7. RunsInOrder'
    BY <2>1, <2>2, <2>3, OrderStays DEF RunUnderWay
  <2>8. PublishedInOrder'
    BY <2>1, <2>2, <2>3, PublicationStays
  <2>9. CountsCanBeHad' /\ Private!FloorsHold' /\ RowsAreSampled'
    BY <2>1, <2>2, AggregatesStay, RowsStay
  <2>10. Private!CoverageIsHonest'
    <3>1. index.run = world.runs /\ RunUnderWay
      BY <1>1, <2>1 DEF index, RunHasFetched, RunUnderWay
    <3>2. disk.aggregates # << >> => disk.aggregates.run < world.runs /\ disk.aggregates.run \in Nat
      BY <1>1, <3>1 DEF RunsInOrder, Earlier
    <3>3. disk.aggregates # << >> => disk'.index.run # disk.aggregates.run
      BY <1>1, <2>2, <3>1, <3>2
    <3>4. Private!CoverageIsHonest
      BY DEF PrivateInv
    <3>. QED
      BY <2>2, <3>3, <3>4 DEF Private!CoverageIsHonest, Private!Told
  <2>. QED
    BY <2>4, <2>5, <2>6, <2>7, <2>8, <2>9, <2>10 DEF PrivateInv
<1>5. CASE Private!WriteThreads
  <2>. DEFINE rows == {Private!ThreadRow(p.thread) : p \in Private!FanOut}
              file == [run |-> run.begun, rows |-> rows]
  <2>1. /\ run.stage = "threads" /\ UNCHANGED <<faults, world>>
        /\ disk' = [disk EXCEPT !.threads = file]
        /\ run' = [run EXCEPT !.stage = "ledger"]
    BY <1>5 DEF Private!WriteThreads
  <2>2. \A r \in rows : r.thread \in faults.threads
    BY <2>1, RowsAreOfTheSample DEF RunUnderWay
  <2>. HIDE DEF rows
  <2>3. file # << >> /\ file.run = run.begun /\ file.rows = rows
    BY FilesAreFiles
  <2>. HIDE DEF file
  <2>4. /\ disk'.cache = disk.cache /\ disk'.index = disk.index /\ disk'.threads = file
        /\ disk'.aggregates = disk.aggregates /\ disk'.patterns = disk.patterns /\ disk'.explorer = disk.explorer
        /\ disk' = [cache |-> disk'.cache, index |-> disk'.index, threads |-> disk'.threads, ledger |-> disk'.ledger,
                    aggregates |-> disk'.aggregates, manifest |-> disk'.manifest, patterns |-> disk'.patterns,
                    explorer |-> disk'.explorer]
    BY <1>1, <2>1 DEF PrivateTypes
  <2>5. /\ run'.stage = "ledger" /\ run'.strata = run.strata /\ run'.pending = run.pending
        /\ run'.skipped = run.skipped /\ run'.begun = run.begun
        /\ run' = [stage |-> run'.stage, strata |-> run'.strata, pending |-> run'.pending, calls |-> run'.calls,
                   skipped |-> run'.skipped, paused |-> run'.paused, begun |-> run'.begun]
    BY <1>1, <2>1 DEF PrivateTypes
  <2>6. run.begun = world.runs /\ RunUnderWay /\ RunUnderWay' /\ disk.index = [run |-> run.begun, entries |-> run.pending]
    BY <1>1, <2>1, <2>5 DEF RunHasFetched, RunUnderWay, FilesOfRun
  <2>7. /\ disk.aggregates # << >> => disk.aggregates.run \in Nat /\ disk.aggregates.run < world.runs
        /\ disk.patterns # << >> => disk.patterns.run \in Nat /\ disk.patterns.run < world.runs
    BY <1>1, <2>6 DEF RunsInOrder, Earlier
  <2>8. PrivateTypes'
    BY <1>1, <2>1, <2>4, <2>5 DEF PrivateTypes
  <2>9. RunHasFetched'
    BY <1>1, <2>1, <2>4, <2>5 DEF RunHasFetched, RunUnderWay, CollectedOf, Sampled, Private!Frame
  <2>10. FilesOfRun'
    <3>1. Private!FanOut' = Private!FanOut
      BY <2>4, <2>5 DEF Private!FanOut
    <3>2. {Private!ThreadRow(p.thread) : p \in Private!FanOut}' = rows
      BY <3>1 DEF rows, Private!ThreadRow
    <3>. QED
      BY <2>4, <2>5, <2>6, <3>2 DEF FilesOfRun, file
  <2>11. RunsInOrder'
    <3>1. world.runs <= world.runs
      BY <1>1
    <3>. QED
      BY <1>1, <2>1, <2>2, <2>3, <2>4, <2>5, <2>6, <3>1 DEF RunsInOrder, Earlier
  <2>12. RowsAreSampled'
    <3>1. /\ disk.aggregates # << >> => file.run # disk.aggregates.run
          /\ disk.patterns # << >> => file.run # disk.patterns.run
      BY <1>1, <2>3, <2>6, <2>7
    <3>2. RowsAreSampled
      BY DEF PrivateInv
    <3>. QED
      BY <2>4, <3>1, <3>2 DEF RowsAreSampled, OfTheSample
  <2>13. PublishedInOrder'
    <3>1. PublishedInOrder
      BY DEF PrivateInv
    <3>. QED
      BY <2>1, <2>4, <2>5, <3>1 DEF PublishedInOrder
  <2>14. CountsCanBeHad' /\ Private!FloorsHold'
    BY <2>1, <2>4, AggregatesStay
  <2>15. Private!CoverageIsHonest'
    <3>1. disk.aggregates # << >> => disk'.index.run # disk.aggregates.run
      BY <1>1, <2>4, <2>6, <2>7
    <3>2. Private!CoverageIsHonest
      BY DEF PrivateInv
    <3>. QED
      BY <2>4, <3>1, <3>2 DEF Private!CoverageIsHonest, Private!Told
  <2>. QED
    BY <2>8, <2>9, <2>10, <2>11, <2>12, <2>13, <2>14, <2>15 DEF PrivateInv
<1>. QED
  BY <1>2, <1>3, <1>4, <1>5
(* A row of a thread that is all rated has all its messages.               *)
LEMMA WholeRows ==
  ASSUME Private!FanOut = run.pending, NEW p \in run.pending
  PROVE  \E r \in {Private!ThreadRow(q.thread) : q \in Private!FanOut} :
           r.thread = p.thread /\
           r.n_messages = Private!Cardinality({o \in run.pending : o.thread = p.thread})
<1>. DEFINE r == Private!ThreadRow(p.thread)
<1>1. \A t, a, b, c : LET x == [thread |-> t, quarter |-> a, n_messages |-> b, n_distinct_participants |-> c]
                      IN  x.thread = t /\ x.n_messages = b
  OBVIOUS
<1>2. r.thread = p.thread /\ r.n_messages = Private!Cardinality({o \in Private!FanOut : o.thread = p.thread})
  BY ONLY <1>1 DEF Private!ThreadRow
<1>3. r \in {Private!ThreadRow(q.thread) : q \in Private!FanOut}
  OBVIOUS
<1>. HIDE DEF r
<1>. QED
  BY <1>2, <1>3

(* The run ends with its aggregates.                                       *)
LEMMA RunTells == PrivateConstants /\ PrivateInv /\ Private!WriteAggregates => PrivateInv'
<1>. SUFFICES ASSUME PrivateConstants, PrivateInv, Private!WriteAggregates PROVE PrivateInv'
  OBVIOUS
<1>. DEFINE told == Private!Aggregates
            rows == {Private!ThreadRow(p.thread) : p \in Private!FanOut}
<1>1. /\ run.stage = "aggregates" /\ UNCHANGED <<faults, world>>
      /\ disk' = [disk EXCEPT !.aggregates = told]
      /\ run' = [stage |-> "idle", strata |-> << >>, pending |-> {}, calls |-> 0, skipped |-> {},
                 paused |-> FALSE, begun |-> 0]
  BY DEF Private!WriteAggregates, Private!NoRun
<1>2. PrivateTypes /\ RunHasFetched /\ FilesOfRun /\ RunsInOrder /\ RowsAreSampled /\ PublishedInOrder /\ RunUnderWay
  BY <1>1 DEF PrivateInv, RunUnderWay
<1>3. /\ told # << >> /\ {"run", "strata"} \subseteq DOMAIN told
      /\ told.run = run.begun /\ told.strata = run.strata /\ told.partial_run = Private!PartialRun
      /\ \A s \in Private!Strata :
           told.cells_by_quarter[s].messages = Cardinality(Private!StratumMessages(Private!FanOut, s))
      /\ Private!FloorInvariants(told)
  BY AggregatesTold
<1>4. /\ \A r \in rows : r.thread \in faults.threads
      /\ \A r \in rows : \A s \in Private!Strata :
           <<VenueOf[r.thread], QuarterOf[r.thread]>> = s => r.thread \in run.strata[s].sampled
  BY <1>2, RowsAreOfTheSample
<1>. HIDE DEF told, rows
<1>5. /\ disk'.cache = disk.cache /\ disk'.index = disk.index /\ disk'.threads = disk.threads
      /\ disk'.aggregates = told /\ disk'.patterns = disk.patterns /\ disk'.explorer = disk.explorer
      /\ disk' = [cache |-> disk'.cache, index |-> disk'.index, threads |-> disk'.threads, ledger |-> disk'.ledger,
                  aggregates |-> disk'.aggregates, manifest |-> disk'.manifest, patterns |-> disk'.patterns,
                  explorer |-> disk'.explorer]
  BY <1>1, <1>2 DEF PrivateTypes
<1>6. ~RunUnderWay' /\ run'.stage = "idle"
  BY <1>1 DEF RunUnderWay
<1>7. /\ run.begun = world.runs /\ world.runs \in Nat
      /\ disk.index = [run |-> run.begun, entries |-> run.pending]
      /\ disk.threads = [run |-> run.begun, rows |-> rows]
  BY <1>1, <1>2 DEF RunHasFetched, FilesOfRun, PrivateTypes, rows
<1>8. /\ disk.index.run = run.begun /\ disk.index.entries = run.pending
      /\ disk.threads # << >> /\ disk.threads.run = run.begun /\ disk.threads.rows = rows
  BY <1>7, FilesAreFiles
<1>9. /\ disk.patterns # << >> => disk.patterns.run \in Nat /\ disk.patterns.run < world.runs
      /\ disk.explorer # << >> => disk.explorer.run \in Nat /\ disk.explorer.run < world.runs
  BY <1>2 DEF RunsInOrder, Earlier
<1>10. PrivateTypes'
  BY <1>1, <1>2, <1>5, <1>6 DEF PrivateTypes
<1>11. RunHasFetched' /\ FilesOfRun'
  BY <1>6 DEF RunHasFetched, FilesOfRun
<1>12. RunsInOrder'
  <2>1. /\ told.run \in Nat /\ told.run <= world.runs /\ disk.threads.run \in Nat /\ disk.threads.run <= world.runs
    BY <1>3, <1>7, <1>8
  <2>2. /\ disk.patterns # << >> => disk.patterns.run <= world.runs
        /\ disk.explorer # << >> => disk.explorer.run <= world.runs
    BY <1>7, <1>9
  <2>. QED
    BY <1>1, <1>3, <1>4, <1>5, <1>6, <1>8, <1>9, <2>1, <2>2 DEF RunsInOrder, Earlier
<1>13. RowsAreSampled'
  <2>1. /\ disk.patterns # << >> => disk.patterns.run # run.begun
        /\ disk.explorer # << >> => disk.explorer.run # run.begun
    BY <1>7, <1>9
  <2>2. OfTheSample(disk.threads, told)
    BY <1>3, <1>4, <1>8 DEF OfTheSample
  <2>3. OfTheSample(disk.explorer, told)
    BY <1>3, <2>1 DEF OfTheSample
  <2>. QED
    BY <1>2, <1>5, <2>2, <2>3 DEF RowsAreSampled
<1>14. PublishedInOrder'
  BY <1>1, <1>2, <1>3, <1>5, <1>6, <1>8 DEF PublishedInOrder
<1>15. CountsCanBeHad'
  <2>1. ASSUME NEW s \in Private!Strata
        PROVE  /\ told.strata[s].sampled \subseteq Private!Frame(s)'
               /\ told.cells_by_quarter[s].messages \in Nat
               /\ told.cells_by_quarter[s].messages <= Cardinality({p \in FetchedOf(told.strata[s].sampled, world.archive) : p.hash \in disk.cache})
    <3>1. run.strata[s].sampled \subseteq Private!Frame(s) /\ Private!Frame(s)' = Private!Frame(s)
      BY <1>1, <1>2 DEF RunHasFetched, Private!Frame
    <3>. DEFINE C == Private!StratumMessages(Private!FanOut, s)
    <3>2. C = RatedOf(run.strata[s].sampled) /\ C \subseteq run.pending /\ IsFiniteSet(run.pending)
      <4>1. C \subseteq run.pending
        BY DEF Private!StratumMessages, Private!FanOut
      <4>. HIDE DEF C
      <4>. QED
        BY <1>2, <4>1, StratumIsOfItsSample DEF C
    <3>3. RatedOf(run.strata[s].sampled)
            = {p \in FetchedOf(told.strata[s].sampled, world.archive) : p.hash \in disk.cache}
      BY <1>3 DEF RatedOf, CollectedOf
    <3>4. told.cells_by_quarter[s].messages = Cardinality(C)
      BY <1>3
    <3>. HIDE DEF C
    <3>5. Cardinality(C) \in Nat
      BY <3>2, RatedGrow
    <3>6. told.strata[s].sampled \subseteq Private!Frame(s)'
      BY <1>3, <3>1
    <3>. DEFINE D == {p \in FetchedOf(told.strata[s].sampled, world.archive) : p.hash \in disk.cache}
    <3>7. C = D
      BY <3>2, <3>3
    <3>. HIDE DEF D
    <3>8. Cardinality(C) <= Cardinality(D)
      BY <3>5, <3>7
    <3>. QED
      BY <3>4, <3>5, <3>6, <3>8 DEF D
  <2>2. \A S : RatedOf(S)' = {p \in FetchedOf(S', world.archive) : p.hash \in disk.cache}
    BY <1>1, <1>5 DEF RatedOf, CollectedOf
  <2>. QED
    BY <1>1, <1>5, <2>1, <2>2 DEF CountsCanBeHad
<1>16. Private!CoverageIsHonest'
  <2>1. /\ Private!PartialRun = << >> => Private!FanOut = run.pending
        /\ Private!PartialRun # << >> =>
             \E s \in Private!Strata :
               Private!PartialRun.coverage_by_stratum[s].classified < Private!PartialRun.coverage_by_stratum[s].sampled
    BY <1>2, PartialIsTold
  <2>2. ASSUME Private!FanOut = run.pending
        PROVE  /\ {p.hash : p \in run.pending} \subseteq disk.cache
               /\ \A p \in run.pending : \E r \in rows :
                    r.thread = p.thread /\
                    r.n_messages = Private!Cardinality({o \in run.pending : o.thread = p.thread})
    <3>1. {p.hash : p \in run.pending} \subseteq disk.cache
      BY <2>2 DEF Private!FanOut
    <3>. QED
      BY <2>2, <3>1, WholeRows DEF rows
  <2>. QED
    BY <1>3, <1>5, <1>8, <2>1, <2>2 DEF Private!CoverageIsHonest, Private!Told
<1>17. Private!FloorsHold'
  <2>1. Private!FloorInvariants(told)' = Private!FloorInvariants(told')
    BY DEF Private!FloorInvariants
  <2>. QED
    BY <1>3, <1>5 DEF Private!FloorsHold, Private!Told, Private!FloorInvariants
<1>. QED
  BY <1>10, <1>11, <1>12, <1>13, <1>14, <1>15, <1>16, <1>17 DEF PrivateInv

LEMMA RunIsKilled == PrivateConstants /\ PrivateInv /\ Private!Kill => PrivateInv'
<1>. SUFFICES ASSUME PrivateConstants, PrivateInv, Private!Kill PROVE PrivateInv'
  OBVIOUS
<1>1. /\ "kill" \in faults.what /\ UNCHANGED <<faults, world, disk>>
      /\ run' = [stage |-> "idle", strata |-> << >>, pending |-> {}, calls |-> 0, skipped |-> {},
                 paused |-> FALSE, begun |-> 0]
  BY DEF Private!Kill, Private!NoRun
<1>2. run'.stage = "idle" /\ ~RunUnderWay'
  BY <1>1 DEF RunUnderWay
<1>3. PrivateTypes'
  BY <1>1, <1>2 DEF PrivateInv, PrivateTypes
<1>4. RunHasFetched' /\ FilesOfRun'
  BY <1>2 DEF RunHasFetched, FilesOfRun
<1>. QED
  BY <1>1, <1>2, <1>3, <1>4, RunGoesOn

(* The two steps of the publication.                                       *)
LEMMA RunPublishes ==
  PrivateConstants /\ PrivateInv /\ (Private!PublishAggregates \/ Private!PublishThreads) => PrivateInv'
<1>. SUFFICES ASSUME PrivateConstants, PrivateInv, Private!PublishAggregates \/ Private!PublishThreads
              PROVE  PrivateInv'
  OBVIOUS
<1>1. PrivateTypes /\ RunsInOrder /\ RowsAreSampled /\ PublishedInOrder
  BY DEF PrivateInv
<1>2. CASE Private!PublishAggregates
  <2>. DEFINE cost == [latest |-> disk.aggregates.cost.latest,
                       cumulative |-> disk.aggregates.cost.cumulative_from_ledger_runs]
              public == [disk.aggregates EXCEPT !.cost = cost]
  <2>1. /\ run.stage = "idle" /\ disk.aggregates # << >> /\ UNCHANGED <<faults, world>>
        /\ disk' = [disk EXCEPT !.patterns = public]
        /\ run' = [run EXCEPT !.stage = "publish"]
    BY <1>2 DEF Private!PublishAggregates, Private!SanitizeAggregates
  <2>. HIDE DEF cost
  <2>2. "run" \in DOMAIN disk.aggregates /\ "strata" \in DOMAIN disk.aggregates
    BY <1>1, <2>1 DEF RunsInOrder
  <2>3. public # << >> /\ public.run = disk.aggregates.run /\ public.strata = disk.aggregates.strata
    <3>1. DOMAIN << >> = {} /\ DOMAIN public = DOMAIN disk.aggregates
      OBVIOUS
    <3>2. public # << >>
      BY <2>2, <3>1
    <3>. QED
      BY <2>2, <3>2
  <2>. HIDE DEF public
  <2>4. /\ disk'.cache = disk.cache /\ disk'.index = disk.index /\ disk'.threads = disk.threads
        /\ disk'.aggregates = disk.aggregates /\ disk'.patterns = public /\ disk'.explorer = disk.explorer
        /\ disk' = [cache |-> disk'.cache, index |-> disk'.index, threads |-> disk'.threads, ledger |-> disk'.ledger,
                    aggregates |-> disk'.aggregates, manifest |-> disk'.manifest, patterns |-> disk'.patterns,
                    explorer |-> disk'.explorer]
    BY <1>1, <2>1 DEF PrivateTypes
  <2>5. /\ run'.stage = "publish"
        /\ run' = [stage |-> run'.stage, strata |-> run'.strata, pending |-> run'.pending, calls |-> run'.calls,
                   skipped |-> run'.skipped, paused |-> run'.paused, begun |-> run'.begun]
    BY <1>1, <2>1 DEF PrivateTypes
  <2>6. ~RunUnderWay /\ ~RunUnderWay'
    BY <2>1, <2>5 DEF RunUnderWay
  <2>7. PrivateTypes'
    BY <1>1, <2>1, <2>4, <2>5 DEF PrivateTypes
  <2>8. RunHasFetched' /\ FilesOfRun'
    BY <2>5, <2>6 DEF RunHasFetched, FilesOfRun
  <2>9. RunsInOrder'
    BY <1>1, <2>1, <2>3, <2>4, <2>5, <2>6 DEF RunsInOrder, Earlier
  <2>10. RowsAreSampled'
    BY <1>1, <2>1, <2>3, <2>4 DEF RowsAreSampled, OfTheSample
  <2>11. PublishedInOrder'
    BY <1>1, <2>1, <2>3, <2>4, <2>5 DEF PublishedInOrder
  <2>12. CountsCanBeHad' /\ Private!FloorsHold'
    BY <2>1, <2>4, AggregatesStay
  <2>13. Private!CoverageIsHonest'
    BY <2>4, CoverageStays
  <2>. QED
    BY <2>7, <2>8, <2>9, <2>10, <2>11, <2>12, <2>13 DEF PrivateInv
<1>3. CASE Private!PublishThreads
  <2>1. /\ run.stage = "publish" /\ UNCHANGED <<faults, world>>
        /\ disk' = IF \A r \in disk.threads.rows : r.thread \notin Unsafe
                   THEN [disk EXCEPT !.explorer = disk.threads] ELSE disk
        /\ run' = [stage |-> "idle", strata |-> << >>, pending |-> {}, calls |-> 0, skipped |-> {},
                   paused |-> FALSE, begun |-> 0]
    BY <1>3 DEF Private!PublishThreads, Private!SanitizeThreads, Private!NoRun
  <2>2. /\ disk'.cache = disk.cache /\ disk'.index = disk.index /\ disk'.threads = disk.threads
        /\ disk'.aggregates = disk.aggregates /\ disk'.patterns = disk.patterns
        /\ disk' = [cache |-> disk'.cache, index |-> disk'.index, threads |-> disk'.threads, ledger |-> disk'.ledger,
                    aggregates |-> disk'.aggregates, manifest |-> disk'.manifest, patterns |-> disk'.patterns,
                    explorer |-> disk'.explorer]
        /\ \/ (\A r \in disk.threads.rows : r.thread \notin Unsafe) /\ disk'.explorer = disk.threads
           \/ (\E r \in disk.threads.rows : r.thread \in Unsafe) /\ disk'.explorer = disk.explorer
    BY <1>1, <2>1 DEF PrivateTypes
  <2>3. run'.stage = "idle" /\ ~RunUnderWay /\ ~RunUnderWay'
    BY <2>1 DEF RunUnderWay
  <2>4. /\ disk.patterns # << >> /\ disk.aggregates # << >> /\ disk.patterns.run = disk.aggregates.run
        /\ disk.threads # << >> /\ disk.threads.run \in Nat /\ disk.threads.run <= world.runs
        /\ \A r \in disk.threads.rows : r.thread \in faults.threads
        /\ "kill" \notin faults.what => disk.threads.run = disk.aggregates.run
    BY <1>1, <2>1 DEF PublishedInOrder, RunsInOrder
  <2>5. PrivateTypes'
    BY <1>1, <2>1, <2>2 DEF PrivateTypes
  <2>6. RunHasFetched' /\ FilesOfRun'
    BY <2>3 DEF RunHasFetched, FilesOfRun
  <2>7. RunsInOrder'
    BY <1>1, <2>1, <2>2, <2>3, <2>4 DEF RunsInOrder, Earlier
  <2>8. RowsAreSampled'
    BY <1>1, <2>1, <2>2 DEF RowsAreSampled, OfTheSample
  <2>9. PublishedInOrder'
    BY <1>1, <2>1, <2>2, <2>3, <2>4 DEF PublishedInOrder
  <2>10. CountsCanBeHad' /\ Private!FloorsHold'
    BY <2>1, <2>2, AggregatesStay
  <2>11. Private!CoverageIsHonest'
    BY <2>2, CoverageStays
  <2>. QED
    BY <2>5, <2>6, <2>7, <2>8, <2>9, <2>10, <2>11 DEF PrivateInv
<1>. QED
  BY <1>2, <1>3
LEMMA PrivateStep == PrivateConstants /\ PrivateInv /\ [Private!Next]_(Private!vars) => PrivateInv'
<1>. SUFFICES ASSUME PrivateConstants, PrivateInv, [Private!Next]_(Private!vars)
              PROVE  PrivateInv'
  OBVIOUS
<1>1. ASSUME \/ \E t \in Discussions : Private!Open(t)
             \/ \E t \in Discussions, m \in faults.messages : Private!Post(t, m)
             \/ \E t \in Discussions, k \in Private!Places, x \in Texts : Private!Edit(t, k, x)
      PROVE  PrivateInv'
  <2>1. WorldGrows
    BY <1>1, WorldMoves DEF PrivateInv
  <2>. QED
    BY <2>1, WorldMovesOn
<1>2. CASE \E classify \in BOOLEAN : Private!BeginRun(classify)
  BY <1>2, RunBegins
<1>3. CASE Private!EndClassification \/ \E h \in Private!Hashes : Private!Classify(h) \/ Private!Skip(h)
  BY <1>3, RunRates
<1>4. CASE Private!SampleOnly \/ Private!WriteMessageIndex \/ Private!WriteThreads \/ Private!AppendCostLedgerEntry
  BY <1>4, RunWrites
<1>5. CASE Private!WriteAggregates
  BY <1>5, RunTells
<1>6. CASE Private!Kill
  BY <1>6, RunIsKilled
<1>7. CASE Private!PublishAggregates \/ Private!PublishThreads
  BY <1>7, RunPublishes
<1>8. CASE UNCHANGED Private!vars
  <2>1. UNCHANGED <<faults, world, disk, run>>
    BY <1>8 DEF Private!vars
  <2>2. PrivateTypes' /\ RunHasFetched' /\ FilesOfRun'
    <3>1. PrivateTypes /\ RunHasFetched /\ FilesOfRun
      BY DEF PrivateInv
    <3>2. PrivateTypes'
      BY <2>1, <3>1 DEF PrivateTypes
    <3>3. RunHasFetched'
      BY <2>1, <3>1 DEF RunHasFetched, RunUnderWay, CollectedOf, Private!Frame
    <3>4. FilesOfRun'
      <4>1. Private!FanOut' = Private!FanOut
        BY <2>1 DEF Private!FanOut
      <4>. QED
        BY <2>1, <3>1, <4>1 DEF FilesOfRun, Private!ThreadRow
    <3>. QED
      BY <3>2, <3>3, <3>4
  <2>3. RunsInOrder' /\ RowsAreSampled' /\ PublishedInOrder'
    BY <2>1
       DEF PrivateInv, RunsInOrder, Earlier, RunUnderWay, RowsAreSampled, PublishedInOrder,
           OfTheSample
  <2>4. CountsCanBeHad' /\ Private!FloorsHold'
    BY <2>1, AggregatesStay
  <2>5. Private!CoverageIsHonest'
    BY <2>1, CoverageStays
  <2>. QED
    BY <2>2, <2>3, <2>4, <2>5 DEF PrivateInv
<1>. QED
  <2>1. Private!Next \/ UNCHANGED Private!vars
    OBVIOUS
  <2>. QED
    BY <2>1, <1>1, <1>2, <1>3, <1>4, <1>5, <1>6, <1>7, <1>8 DEF Private!Next

LEMMA PrivateInvariant == PrivateConstants /\ Private!Spec => []PrivateInv
<1>1. PrivateConstants => []PrivateConstants
  <2>1. PrivateConstants => PrivateConstants'
    BY DEF PrivateConstants
  <2>. QED
    BY <2>1, PTL
<1>. QED
  BY <1>1, PrivateInit, PrivateStep, PTL DEF Private!Spec

(* What the page of threads shows.                                         *)
LEMMA ShownTogether == PrivateInv => Private!PublishedTogether
<1>. SUFFICES ASSUME PrivateInv PROVE Private!PublishedTogether
  OBVIOUS
<1>1. RowsAreSampled /\ PublishedInOrder
  BY DEF PrivateInv
<1>2. \A x \in Private!BuildThreadExplorerContext :
        \E r \in disk.explorer.rows : x.thread = r.thread /\ x.venue = VenueOf[r.thread]
  <2>1. ASSUME NEW x \in Private!BuildThreadExplorerContext
        PROVE  \E r \in disk.explorer.rows : x.thread = r.thread /\ x.venue = VenueOf[r.thread]
    <3>1. PICK r \in disk.explorer.rows : x = Private!RowContext(r)
      BY DEF Private!BuildThreadExplorerContext
    <3>. DEFINE year == YearOf[r.quarter]
                messages == r.n_messages
    <3>2. x = [thread |-> r.thread, venue |-> VenueOf[r.thread], year |-> year, messages |-> messages]
      BY <3>1 DEF Private!RowContext
    <3>. HIDE DEF year, messages
    <3>. QED
      BY <3>2
  <2>. QED
    BY <2>1
<1>3. (run.stage # "publish" /\ disk.patterns # << >> /\ "kill" \notin faults.what) =>
       \/ disk.explorer # << >> /\ disk.explorer.run = disk.patterns.run
       \/ \E t \in faults.threads : t \in Unsafe
  BY <1>1 DEF PublishedInOrder
<1>4. ASSUME disk.patterns # << >>, disk.explorer # << >>, disk.patterns.run = disk.explorer.run,
             NEW s \in Private!Strata,
             NEW x \in Private!BuildThreadExplorerContext, x.venue = s[1], QuarterOf[x.thread] = s[2]
      PROVE  x.thread \in disk.patterns.strata[s].sampled
  <2>1. PICK r \in disk.explorer.rows : x.thread = r.thread /\ x.venue = VenueOf[r.thread]
    BY <1>2
  <2>2. <<VenueOf[r.thread], QuarterOf[r.thread]>> = s
    <3>1. s = <<s[1], s[2]>>
      BY DEF Private!Strata
    <3>. QED
      BY <3>1, <2>1, <1>4
  <2>3. r.thread \in disk.patterns.strata[s].sampled
    BY <1>1, <1>4, <2>2 DEF RowsAreSampled, OfTheSample
  <2>. QED
    BY <2>1, <2>3
<1>5. disk.explorer # << >> => \A x \in Private!BuildThreadExplorerContext : x.thread \notin Unsafe
  BY <1>1, <1>2 DEF PublishedInOrder
<1>6. ASSUME disk.patterns # << >>, disk.explorer # << >>, disk.patterns.run = disk.explorer.run,
             NEW s \in Private!Strata
      PROVE  LET shown == {x.thread : x \in {x \in Private!BuildThreadExplorerContext :
                                              x.venue = s[1] /\ x.year = YearOf[s[2]]}}
             IN  {t \in shown : QuarterOf[t] = s[2]} \subseteq disk.patterns.strata[s].sampled
  BY <1>4, <1>6
<1>. QED
  BY <1>3, <1>5, <1>6 DEF Private!PublishedTogether

(* Whatever is opened, written, edited, skipped or killed: aggregates that *)
(* do not call themselves partial rest on a rating of everything in their  *)
(* index and on whole rows, those that do lack something; no cell below a  *)
(* floor has a rate; and what is on the pages is of one run, of threads    *)
(* that were sampled, and of none that is unsafe.                          *)
THEOREM PrivateRunIsHonest ==
  PrivateConstants /\ Private!Spec =>
    [](Private!CoverageIsHonest /\ Private!FloorsHold /\ Private!PublishedTogether)
<1>1. PrivateInv => Private!CoverageIsHonest /\ Private!FloorsHold /\ Private!PublishedTogether
  BY ShownTogether DEF PrivateInv
<1>. QED
  BY <1>1, PrivateInvariant, PTL

LEMMA StayStep == PrivateConstants /\ PrivateInv /\ [Private!Next]_(Private!vars) => [Private!RatingsStay]_(Private!vars)
<1>. SUFFICES ASSUME PrivateConstants, PrivateInv, [Private!Next]_(Private!vars) PROVE Private!RatingsStay
  OBVIOUS
<1>1. CASE disk'.aggregates = disk.aggregates
  BY <1>1 DEF Private!RatingsStay, Private!Told
<1>2. CASE Private!WriteAggregates
  <2>. DEFINE told == Private!Aggregates
  <2>1. /\ run.stage = "aggregates" /\ disk' = [disk EXCEPT !.aggregates = told]
    BY <1>2 DEF Private!WriteAggregates
  <2>2. PrivateTypes /\ RunHasFetched /\ CountsCanBeHad /\ RunUnderWay
    BY <2>1 DEF PrivateInv, RunUnderWay
  <2>3. /\ told.strata = run.strata
        /\ \A s \in Private!Strata :
             told.cells_by_quarter[s].messages = Cardinality(Private!StratumMessages(Private!FanOut, s))
    BY AggregatesTold
  <2>. HIDE DEF told
  <2>4. disk'.aggregates = told
    BY <2>1, <2>2 DEF PrivateTypes
  <2>5. ASSUME disk.aggregates # << >>, world.edits = 0, NEW s \in Private!Strata,
               disk.aggregates.strata[s].sampled \subseteq told.strata[s].sampled
        PROVE  disk.aggregates.cells_by_quarter[s].messages <= told.cells_by_quarter[s].messages
    <3>. DEFINE A == disk.aggregates.strata[s].sampled
                B == run.strata[s].sampled
                C == Private!StratumMessages(Private!FanOut, s)
                n == disk.aggregates.cells_by_quarter[s].messages
    <3>1. n \in Nat /\ n <= Cardinality(RatedOf(A))
      BY <2>2, <2>5 DEF CountsCanBeHad
    <3>2. A \subseteq B
      BY <2>3, <2>5
    <3>3. C = RatedOf(B) /\ IsFiniteSet(C)
      <4>1. C = RatedOf(B) /\ IsFiniteSet(run.pending)
        <5>. HIDE DEF B, C
        <5>. QED
          BY <2>2, StratumIsOfItsSample DEF B, C
      <4>2. C \in SUBSET run.pending
        BY DEF Private!StratumMessages, Private!FanOut
      <4>. HIDE DEF B, C
      <4>. QED
        BY <4>1, <4>2, FS_Subset
    <3>4. RatedOf(A) \subseteq RatedOf(B)
      <4>. HIDE DEF A, B
      <4>. QED
        BY <3>2 DEF RatedOf, CollectedOf, FetchedOf
    <3>5. told.cells_by_quarter[s].messages = Cardinality(C)
      BY <2>3
    <3>. HIDE DEF A, B, C, n
    <3>6. /\ Cardinality(RatedOf(A)) <= Cardinality(C)
          /\ Cardinality(RatedOf(A)) \in Nat /\ Cardinality(C) \in Nat
      BY <3>3, <3>4, RatedGrow
    <3>7. n <= Cardinality(C)
      BY <3>1, <3>6
    <3>. QED
      BY <3>5, <3>7 DEF n
  <2>. QED
    BY <2>4, <2>5 DEF Private!RatingsStay, Private!Told
<1>3. CASE UNCHANGED Private!vars
  BY <1>1, <1>3 DEF Private!vars
<1>4. disk = [cache |-> disk.cache, index |-> disk.index, threads |-> disk.threads, ledger |-> disk.ledger,
              aggregates |-> disk.aggregates, manifest |-> disk.manifest, patterns |-> disk.patterns,
              explorer |-> disk.explorer]
  BY DEF PrivateInv, PrivateTypes
<1>5. CASE \/ \E t \in Discussions : Private!Open(t)
           \/ \E t \in Discussions, m \in faults.messages : Private!Post(t, m)
           \/ \E t \in Discussions, k \in Private!Places, x \in Texts : Private!Edit(t, k, x)
           \/ \E classify \in BOOLEAN : Private!BeginRun(classify)
           \/ Private!EndClassification \/ Private!Kill \/ \E h \in Private!Hashes : Private!Skip(h)
  <2>1. disk' = disk
    BY <1>5
       DEF Private!Open, Private!Post, Private!Edit, Private!BeginRun, Private!EndClassification,
           Private!Kill,
                Private!Skip
  <2>. QED
    BY <2>1, <1>1
<1>6. CASE Private!SampleOnly
  <2>. DEFINE manifest == Private!SampleAllStrata
  <2>1. disk' = [disk EXCEPT !.manifest = manifest]
    BY <1>6 DEF Private!SampleOnly
  <2>. HIDE DEF manifest
  <2>. QED
    BY <2>1, <1>1, <1>4
<1>7. CASE Private!WriteMessageIndex
  <2>. DEFINE index == [run |-> run.begun, entries |-> run.pending]
  <2>1. disk' = [disk EXCEPT !.index = index]
    BY <1>7 DEF Private!WriteMessageIndex
  <2>. HIDE DEF index
  <2>. QED
    BY <2>1, <1>1, <1>4
<1>8. CASE Private!WriteThreads
  <2>. DEFINE threads == [run |-> run.begun, rows |-> {Private!ThreadRow(p.thread) : p \in Private!FanOut}]
  <2>1. disk' = [disk EXCEPT !.threads = threads]
    BY <1>8 DEF Private!WriteThreads
  <2>. HIDE DEF threads
  <2>. QED
    BY <2>1, <1>1, <1>4
<1>9. CASE Private!AppendCostLedgerEntry
  <2>. DEFINE ledger == Append(disk.ledger, run.calls)
  <2>1. disk' = [disk EXCEPT !.ledger = ledger]
    BY <1>9 DEF Private!AppendCostLedgerEntry
  <2>. HIDE DEF ledger
  <2>. QED
    BY <2>1, <1>1, <1>4
<1>10. CASE Private!PublishAggregates
  <2>. DEFINE public == Private!SanitizeAggregates(disk.aggregates)
  <2>1. disk' = [disk EXCEPT !.patterns = public]
    BY <1>10 DEF Private!PublishAggregates
  <2>. HIDE DEF public
  <2>. QED
    BY <2>1, <1>1, <1>4
<1>11. CASE Private!PublishThreads
  <2>1. disk' = [disk EXCEPT !.explorer = disk.threads] \/ disk' = disk
    BY <1>11 DEF Private!PublishThreads
  <2>. QED
    BY <2>1, <1>1, <1>4
<1>12. CASE \E h \in Private!Hashes : Private!Classify(h)
  <2>. PICK h \in Private!Hashes : disk' = [disk EXCEPT !.cache = disk.cache \cup {h}]
    BY <1>12 DEF Private!Classify
  <2>. DEFINE cache == disk.cache \cup {h}
  <2>1. disk' = [disk EXCEPT !.cache = cache]
    OBVIOUS
  <2>. HIDE DEF cache
  <2>. QED
    BY <2>1, <1>1, <1>4
<1>. QED
  <2>1. Private!Next \/ UNCHANGED Private!vars
    OBVIOUS
  <2>. QED
    BY <2>1, <1>2, <1>3, <1>5, <1>6, <1>7, <1>8, <1>9, <1>10, <1>11, <1>12 DEF Private!Next

(* As long as no comment was edited, a run that samples the same threads   *)
(* of a stratum or more counts no fewer messages of it than the aggregates *)
(* it replaces: what was rated stays rated, whatever became of the runs in *)
(* between.                                                                *)
THEOREM RatingsAlwaysStay == PrivateConstants /\ Private!Spec => [][Private!RatingsStay]_(Private!vars)
<1>1. PrivateConstants => []PrivateConstants
  <2>1. PrivateConstants => PrivateConstants'
    BY DEF PrivateConstants
  <2>. QED
    BY <2>1, PTL
<1>. QED
  BY <1>1, PrivateInvariant, StayStep, PTL DEF Private!Spec

-----------------------------------------------------------------------------
(* The pilot corpus.                                                       *)

Pilot == INSTANCE Sampling
           WITH Environments <- PilotEnvironments, YearOf <- YearOfMonth,
                Mails <- PilotMails, Years <- PilotYears,
                Bots <- Automated, MaxRetries <- PilotRetries


PilotConstants ==
  /\ PilotRetries \in Nat \ {0}
  /\ \A e \in PilotEnvironments : e.budget \in Nat

PilotTypes ==
  /\ faults \in PilotEnvironments
  /\ run = [stage |-> run.stage, calls |-> run.calls, count |-> run.count, offsets |-> run.offsets,
            found |-> run.found, turn |-> run.turn, exhausted |-> run.exhausted, scanned |-> run.scanned,
            page |-> run.page, mails |-> run.mails, seen |-> run.seen]
  /\ run.calls \in Nat

PilotInv == PilotTypes /\ Pilot!BudgetKept

(* A step makes the attempts of one request, while the budget lasts.       *)
OneRequest ==
  /\ UNCHANGED faults
  /\ run' = [stage |-> run'.stage, calls |-> run'.calls, count |-> run'.count, offsets |-> run'.offsets,
             found |-> run'.found, turn |-> run'.turn, exhausted |-> run'.exhausted, scanned |-> run'.scanned,
             page |-> run'.page, mails |-> run'.mails, seen |-> run'.seen]
  /\ \/ run'.calls = run.calls \/ run'.calls = 0
     \/ run.calls < faults.budget /\ \E n \in 1..PilotRetries : run'.calls = run.calls + n

LEMMA RequestKeepsBudget == PilotConstants /\ PilotInv /\ OneRequest => PilotInv'
<1>. SUFFICES ASSUME PilotConstants, PilotInv, OneRequest PROVE PilotInv'
  OBVIOUS
<1>1. /\ faults.budget \in Nat /\ PilotRetries \in Nat \ {0} /\ run.calls \in Nat
      /\ run.calls <= faults.budget + PilotRetries - 1
  BY DEF PilotConstants, PilotInv, PilotTypes, Pilot!BudgetKept
<1>2. run'.calls \in Nat /\ run'.calls <= faults.budget + PilotRetries - 1
  BY <1>1 DEF OneRequest
<1>. QED
  BY <1>2 DEF OneRequest, PilotInv, PilotTypes, Pilot!BudgetKept

LEMMA PilotInit == PilotConstants /\ Pilot!Init => PilotInv
<1>. SUFFICES ASSUME PilotConstants, Pilot!Init PROVE PilotInv
  OBVIOUS
<1>. DEFINE count == [y \in PilotYears |-> 0]
            offsets == [y \in PilotYears |-> << >>]
<1>1. /\ faults \in PilotEnvironments
      /\ run = [stage |-> "idle", calls |-> 0, count |-> count, offsets |-> offsets, found |-> << >>,
                turn |-> <<1, 1>>, exhausted |-> FALSE, scanned |-> 0, page |-> 0, mails |-> {}, seen |-> {}]
  BY DEF Pilot!Init, Pilot!NoRun
<1>. HIDE DEF count, offsets
<1>2. PilotTypes /\ run.calls = 0
  BY <1>1 DEF PilotTypes
<1>. QED
  BY <1>1, <1>2 DEF PilotInv, PilotConstants, Pilot!BudgetKept

LEMMA PilotBegins ==
  ASSUME PilotTypes, Pilot!Begin \/ Pilot!Raise \/ Pilot!Kill \/ Pilot!WriteCorpus \/ Pilot!WriteManifest \/ Pilot!WriteSubmanifest
  PROVE  OneRequest
<1>. DEFINE count == [y \in PilotYears |-> 0]
            offsets == [y \in PilotYears |-> << >>]
            none == [stage |-> "idle", calls |-> 0, count |-> count, offsets |-> offsets, found |-> << >>,
                     turn |-> <<1, 1>>, exhausted |-> FALSE, scanned |-> 0, page |-> 0, mails |-> {}, seen |-> {}]
<1>1. Pilot!NoRun = none
  BY DEF Pilot!NoRun
<1>2. /\ UNCHANGED faults
      /\ \/ run' = [Pilot!NoRun EXCEPT !.stage = "mail"] \/ run' = Pilot!NoRun
         \/ run' = [run EXCEPT !.stage = "manifest"]
  BY
     DEF Pilot!Begin, Pilot!Raise, Pilot!Kill, Pilot!WriteCorpus, Pilot!WriteManifest,
         Pilot!WriteSubmanifest
<1>. HIDE DEF count, offsets
<1>3. CASE run' = [Pilot!NoRun EXCEPT !.stage = "mail"]
  BY <1>1, <1>2, <1>3 DEF OneRequest
<1>4. CASE run' = Pilot!NoRun
  BY <1>1, <1>2, <1>4 DEF OneRequest
<1>5. CASE run' = [run EXCEPT !.stage = "manifest"]
  BY <1>2, <1>5 DEF OneRequest, PilotTypes
<1>. QED
  BY <1>2, <1>3, <1>4, <1>5

LEMMA PilotCounts ==
  ASSUME PilotConstants, PilotTypes, NEW n \in 1..PilotRetries, Pilot!CountYear(n)
  PROVE  OneRequest
<1>. DEFINE y == run.turn[2]
            asked == run.calls < faults.budget
            count == [run.count EXCEPT ![y] = IF asked THEN Len(Pilot!Listed(y)) ELSE 0]
            calls == run.calls + (IF asked THEN n ELSE 0)
            next == [run EXCEPT !.count = count, !.calls = calls]
<1>1. /\ UNCHANGED faults
      /\ \/ run' = [next EXCEPT !.turn[2] = Pilot!NextYear]
         \/ \E places \in Pilot!Blocks(count, Pilot!IssuesTarget(count)) :
              run' = [next EXCEPT !.stage = "search", !.turn = <<1, 1>>,
                                  !.offsets = [z \in PilotYears |-> Pilot!InOrder(places[z])]]
  BY DEF Pilot!CountYear
<1>2. calls = run.calls \/ (run.calls < faults.budget /\ calls = run.calls + n)
  <2>1. calls = run.calls + (IF asked THEN n ELSE 0) /\ run.calls \in Nat /\ (asked => run.calls < faults.budget)
    BY DEF PilotTypes
  <2>. HIDE DEF calls, asked
  <2>. QED
    BY <2>1
<1>. HIDE DEF count, calls
<1>3. /\ next.calls = calls
      /\ next = [stage |-> next.stage, calls |-> next.calls, count |-> next.count, offsets |-> next.offsets,
                 found |-> next.found, turn |-> next.turn, exhausted |-> next.exhausted, scanned |-> next.scanned,
                 page |-> next.page, mails |-> next.mails, seen |-> next.seen]
  <2>1. ASSUME NEW x, x = [run EXCEPT !.count = count, !.calls = calls]
        PROVE  /\ x.calls = calls
               /\ x = [stage |-> x.stage, calls |-> x.calls, count |-> x.count, offsets |-> x.offsets,
                       found |-> x.found, turn |-> x.turn, exhausted |-> x.exhausted, scanned |-> x.scanned,
                       page |-> x.page, mails |-> x.mails, seen |-> x.seen]
    BY <2>1 DEF PilotTypes
  <2>2. next = [run EXCEPT !.count = count, !.calls = calls]
    OBVIOUS
  <2>. HIDE DEF next
  <2>. QED
    BY <2>1, <2>2
<1>. HIDE DEF next
<1>4. ASSUME run' = [next EXCEPT !.turn[2] = Pilot!NextYear]
      PROVE  OneRequest
  <2>. DEFINE turn == [next.turn EXCEPT ![2] = Pilot!NextYear]
  <2>1. run' = [next EXCEPT !.turn = turn]
    BY <1>4
  <2>. HIDE DEF turn
  <2>. QED
    BY <1>1, <1>2, <1>3, <2>1 DEF OneRequest
<1>5. ASSUME NEW places, run' = [next EXCEPT !.stage = "search", !.turn = <<1, 1>>,
                                             !.offsets = [z \in PilotYears |-> Pilot!InOrder(places[z])]]
      PROVE  OneRequest
  <2>. DEFINE offsets == [z \in PilotYears |-> Pilot!InOrder(places[z])]
  <2>1. run' = [next EXCEPT !.stage = "search", !.turn = <<1, 1>>, !.offsets = offsets]
    BY <1>5
  <2>. HIDE DEF offsets
  <2>. QED
    BY <1>1, <1>2, <1>3, <2>1 DEF OneRequest
<1>. QED
  BY <1>1, <1>4, <1>5

LEMMA PilotSearches ==
  ASSUME PilotConstants, PilotTypes, NEW n \in 1..PilotRetries, Pilot!SearchBlock(n)
  PROVE  OneRequest
<1>. DEFINE r == run.turn[1]
            y == run.turn[2]
            spent == run.calls >= faults.budget
            asks == ~spent /\ r <= Len(run.offsets[y])
            first == run.offsets[y][r]
            keys == IF asks THEN SubSeq(Pilot!Listed(y), first + 1, Pilot!Min({first + BlockSize, Len(Pilot!Listed(y))}))
                    ELSE << >>
            found == run.found \o SelectSeq(keys, LAMBDA i : i \notin Pilot!Range(run.found))
            calls == run.calls + (IF asks THEN n ELSE 0)
            turn == IF Pilot!NextYear \in PilotYears THEN <<r, Pilot!NextYear>> ELSE <<r + 1, 1>>
            over == <<Pilot!Rounds + 1, 1>>
<1>1. /\ UNCHANGED faults
      /\ run' = IF spent THEN [run EXCEPT !.exhausted = TRUE, !.turn = over]
                ELSE [run EXCEPT !.found = found, !.calls = calls, !.turn = turn]
  BY DEF Pilot!SearchBlock
<1>2. ~spent => calls = run.calls \/ (run.calls < faults.budget /\ calls = run.calls + n)
  <2>1. spent \/ run.calls < faults.budget
    <3>1. run.calls \in Nat /\ faults.budget \in Nat
      BY DEF PilotTypes, PilotConstants
    <3>. QED
      BY <3>1
  <2>2. calls = run.calls + (IF asks THEN n ELSE 0)
    OBVIOUS
  <2>. HIDE DEF calls, asks, spent
  <2>. QED
    BY <2>1, <2>2 DEF PilotTypes
<1>. HIDE DEF found, calls, turn, over, asks, spent
<1>3. CASE spent
  <2>1. run' = [run EXCEPT !.exhausted = TRUE, !.turn = over]
    BY <1>1, <1>3
  <2>. QED
    BY <1>1, <2>1 DEF OneRequest, PilotTypes
<1>4. CASE ~spent
  <2>1. run' = [run EXCEPT !.found = found, !.calls = calls, !.turn = turn]
    BY <1>1, <1>4
  <2>2. /\ run'.calls = calls
        /\ run' = [stage |-> run'.stage, calls |-> run'.calls, count |-> run'.count, offsets |-> run'.offsets,
                   found |-> run'.found, turn |-> run'.turn, exhausted |-> run'.exhausted, scanned |-> run'.scanned,
                   page |-> run'.page, mails |-> run'.mails, seen |-> run'.seen]
    BY <2>1 DEF PilotTypes
  <2>. QED
    BY <1>1, <1>2, <1>4, <2>2 DEF OneRequest
<1>. QED
  BY <1>3, <1>4

LEMMA PilotReads ==
  ASSUME PilotTypes, NEW n \in 1..PilotRetries, Pilot!ReadComments(n)
  PROVE  OneRequest
<1>. DEFINE i == run.found[run.turn[1]]
            gone == i \in world.gone
            upto == IF gone THEN run.page ELSE Pilot!Min({run.page + PageSize, Len(world.comments[i])})
            scanned == run.scanned + (IF run.page = 0 THEN 1 ELSE 0)
            calls == run.calls + n
            seen == run.seen \cup Pilot!Candidates(i, upto)
            turn == [run.turn EXCEPT ![1] = run.turn[1] + 1]
            asked == [run EXCEPT !.calls = calls, !.scanned = scanned]
<1>1. /\ UNCHANGED faults /\ run.calls < faults.budget
      /\ \/ run' = [asked EXCEPT !.page = upto]
         \/ run' = [asked EXCEPT !.seen = @ \cup Pilot!Candidates(i, upto), !.page = 0, !.turn[1] = @ + 1]
  BY DEF Pilot!ReadComments
<1>2. /\ asked.calls = calls /\ asked.seen = run.seen /\ asked.turn = run.turn
      /\ asked = [stage |-> asked.stage, calls |-> asked.calls, count |-> asked.count, offsets |-> asked.offsets,
                  found |-> asked.found, turn |-> asked.turn, exhausted |-> asked.exhausted,
                  scanned |-> asked.scanned, page |-> asked.page, mails |-> asked.mails, seen |-> asked.seen]
  <2>. HIDE DEF calls, scanned
  <2>1. ASSUME NEW x, x = [run EXCEPT !.calls = calls, !.scanned = scanned]
        PROVE  /\ x.calls = calls /\ x.seen = run.seen /\ x.turn = run.turn
               /\ x = [stage |-> x.stage, calls |-> x.calls, count |-> x.count, offsets |-> x.offsets,
                       found |-> x.found, turn |-> x.turn, exhausted |-> x.exhausted, scanned |-> x.scanned,
                       page |-> x.page, mails |-> x.mails, seen |-> x.seen]
    BY <2>1 DEF PilotTypes
  <2>2. asked = [run EXCEPT !.calls = calls, !.scanned = scanned]
    OBVIOUS
  <2>. HIDE DEF asked
  <2>. QED
    BY <2>1, <2>2
<1>3. \/ run' = [asked EXCEPT !.page = upto]
      \/ run' = [asked EXCEPT !.seen = seen, !.page = 0, !.turn = turn]
  <2>. HIDE DEF upto, asked, calls, scanned
  <2>1. asked.seen = run.seen /\ asked.turn = run.turn
    BY <1>2
  <2>. QED
    BY <1>1, <2>1
<1>. HIDE DEF upto, scanned, seen, turn, calls, asked
<1>5. /\ run'.calls = calls
      /\ run' = [stage |-> run'.stage, calls |-> run'.calls, count |-> run'.count, offsets |-> run'.offsets,
                 found |-> run'.found, turn |-> run'.turn, exhausted |-> run'.exhausted, scanned |-> run'.scanned,
                 page |-> run'.page, mails |-> run'.mails, seen |-> run'.seen]
  BY <1>2, <1>3
<1>. QED
  BY <1>1, <1>5 DEF OneRequest, calls

LEMMA PilotGoesOn ==
  ASSUME PilotTypes,
         \/ \E i \in Pilot!Issues : Pilot!Vanish(i) \/ \E comment \in faults.said : Pilot!Post(i, comment)
         \/ \E lost \in {Pilot!None} \cup DOMAIN YearOfMonth : Pilot!ScanDevCandidates(lost)
         \/ Pilot!BeginComments \/ Pilot!EndScan \/ Pilot!WriteSubsample \/ UNCHANGED Pilot!vars
  PROVE  OneRequest
<1>1. CASE run' = run /\ UNCHANGED faults
  BY <1>1 DEF OneRequest, PilotTypes
<1>2. CASE \E i \in Pilot!Issues : Pilot!Vanish(i) \/ \E comment \in faults.said : Pilot!Post(i, comment)
  BY <1>1, <1>2 DEF Pilot!Vanish, Pilot!Post
<1>3. ASSUME NEW lost, Pilot!ScanDevCandidates(lost)
      PROVE  OneRequest
  <2>. DEFINE mails == {x \in DOMAIN PilotMails : /\ PilotMails[x].month # lost
                                                  /\ PilotMails[x].sender \notin Automated
                                                  /\ YearOfMonth[PilotMails[x].month] \in PilotYears}
  <2>1. UNCHANGED faults /\ run' = [run EXCEPT !.stage = "count", !.mails = mails]
    BY <1>3 DEF Pilot!ScanDevCandidates
  <2>. HIDE DEF mails
  <2>. QED
    BY <2>1 DEF OneRequest, PilotTypes
<1>4. CASE Pilot!BeginComments
  <2>. DEFINE walked == Pilot!Walked
  <2>1. UNCHANGED faults /\ run' = [run EXCEPT !.stage = "comments", !.found = walked, !.turn = <<1, 1>>]
    BY <1>4 DEF Pilot!BeginComments
  <2>. HIDE DEF walked
  <2>. QED
    BY <2>1 DEF OneRequest, PilotTypes
<1>5. CASE Pilot!EndScan
  <2>1. /\ UNCHANGED faults
        /\ \/ run' = [run EXCEPT !.stage = "corpus"]
           \/ run' = [run EXCEPT !.stage = "corpus", !.exhausted = TRUE]
    BY <1>5 DEF Pilot!EndScan
  <2>. QED
    BY <2>1 DEF OneRequest, PilotTypes
<1>6. CASE Pilot!WriteSubsample
  <2>1. UNCHANGED faults /\ run' = [run EXCEPT !.stage = "submanifest"]
    BY <1>6 DEF Pilot!WriteSubsample
  <2>. QED
    BY <2>1 DEF OneRequest, PilotTypes
<1>7. CASE UNCHANGED Pilot!vars
  BY <1>1, <1>7 DEF Pilot!vars
<1>. QED
  BY <1>2, <1>3, <1>4, <1>5, <1>6, <1>7

LEMMA PilotStep == PilotConstants /\ PilotInv /\ [Pilot!Next]_(Pilot!vars) => PilotInv'
<1>. SUFFICES ASSUME PilotConstants, PilotInv, [Pilot!Next]_(Pilot!vars) PROVE OneRequest
  BY RequestKeepsBudget
<1>1. PilotTypes
  BY DEF PilotInv
<1>2. CASE \/ \E i \in Pilot!Issues : Pilot!Vanish(i) \/ \E comment \in faults.said : Pilot!Post(i, comment)
           \/ \E lost \in {Pilot!None} \cup DOMAIN YearOfMonth : Pilot!ScanDevCandidates(lost)
           \/ Pilot!BeginComments \/ Pilot!EndScan \/ Pilot!WriteSubsample \/ UNCHANGED Pilot!vars
  BY <1>1, <1>2, PilotGoesOn
<1>3. CASE Pilot!Begin \/ Pilot!Raise \/ Pilot!Kill \/ Pilot!WriteCorpus \/ Pilot!WriteManifest \/ Pilot!WriteSubmanifest
  BY <1>1, <1>3, PilotBegins
<1>4. CASE \E n \in 1..PilotRetries : Pilot!CountYear(n) \/ Pilot!SearchBlock(n) \/ Pilot!ReadComments(n)
  BY <1>1, <1>4, PilotCounts, PilotSearches, PilotReads
<1>. QED
  <2>1. Pilot!Next \/ UNCHANGED Pilot!vars
    OBVIOUS
  <2>. QED
    BY <2>1, <1>2, <1>3, <1>4 DEF Pilot!Next

(* A scan of JIRA goes over its budget by the attempts of one request at   *)
(* most, whatever the years hold, is deleted or fails.                     *)
THEOREM PilotKeepsBudget == PilotConstants /\ Pilot!Spec => []Pilot!BudgetKept
<1>1. PilotConstants => []PilotConstants
  <2>1. PilotConstants => PilotConstants'
    BY DEF PilotConstants
  <2>. QED
    BY <2>1, PTL
<1>2. PilotConstants /\ Pilot!Spec => []PilotInv
  BY <1>1, PilotInit, PilotStep, PTL DEF Pilot!Spec
<1>3. PilotInv => Pilot!BudgetKept
  BY DEF PilotInv
<1>. QED
  BY <1>2, <1>3, PTL

=============================================================================
