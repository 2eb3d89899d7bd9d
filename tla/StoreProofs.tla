---------------------------- MODULE StoreProofs ----------------------------
(***************************************************************************)
(* Proofs about the stores of the data directory that share no file. Each  *)
(* is a specification of its own, on the variables they all call by the    *)
(* same names; a section is about one. A constant that two of them call by *)
(* one name is renamed.                                                    *)
(***************************************************************************)
EXTENDS Integers, Sequences, FiniteSets, FiniteSetTheorems, TLAPS

CONSTANTS
  RecordsEnvironments, RecordsCommits, MaxParser,         \* governance commits
  SeedEnvironments, NumRepos, NumTables, MaxPRs,          \* seeding
  Interval, MaxRetries, MaxDelay, MaxCalls, MaxRequests,
  MaxFollowed,                                            \* requests and retries
  PeopleEnvironments, PeopleCommits, NumLogins, LoginOf, PageSize, MaxPages,
  MaxProfiles,                                            \* look-ups
  EvidenceEnvironments, MaxCommits, MaxVersion, EvidenceNights, EvidenceCalls,
  RetryWindow, Retention,                                 \* governance evidence
  MailEnvironments, NumLists, MaxMonth, MaxMail, MaxPosts, Caps, Configs,
  MailThreads, Senders, Automated, MonthDays, Trailing, Floor,  \* mailing lists
  LabelEnvironments, NumItems, NumThreads, MaxLines, Modes, \* labels
  IssuesEnvironments, AuthorOf, Bots, Commenters, CommentsPage, Allowances,
  MaxUpdates                                              \* GitHub's issues

VARIABLES faults, world, disk, run

Records  == INSTANCE GovernanceCommits
              WITH Environments <- RecordsEnvironments, MaxCommits <- RecordsCommits
Seed     == INSTANCE Seeding WITH Environments <- SeedEnvironments
Asking   == INSTANCE RequestRetry
              WITH policy <- faults, client <- world, request <- disk, gap <- run
People   == INSTANCE LookUps
              WITH Environments <- PeopleEnvironments, MaxCommits <- PeopleCommits
Evidence == INSTANCE GovernanceEvidence
              WITH Environments <- EvidenceEnvironments, MaxNights <- EvidenceNights,
                   MaxCalls <- EvidenceCalls
Mail     == INSTANCE MailCollection
              WITH Environments <- MailEnvironments, Threads <- MailThreads
Labels   == INSTANCE Labeling
              WITH Environments <- LabelEnvironments, server <- world, threads <- run
Issues   == INSTANCE GitHubIssues WITH Environments <- IssuesEnvironments

-----------------------------------------------------------------------------
(* A nonempty set of numbers has a least one.                              *)
LEMMA LeastNumber ==
  ASSUME NEW T \in SUBSET Nat, T # {}
  PROVE  \E m \in T : \A x \in T : m <= x
<1>1. PICK k \in T : \A j \in T : ~ (<<j, k>> \in OpToRel(<, Nat))
  BY WFMin, NatLessThanWellFounded
<1>2. ASSUME NEW j \in T
      PROVE  k <= j
  <2>1. j \in Nat /\ k \in Nat
    OBVIOUS
  <2>2. j < k => <<j, k>> \in OpToRel(<, Nat)
    BY <2>1 DEF OpToRel
  <2>3. ~ (j < k)
    BY <1>1, <2>2
  <2>. QED
    BY <2>1, <2>3
<1>. QED
  BY <1>2

(* And one with an upper bound a greatest one.                             *)
LEMMA GreatestNumber ==
  ASSUME NEW n \in Nat, NEW T \in SUBSET (1..n), T # {}
  PROVE  \E m \in T : \A x \in T : x <= m
<1>. DEFINE missed == {n - w : w \in T}
<1>1. missed \in SUBSET Nat /\ missed # {}
  <2>1. ASSUME NEW w \in T
        PROVE  n - w \in Nat
    <3>1. w \in 1..n
      OBVIOUS
    <3>. QED
      BY <3>1
  <2>. QED
    BY <2>1
<1>. HIDE DEF missed
<1>2. PICK d \in missed : \A e \in missed : d <= e
  BY <1>1, LeastNumber
<1>. USE DEF missed
<1>3. PICK w \in T : d = n - w
  BY <1>2
<1>4. \A x \in T : n - w <= n - x
  BY <1>2, <1>3
<1>5. \A x \in T : x \in Int
  OBVIOUS
<1>. QED
  BY <1>4, <1>5

-----------------------------------------------------------------------------
(* The governance commits.                                                 *)

RecordsConstants == RecordsCommits \in Nat \ {0} /\ MaxParser \in Nat \ {0}

RecordsTypes ==
  /\ faults \in RecordsEnvironments
  /\ world \in [tip : Records!Commits, parser : Records!Parsers]
  /\ disk \in [rows : [Records!Parsers -> [Records!Commits -> 0..2]],
               watermark : {0} \cup Records!Commits, marker : {0} \cup Records!Parsers]
  /\ run \in [pc : {"idle", "mark", "reparse", "marker", "score"}, hadHistory : BOOLEAN]

(* A commit has a row of a parser that is at least as new as v.            *)
HasRow(c, v) == \E w \in Records!Parsers : w >= v /\ disk.rows[w][c] > 0

(* What the night has written by the step it has come to.                  *)
RecordsWritten ==
  /\ disk.watermark <= world.tip /\ disk.marker <= world.parser
  /\ \A c \in Records!Commits : c <= disk.watermark => HasRow(c, disk.marker)
  /\ run.pc = "mark" =>
       /\ run.hadHistory \/ disk.watermark = 0
       /\ \A c \in Records!Commits :
            disk.watermark < c /\ c <= world.tip => disk.rows[world.parser][c] > 0
  /\ (run.pc = "reparse" /\ ~run.hadHistory) \/ run.pc = "marker" =>
       \A c \in Records!Commits : c <= disk.watermark => disk.rows[world.parser][c] > 0

RecordsInv == RecordsTypes /\ RecordsWritten

LEMMA RecordsInit == RecordsConstants /\ Records!Init => RecordsInv
  BY DEF RecordsConstants, Records!Init, RecordsInv, RecordsTypes, RecordsWritten, HasRow,
         Records!Commits, Records!Parsers, Records!Idle

(* A walk gives each commit between a position and the tip a row of the    *)
(* deployed parser, and takes none away.                                   *)
LEMMA RecordsAppended ==
  ASSUME RecordsConstants, RecordsTypes, NEW after \in Nat
  PROVE  LET rows == Records!Appended(disk.rows, after)
         IN  /\ rows \in [Records!Parsers -> [Records!Commits -> 0..2]]
             /\ \A v \in Records!Parsers, c \in Records!Commits : disk.rows[v][c] <= rows[v][c]
             /\ \A c \in Records!Commits : after < c /\ c <= world.tip => rows[world.parser][c] > 0
             /\ \A v \in Records!Parsers : v # world.parser => rows[v] = disk.rows[v]
             /\ \A c \in Records!Commits : IF after < c /\ c <= world.tip
                                             THEN rows[world.parser][c] <= disk.rows[world.parser][c] + 1
                                             ELSE rows[world.parser][c] = disk.rows[world.parser][c]
<1>. DEFINE p == world.parser
            line == [c \in Records!Commits |-> IF c > after /\ c <= world.tip /\ disk.rows[p][c] < 2
                                                 THEN disk.rows[p][c] + 1 ELSE disk.rows[p][c]]
            rows == Records!Appended(disk.rows, after)
<1>1. p \in Records!Parsers /\ disk.rows \in [Records!Parsers -> [Records!Commits -> 0..2]]
  BY DEF RecordsTypes
<1>2. rows = [disk.rows EXCEPT ![p] = line]
  BY <1>1 DEF Records!Appended, Records!MaxCopies
<1>3. /\ line \in [Records!Commits -> 0..2]
      /\ \A c \in Records!Commits : disk.rows[p][c] <= line[c]
      /\ \A c \in Records!Commits : after < c /\ c <= world.tip => line[c] > 0
      /\ \A c \in Records!Commits : IF after < c /\ c <= world.tip THEN line[c] <= disk.rows[p][c] + 1
                                                                   ELSE line[c] = disk.rows[p][c]
  <2>. SUFFICES ASSUME NEW c \in Records!Commits
                PROVE  /\ line[c] \in 0..2 /\ disk.rows[p][c] <= line[c]
                       /\ after < c /\ c <= world.tip => line[c] > 0
                       /\ IF after < c /\ c <= world.tip THEN line[c] <= disk.rows[p][c] + 1
                                                        ELSE line[c] = disk.rows[p][c]
    OBVIOUS
  <2>1. c \in Int /\ world.tip \in Int
    BY DEF RecordsTypes, RecordsConstants, Records!Commits
  <2>. HIDE DEF p
  <2>2. disk.rows[p][c] \in 0..2
    BY <1>1
  <2>. QED
    BY <2>1, <2>2
<1>. HIDE DEF line, p
<1>4. rows \in [Records!Parsers -> [Records!Commits -> 0..2]] /\ rows[p] = line
  BY <1>1, <1>2, <1>3
<1>5. ASSUME NEW v \in Records!Parsers, NEW c \in Records!Commits
      PROVE  disk.rows[v][c] <= rows[v][c]
  <2>1. v # p => rows[v] = disk.rows[v]
    BY <1>1, <1>2
  <2>2. disk.rows[v][c] \in 0..2
    BY <1>1
  <2>. QED
    BY <1>3, <1>4, <2>1, <2>2
<1>6. \A v \in Records!Parsers : v # p => rows[v] = disk.rows[v]
  BY <1>1, <1>2
<1>. HIDE DEF rows
<1>7. /\ rows \in [Records!Parsers -> [Records!Commits -> 0..2]]
      /\ \A v \in Records!Parsers, c \in Records!Commits : disk.rows[v][c] <= rows[v][c]
      /\ \A c \in Records!Commits : after < c /\ c <= world.tip => rows[p][c] > 0
      /\ \A v \in Records!Parsers : v # p => rows[v] = disk.rows[v]
      /\ \A c \in Records!Commits : IF after < c /\ c <= world.tip
                                      THEN rows[p][c] <= disk.rows[p][c] + 1
                                      ELSE rows[p][c] = disk.rows[p][c]
  BY <1>3, <1>4, <1>5, <1>6
<1>. QED
  BY <1>7 DEF rows, p

LEMMA RecordsStep == RecordsConstants /\ RecordsInv /\ [Records!Next]_(Records!vars) => RecordsInv'
<1>. SUFFICES ASSUME RecordsConstants, RecordsInv, [Records!Next]_(Records!vars) PROVE RecordsInv'
  OBVIOUS
<1>. USE DEF RecordsInv, Records!Step
<1>1. CASE Records!WalkCommits
  <2>1. disk.watermark \in Nat
    BY DEF RecordsTypes, Records!Commits
  <2>. DEFINE rows == Records!Appended(disk.rows, disk.watermark)
  <2>2. /\ rows \in [Records!Parsers -> [Records!Commits -> 0..2]]
        /\ \A v \in Records!Parsers, c \in Records!Commits : disk.rows[v][c] <= rows[v][c]
        /\ \A c \in Records!Commits : disk.watermark < c /\ c <= world.tip => rows[world.parser][c] > 0
    BY <2>1, RecordsAppended
  <2>3. /\ run' = [pc |-> "mark", hadHistory |-> disk.watermark # 0]
        /\ disk' = [disk EXCEPT !.rows = rows] /\ faults' = faults /\ world' = world
    BY <1>1 DEF Records!WalkCommits
  <2>. HIDE DEF rows
  <2>4. RecordsTypes'
    BY <2>2, <2>3 DEF RecordsTypes
  <2>5. disk'.rows = rows /\ disk'.watermark = disk.watermark /\ disk'.marker = disk.marker
    BY <2>3 DEF RecordsTypes
  <2>6. ASSUME NEW c \in Records!Commits, c <= disk.watermark
        PROVE  HasRow(c, disk.marker)'
    <3>1. PICK w \in Records!Parsers : w >= disk.marker /\ disk.rows[w][c] > 0
      BY <2>6 DEF RecordsWritten, HasRow
    <3>2. disk.rows[w][c] <= rows[w][c] /\ disk.rows[w][c] \in Nat /\ rows[w][c] \in Nat
      BY <2>2 DEF RecordsTypes
    <3>. QED
      BY <3>1, <3>2, <2>5 DEF HasRow
  <2>7. RecordsWritten'
    BY <2>2, <2>3, <2>5, <2>6 DEF RecordsWritten, RecordsTypes
  <2>. QED
    BY <2>4, <2>7
<1>2. CASE Records!ResolveSha
  <2>1. /\ run.pc = "mark" /\ run' = [run EXCEPT !.pc = "reparse"]
        /\ disk' = [disk EXCEPT !.watermark = world.tip] /\ faults' = faults /\ world' = world
    BY <1>2 DEF Records!ResolveSha
  <2>2. RecordsTypes'
    BY <2>1 DEF RecordsTypes
  <2>3. ASSUME NEW c \in Records!Commits, c <= world.tip
        PROVE  HasRow(c, disk.marker)
    <3>1. CASE c <= disk.watermark
      BY <3>1 DEF RecordsWritten
    <3>2. CASE disk.watermark < c
      BY <2>1, <2>3, <3>2 DEF RecordsWritten, HasRow, RecordsTypes
    <3>. QED
      BY <3>1, <3>2 DEF RecordsTypes, Records!Commits
  <2>4. disk'.rows = disk.rows /\ disk'.marker = disk.marker /\ disk'.watermark = world.tip
    BY <2>1 DEF RecordsTypes
  <2>5. \A c \in Records!Commits : c <= disk'.watermark => HasRow(c, disk.marker)'
    BY <2>3, <2>4 DEF HasRow
  <2>6. ~run.hadHistory => \A c \in Records!Commits : c <= world.tip => disk.rows[world.parser][c] > 0
    BY <2>1 DEF RecordsWritten, RecordsTypes, Records!Commits
  <2>7. RecordsWritten'
    BY <2>1, <2>4, <2>5, <2>6 DEF RecordsWritten, RecordsTypes, Records!Commits
  <2>. QED
    BY <2>2, <2>7
<1>3. CASE Records!SkipReparse \/ (Records!Reparse /\ run.pc = "marker")
  <2>1. /\ run' = [run EXCEPT !.pc = "score"] /\ faults' = faults /\ world' = world
        /\ disk' = [disk EXCEPT !.marker = world.parser]
        /\ \/ run.pc = "reparse" /\ (disk.marker = world.parser \/ ~run.hadHistory)
           \/ run.pc = "marker"
    BY <1>3 DEF Records!SkipReparse, Records!Reparse
  <2>2. RecordsTypes'
    BY <2>1 DEF RecordsTypes
  <2>3. \A c \in Records!Commits : c <= disk.watermark => HasRow(c, world.parser)
    BY <2>1 DEF RecordsWritten, HasRow, RecordsTypes, Records!Parsers
  <2>4. disk'.rows = disk.rows /\ disk'.marker = world.parser /\ disk'.watermark = disk.watermark
    BY <2>1 DEF RecordsTypes
  <2>5. \A c \in Records!Commits : c <= disk'.watermark => HasRow(c, disk.marker)'
    BY <2>1, <2>3, <2>4 DEF HasRow
  <2>6. RecordsWritten'
    BY <2>1, <2>4, <2>5 DEF RecordsWritten, RecordsTypes, Records!Parsers
  <2>. QED
    BY <2>2, <2>6
<1>4. CASE Records!Reparse /\ run.pc # "marker"
  <2>. DEFINE rows == Records!Appended(disk.rows, 0)
  <2>2. /\ rows \in [Records!Parsers -> [Records!Commits -> 0..2]]
        /\ \A v \in Records!Parsers, c \in Records!Commits : disk.rows[v][c] <= rows[v][c]
        /\ \A c \in Records!Commits : 0 < c /\ c <= world.tip => rows[world.parser][c] > 0
    BY RecordsAppended
  <2>3. /\ run' = [run EXCEPT !.pc = "marker"]
        /\ disk' = [disk EXCEPT !.rows = rows] /\ faults' = faults /\ world' = world
    BY <1>4 DEF Records!Reparse
  <2>. HIDE DEF rows
  <2>4. RecordsTypes'
    BY <2>2, <2>3 DEF RecordsTypes
  <2>5. disk'.rows = rows /\ disk'.watermark = disk.watermark /\ disk'.marker = disk.marker
    BY <2>3 DEF RecordsTypes
  <2>6. ASSUME NEW c \in Records!Commits, c <= disk.watermark
        PROVE  HasRow(c, disk.marker)'
    <3>1. PICK w \in Records!Parsers : w >= disk.marker /\ disk.rows[w][c] > 0
      BY <2>6 DEF RecordsWritten, HasRow
    <3>2. disk.rows[w][c] <= rows[w][c] /\ disk.rows[w][c] \in Nat /\ rows[w][c] \in Nat
      BY <2>2 DEF RecordsTypes
    <3>. QED
      BY <3>1, <3>2, <2>5 DEF HasRow
  <2>7. \A c \in Records!Commits : c <= disk.watermark => rows[world.parser][c] > 0
    BY <2>2 DEF RecordsWritten, RecordsTypes, Records!Commits
  <2>8. RecordsWritten'
    BY <2>3, <2>5, <2>6, <2>7 DEF RecordsWritten, RecordsTypes
  <2>. QED
    BY <2>4, <2>8
<1>5. CASE Records!FailReparse \/ Records!Score \/ Records!Kill
  <2>1. /\ faults' = faults /\ disk' = disk /\ world' = world
        /\ run' = [run EXCEPT !.pc = "score"] \/ run' = [pc |-> "idle", hadHistory |-> FALSE]
    BY <1>5 DEF Records!FailReparse, Records!Score, Records!Kill, Records!Idle
  <2>2. run' \in [pc : {"score", "idle"}, hadHistory : BOOLEAN]
    <3>1. CASE run' = [run EXCEPT !.pc = "score"]
      BY <3>1 DEF RecordsTypes
    <3>2. CASE run' = [pc |-> "idle", hadHistory |-> FALSE]
      BY <3>2
    <3>. QED
      BY <2>1, <3>1, <3>2
  <2>3. RecordsTypes'
    BY <2>1, <2>2 DEF RecordsTypes
  <2>. QED
    BY <2>1, <2>2, <2>3 DEF RecordsWritten, HasRow
<1>6. CASE Records!Commit \/ Records!ReleaseParser
  <2>1. /\ run.pc = "idle" /\ run' = run /\ faults' = faults /\ disk' = disk
        /\ \/ world.tip < RecordsCommits /\ world' = [world EXCEPT !.tip = @ + 1]
           \/ world.parser < MaxParser /\ world' = [world EXCEPT !.parser = @ + 1]
    BY <1>6 DEF Records!Commit, Records!ReleaseParser
  <2>2. world' \in [tip : Records!Commits, parser : Records!Parsers]
    <3>1. CASE world.tip < RecordsCommits /\ world' = [world EXCEPT !.tip = @ + 1]
      <4>1. world.tip + 1 \in Records!Commits
        BY <3>1 DEF RecordsTypes, RecordsConstants, Records!Commits
      <4>. QED
        BY <3>1, <4>1 DEF RecordsTypes
    <3>2. CASE world.parser < MaxParser /\ world' = [world EXCEPT !.parser = @ + 1]
      <4>1. world.parser + 1 \in Records!Parsers
        BY <3>2 DEF RecordsTypes, RecordsConstants, Records!Parsers
      <4>. QED
        BY <3>2, <4>1 DEF RecordsTypes
    <3>. QED
      BY <2>1, <3>1, <3>2
  <2>3. RecordsTypes'
    BY <2>1, <2>2 DEF RecordsTypes
  <2>4. RecordsWritten'
    BY <2>1 DEF RecordsWritten, HasRow, RecordsTypes, Records!Commits, Records!Parsers
  <2>. QED
    BY <2>3, <2>4
<1>7. CASE UNCHANGED Records!vars
  BY <1>7 DEF Records!vars, RecordsTypes, RecordsWritten, HasRow
<1>. QED
  BY <1>1, <1>2, <1>3, <1>4, <1>5, <1>6, <1>7 DEF Records!Next, Records!Run

(* Rows of several versions: there is a highest one, which is read.        *)
LEMMA LatestIsNewest ==
  ASSUME RecordsConstants, RecordsTypes, NEW c \in Records!Commits, NEW v \in Nat, HasRow(c, v)
  PROVE  /\ Records!Latest(c) \in Records!Parsers /\ Records!Latest(c) >= v
         /\ disk.rows[Records!Latest(c)][c] > 0 /\ Records!Scored(c) = disk.rows[Records!Latest(c)][c]
<1>. DEFINE Vs == Records!Versions(c)
<1>1. PICK u \in Records!Parsers : u >= v /\ u \in Vs
  BY DEF HasRow, Records!Versions
<1>2. Vs \subseteq Records!Parsers /\ Vs # {}
  BY <1>1 DEF Records!Versions
<1>3. \E w \in Vs : \A x \in Vs : x <= w
  BY <1>2, GreatestNumber DEF Records!Parsers, RecordsConstants
<1>4. Records!Latest(c) \in Vs /\ \A x \in Vs : x <= Records!Latest(c)
  BY <1>3 DEF Records!Latest
<1>5. Records!Latest(c) >= v
  BY <1>1, <1>2, <1>4 DEF Records!Parsers
<1>. QED
  BY <1>2, <1>4, <1>5 DEF Records!Versions, Records!Scored

(* The commits behind the watermark are scored, by a parser no older than  *)
(* the marker says, wherever a night was cut or its reparse failed.        *)
THEOREM RecordsAreCorrected ==
  ASSUME RecordsConstants
  PROVE  Records!Spec => []Records!RecordsCorrected
<1>1. Records!Init => RecordsInv
  BY RecordsInit
<1>2. RecordsInv /\ [Records!Next]_(Records!vars) => RecordsInv'
  BY RecordsStep
<1>3. RecordsInv => Records!RecordsCorrected
  <2>. SUFFICES ASSUME RecordsInv, NEW c \in Records!Commits, c <= disk.watermark
                PROVE  Records!Scored(c) > 0 /\ Records!Latest(c) >= disk.marker
    BY DEF Records!RecordsCorrected
  <2>1. HasRow(c, disk.marker) /\ disk.marker \in Nat /\ RecordsTypes
    BY DEF RecordsInv, RecordsWritten, RecordsTypes, Records!Parsers
  <2>. QED
    BY <2>1, LatestIsNewest
<1>. QED
  BY <1>1, <1>2, <1>3, PTL DEF Records!Spec

(* No step takes a row away.                                               *)
LEMMA RecordsGrow ==
  ASSUME RecordsConstants, RecordsInv, [Records!Next]_(Records!vars)
  PROVE  \A v \in Records!Parsers, c \in Records!Commits : disk.rows[v][c] <= disk'.rows[v][c]
<1>1. CASE disk'.rows = disk.rows
  BY <1>1 DEF RecordsInv, RecordsTypes
<1>2. CASE \E after \in Nat : disk' = [disk EXCEPT !.rows = Records!Appended(disk.rows, after)]
  BY <1>2, RecordsAppended DEF RecordsInv, RecordsTypes
<1>3. disk'.rows = disk.rows \/ \E after \in Nat : disk' = [disk EXCEPT !.rows = Records!Appended(disk.rows, after)]
  <2>1. disk.watermark \in Nat /\ disk \in [rows : [Records!Parsers -> [Records!Commits -> 0..2]],
          watermark : {0} \cup Records!Commits, marker : {0} \cup Records!Parsers]
    BY DEF RecordsInv, RecordsTypes, Records!Commits
  <2>2. CASE Records!WalkCommits
    BY <2>1, <2>2 DEF Records!WalkCommits
  <2>3. CASE Records!Reparse
    <3>1. disk' = [disk EXCEPT !.rows = Records!Appended(disk.rows, 0)] \/ disk' = [disk EXCEPT !.marker = world.parser]
      BY <2>3 DEF Records!Reparse
    <3>. QED
      BY <2>1, <3>1
  <2>4. CASE Records!ResolveSha \/ Records!SkipReparse
    BY <2>1, <2>4 DEF Records!ResolveSha, Records!SkipReparse
  <2>5. CASE disk' = disk
    BY <2>5
  <2>. QED
    BY <2>2, <2>3, <2>4, <2>5 DEF Records!Next, Records!Run, Records!Score, Records!FailReparse, Records!Kill,
       Records!Commit, Records!ReleaseParser, Records!vars
<1>. QED
  BY <1>1, <1>2, <1>3

LEMMA ScoredHasRow ==
  ASSUME RecordsConstants, RecordsTypes, NEW c \in Records!Commits
  PROVE  Records!Scored(c) > 0 <=> HasRow(c, 0)
<1>1. HasRow(c, 0) => Records!Scored(c) > 0
  BY LatestIsNewest
<1>2. ~HasRow(c, 0) => Records!Versions(c) = {}
  BY DEF HasRow, Records!Versions, Records!Parsers
<1>3. Records!Versions(c) = {} => Records!Scored(c) = 0
  BY DEF Records!Scored
<1>. QED
  BY <1>1, <1>2, <1>3

(* The governance commits are an at-least-once feed: no commit behind the  *)
(* watermark is missing, and none that was scored ever stops being.        *)
THEOREM RecordsAreAFeed ==
  ASSUME RecordsConstants
  PROVE  Records!Spec => Records!Feed!FeedSpec
<1>. DEFINE scored == {c \in Records!Commits : Records!Scored(c) > 0}
            behind == {c \in Records!Commits : c <= disk.watermark}
<1>1. Records!Init => RecordsInv
  BY RecordsInit
<1>2. RecordsInv /\ [Records!Next]_(Records!vars) => RecordsInv'
  BY RecordsStep
<1>3. RecordsInv => behind \subseteq scored
  <2>. SUFFICES ASSUME RecordsInv, NEW c \in Records!Commits, c <= disk.watermark
                PROVE  Records!Scored(c) > 0
    OBVIOUS
  <2>1. HasRow(c, disk.marker) /\ disk.marker \in Nat /\ RecordsTypes
    BY DEF RecordsInv, RecordsWritten, RecordsTypes, Records!Parsers
  <2>. QED
    BY <2>1, LatestIsNewest
<1>4. RecordsInv' => (behind \subseteq scored)'
  BY <1>3, PTL
<1>5. RecordsInv /\ RecordsInv' /\ [Records!Next]_(Records!vars) => scored \subseteq scored'
  <2>. SUFFICES ASSUME RecordsInv, RecordsInv', [Records!Next]_(Records!vars),
                       NEW c \in Records!Commits, Records!Scored(c) > 0
                PROVE  (Records!Scored(c) > 0)'
    BY DEF scored, Records!Commits
  <2>1. HasRow(c, 0)
    BY ScoredHasRow DEF RecordsInv
  <2>2. PICK w \in Records!Parsers : w >= 0 /\ disk.rows[w][c] > 0
    BY <2>1 DEF HasRow
  <2>3. disk.rows[w][c] <= disk'.rows[w][c]
    BY RecordsGrow
  <2>6. disk.rows[w][c] \in 0..2
    BY DEF RecordsInv, RecordsTypes
  <2>7. disk'.rows[w][c] \in 0..2
    <3>1. disk'.rows \in [1..MaxParser -> [1..RecordsCommits -> 0..2]]
      BY DEF RecordsInv, RecordsTypes, Records!Parsers, Records!Commits
    <3>2. w \in 1..MaxParser /\ c \in 1..RecordsCommits
      BY DEF Records!Parsers, Records!Commits
    <3>. QED
      BY <3>1, <3>2
  <2>4. HasRow(c, 0)'
    BY <2>2, <2>3, <2>6, <2>7 DEF HasRow, Records!Parsers
  <2>5. (HasRow(c, 0) => Records!Scored(c) > 0)'
    BY ScoredHasRow, PTL DEF RecordsInv
  <2>. QED
    BY <2>4, <2>5
<1>6. Records!Init => Records!Feed!FeedInit
  <2>1. behind \subseteq scored /\ scored \subseteq Records!Commits <=> Records!Feed!FeedInit
    BY DEF Records!Feed!FeedInit
  <2>. QED
    BY <1>1, <1>3, <2>1
<1>7. RecordsInv /\ RecordsInv' /\ [Records!Next]_(Records!vars) => [Records!Feed!Deliver]_(Records!Feed!feed)
  <2>1. scored \subseteq scored' /\ (behind \subseteq scored)' => Records!Feed!Deliver
    BY DEF Records!Feed!Deliver, Records!Commits
  <2>. QED
    BY <1>4, <1>5, <2>1
<1>. QED
  BY <1>1, <1>2, <1>6, <1>7, PTL DEF Records!Spec, Records!Feed!FeedSpec

(* With the first parser and no kill: a commit has one row, written before *)
(* the watermark passes it, and the marker is there before a second night. *)
RecordsOnce ==
  /\ \A v \in Records!Parsers, c \in Records!Commits : v > world.parser => disk.rows[v][c] = 0
  /\ world.parser = 1 /\ "kill" \notin faults =>
       /\ \A c \in Records!Commits : disk.rows[1][c] <= 1
       /\ run.pc # "mark" => \A c \in Records!Commits : disk.watermark < c => disk.rows[1][c] = 0
       /\ run.pc = "mark" => \A c \in Records!Commits : world.tip < c => disk.rows[1][c] = 0
       /\ run.pc # "marker"
       /\ run.pc \in {"idle", "score"} => disk.watermark = 0 \/ disk.marker = 1
       /\ run.pc \in {"mark", "reparse"} /\ run.hadHistory => disk.marker = 1

LEMMA RecordsOnceStep ==
  ASSUME RecordsConstants, RecordsInv, RecordsOnce, [Records!Next]_(Records!vars)
  PROVE  RecordsOnce'
<1>. USE DEF Records!Step
<1>0. /\ RecordsTypes
      /\ disk.watermark \in Nat /\ world.tip \in Nat /\ world.parser \in Nat
      /\ disk.watermark <= world.tip /\ disk.marker \in Nat /\ disk.marker <= world.parser
      /\ \A v \in Records!Parsers, c \in Records!Commits : disk.rows[v][c] \in 0..2
      /\ world.parser \in Records!Parsers
  BY DEF RecordsInv, RecordsTypes, RecordsWritten, RecordsConstants, Records!Commits, Records!Parsers
<1>00. Records!Commits \subseteq Nat /\ Records!Parsers \subseteq Nat
  BY DEF Records!Commits, Records!Parsers
<1>1. CASE Records!WalkCommits
  <2>. DEFINE rows == Records!Appended(disk.rows, disk.watermark)
  <2>1. /\ \A v \in Records!Parsers : v # world.parser => rows[v] = disk.rows[v]
        /\ \A c \in Records!Commits : IF disk.watermark < c /\ c <= world.tip
                                        THEN rows[world.parser][c] <= disk.rows[world.parser][c] + 1
                                        ELSE rows[world.parser][c] = disk.rows[world.parser][c]
    BY <1>0, RecordsAppended
  <2>2. /\ run.pc = "idle" /\ run' = [pc |-> "mark", hadHistory |-> disk.watermark # 0]
        /\ disk' = [disk EXCEPT !.rows = rows] /\ faults' = faults /\ world' = world
    BY <1>1 DEF Records!WalkCommits
  <2>. HIDE DEF rows
  <2>3. disk'.rows = rows /\ disk'.watermark = disk.watermark /\ disk'.marker = disk.marker
    BY <1>0, <2>2 DEF RecordsTypes
  <2>4. \A v \in Records!Parsers, c \in Records!Commits : v > world.parser => rows[v][c] = 0
    BY <1>0, <1>00, <2>1 DEF RecordsOnce
  <2>5. ASSUME world.parser = 1, "kill" \notin faults, NEW c \in Records!Commits
        PROVE  rows[1][c] <= 1 /\ (world.tip < c => rows[1][c] = 0)
    BY <1>0, <1>00, <2>1, <2>2, <2>5 DEF RecordsOnce
  <2>. QED
    BY <2>2, <2>3, <2>4, <2>5 DEF RecordsOnce
<1>2. CASE Records!ResolveSha \/ Records!SkipReparse
  <2>1. CASE Records!ResolveSha
    <3>1. /\ run.pc = "mark" /\ run' = [run EXCEPT !.pc = "reparse"]
          /\ disk' = [disk EXCEPT !.watermark = world.tip] /\ faults' = faults /\ world' = world
      BY <2>1 DEF Records!ResolveSha
    <3>2. /\ run'.pc = "reparse" /\ run'.hadHistory = run.hadHistory
          /\ disk'.rows = disk.rows /\ disk'.watermark = world.tip /\ disk'.marker = disk.marker
      BY <1>0, <3>1 DEF RecordsTypes
    <3>. QED
      BY <3>1, <3>2 DEF RecordsOnce
  <2>2. CASE Records!SkipReparse
    <3>1. /\ run.pc = "reparse" /\ run' = [run EXCEPT !.pc = "score"]
          /\ disk' = [disk EXCEPT !.marker = world.parser] /\ faults' = faults /\ world' = world
      BY <2>2 DEF Records!SkipReparse
    <3>2. /\ run'.pc = "score"
          /\ disk'.rows = disk.rows /\ disk'.watermark = disk.watermark /\ disk'.marker = world.parser
      BY <1>0, <3>1 DEF RecordsTypes
    <3>. QED
      BY <3>1, <3>2 DEF RecordsOnce
  <2>. QED
    BY <1>2, <2>1, <2>2
<1>3. CASE Records!Reparse
  <2>1. world.parser # 1 \/ "kill" \in faults
    BY <1>3 DEF Records!Reparse, RecordsOnce
  <2>2. CASE disk' = [disk EXCEPT !.rows = Records!Appended(disk.rows, 0)]
    <3>. DEFINE rows == Records!Appended(disk.rows, 0)
    <3>1. \A v \in Records!Parsers : v # world.parser => rows[v] = disk.rows[v]
      BY <1>0, RecordsAppended
    <3>2. disk'.rows = rows
      BY <1>0, <2>2 DEF RecordsTypes
    <3>. HIDE DEF rows
    <3>. QED
      BY <1>0, <1>00, <1>3, <2>1, <3>1, <3>2 DEF RecordsOnce, Records!Reparse
  <2>3. CASE disk' = [disk EXCEPT !.marker = world.parser]
    <3>1. disk'.rows = disk.rows
      BY <1>0, <2>3 DEF RecordsTypes
    <3>. QED
      BY <1>3, <2>1, <3>1 DEF RecordsOnce, Records!Reparse
  <2>. QED
    BY <1>3, <2>2, <2>3 DEF Records!Reparse
<1>4. CASE Records!FailReparse
  <2>1. /\ run' = [run EXCEPT !.pc = "score"] /\ disk' = disk /\ faults' = faults /\ world' = world
        /\ world.parser # 1 \/ "kill" \in faults
    BY <1>4 DEF Records!FailReparse, RecordsOnce
  <2>. QED
    BY <2>1 DEF RecordsOnce
<1>5. CASE Records!Score
  <2>1. run.pc = "score" /\ run'.pc = "idle" /\ disk' = disk /\ faults' = faults /\ world' = world
    BY <1>5 DEF Records!Score, Records!Idle
  <2>. QED
    BY <2>1 DEF RecordsOnce
<1>6. CASE Records!Kill
  BY <1>6 DEF Records!Kill, RecordsOnce
<1>7. CASE Records!Commit
  <2>1. /\ run.pc = "idle" /\ run' = run /\ faults' = faults /\ disk' = disk
        /\ world'.parser = world.parser
    BY <1>0, <1>7 DEF Records!Commit, RecordsTypes
  <2>. QED
    BY <2>1 DEF RecordsOnce
<1>8. CASE Records!ReleaseParser
  <2>1. /\ run' = run /\ faults' = faults /\ disk' = disk /\ world'.parser = world.parser + 1
    BY <1>0, <1>8 DEF Records!ReleaseParser, RecordsTypes
  <2>2. world'.parser # 1
    BY <1>0, <1>00, <2>1 DEF Records!Parsers
  <2>3. \A v \in Records!Parsers : v > world'.parser => v > world.parser
    BY <1>0, <1>00, <2>1
  <2>. QED
    BY <2>1, <2>2, <2>3 DEF RecordsOnce
<1>9. CASE UNCHANGED Records!vars
  BY <1>9 DEF Records!vars, RecordsOnce
<1>. QED
  BY <1>1, <1>2, <1>3, <1>4, <1>5, <1>6, <1>7, <1>8, <1>9 DEF Records!Next, Records!Run

(* A commit is scored once as long as the parser is the first and no night *)
(* is killed, although the walk and the marker are separate writes.        *)
THEOREM RecordsAreScoredOnce ==
  ASSUME RecordsConstants
  PROVE  Records!Spec => []Records!ScoredOnce
<1>1. Records!Init => RecordsInv /\ RecordsOnce
  <2>1. Records!Init => RecordsOnce
    BY DEF RecordsConstants, Records!Init, RecordsOnce, Records!Idle, Records!Commits, Records!Parsers
  <2>. QED
    BY <2>1, RecordsInit
<1>2. RecordsInv /\ RecordsOnce /\ [Records!Next]_(Records!vars) => RecordsInv' /\ RecordsOnce'
  BY RecordsStep, RecordsOnceStep
<1>3. RecordsInv /\ RecordsOnce => Records!ScoredOnce
  <2>. SUFFICES ASSUME RecordsInv, RecordsOnce, world.parser = 1, "kill" \notin faults,
                       NEW c \in Records!Commits
                PROVE  Records!Scored(c) <= 1
    BY DEF Records!ScoredOnce
  <2>1. CASE Records!Versions(c) = {}
    BY <2>1 DEF Records!Scored
  <2>2. CASE HasRow(c, 0)
    <3>1. /\ Records!Latest(c) \in Records!Parsers /\ disk.rows[Records!Latest(c)][c] > 0
          /\ Records!Scored(c) = disk.rows[Records!Latest(c)][c]
      BY <2>2, LatestIsNewest DEF RecordsInv
    <3>2. ~(Records!Latest(c) > 1)
      BY <3>1 DEF RecordsOnce
    <3>3. Records!Latest(c) = 1
      BY <3>1, <3>2 DEF Records!Parsers
    <3>. QED
      BY <3>1, <3>3 DEF RecordsOnce
  <2>. QED
    BY <2>1, <2>2 DEF HasRow, Records!Versions, Records!Parsers
<1>. QED
  BY <1>1, <1>2, <1>3, PTL DEF Records!Spec

-----------------------------------------------------------------------------
(* The seed of a subproject.                                               *)

SeedConstants == NumRepos \in Nat /\ NumTables \in Nat \ {0} /\ MaxPRs \in Nat \ {0}

SeedTypes ==
  /\ faults \in SeedEnvironments
  /\ world \in [prs : [Seed!Repos -> 1..MaxPRs], rows : [Seed!Repos -> 0..MaxPRs],
                cursors : [Seed!Repos -> Seed!Cursor]]
  /\ disk \in [rows : Seed!Rows, seeded : SUBSET Seed!Tables, marks : [Seed!Repos -> Seed!Cursor]]
  /\ run \in [pc : {"idle", "seed", "run", "mark"}, repo : 1..(NumRepos + 1), table : Seed!Tables]

(* The tables the seed has been at, in this night.                         *)
Copied(r, t) == r < run.repo \/ (r = run.repo /\ t < run.table)

(* A cursor of the root is never ahead of its rows, and what the seed has  *)
(* been at is there when the cursors are copied.                           *)
SeedHeld ==
  /\ \A r \in Seed!Repos : world.cursors[r] <= world.rows[r] /\ world.rows[r] <= world.prs[r]
  /\ \A r \in Seed!Repos, t \in Seed!Tables :
       disk.marks[r] <= disk.rows[r][t] /\ disk.rows[r][t] <= world.prs[r]
  /\ run.pc = "seed" =>
       /\ ~Seed!Marked
       /\ \A r \in Seed!Repos, t \in Seed!Tables : Copied(r, t) /\ world.rows[r] > 0 =>
            t \in disk.seeded /\ disk.rows[r][t] >= world.rows[r]
  /\ run.pc = "mark" => \A r \in Seed!Repos, t, u \in Seed!Tables : disk.rows[r][t] = disk.rows[r][u]

(* A second seed raises at the first table that has rows, so that no table *)
(* is ever replaced by fewer rows of the root's.                           *)
SeedOrder ==
  /\ disk.seeded # {} => 1 \in disk.seeded
  /\ ~Seed!Marked /\ disk.seeded = {} =>
       \A r \in Seed!Repos : \/ world.rows[r] = 0
                             \/ /\ run.pc \in {"idle", "seed"}
                                /\ \A t \in Seed!Tables : disk.rows[r][t] <= world.rows[r]
  /\ run.pc = "seed" =>
       \/ \A r \in Seed!Repos, t \in Seed!Tables : world.rows[r] > 0 => disk.rows[r][t] <= world.rows[r]
       \/ /\ 1 \in disk.seeded
          /\ run.repo \in Seed!Repos /\ world.rows[run.repo] > 0 => run.table = 1

SeedInv == SeedTypes /\ SeedHeld /\ SeedOrder

LEMMA SeedInit == SeedConstants /\ Seed!Init => SeedInv
  BY DEF SeedConstants, Seed!Init, SeedInv, SeedTypes, SeedHeld, SeedOrder, Copied, Seed!Repos, Seed!Tables,
         Seed!Cursor, Seed!Absent, Seed!Rows, Seed!None, Seed!NoMarks, Seed!Idle, Seed!Marked

(* What all proofs of a step need to know of the numbers.                  *)
LEMMA SeedNumbers ==
  ASSUME SeedConstants, SeedTypes
  PROVE  /\ Seed!Repos \subseteq Nat /\ Seed!Tables \subseteq Nat /\ 1 \in Seed!Tables
         /\ Seed!Cursor \subseteq Int /\ Seed!Absent \in Seed!Cursor /\ 0..MaxPRs \subseteq Seed!Cursor
         /\ \A r \in Seed!Repos : /\ world.prs[r] \in 1..MaxPRs /\ world.rows[r] \in 0..MaxPRs
                                  /\ world.cursors[r] \in Seed!Cursor /\ disk.marks[r] \in Seed!Cursor
                                  /\ world.prs[r] \in Int /\ world.rows[r] \in Int
                                  /\ world.cursors[r] \in Int /\ disk.marks[r] \in Int
         /\ \A r \in Seed!Repos, t \in Seed!Tables : disk.rows[r][t] \in 0..MaxPRs /\ disk.rows[r][t] \in Nat
         /\ run.repo \in Nat /\ run.table \in Seed!Tables /\ run.repo <= NumRepos + 1
<1>1. /\ Seed!Repos \subseteq Nat /\ Seed!Tables \subseteq Nat /\ 1 \in Seed!Tables
  BY DEF SeedConstants, Seed!Repos, Seed!Tables
<1>2. Seed!Cursor \subseteq Int /\ Seed!Absent \in Seed!Cursor /\ 0..MaxPRs \subseteq Seed!Cursor /\ MaxPRs \in Nat
  BY DEF SeedConstants, Seed!Cursor, Seed!Absent
<1>3. \A r \in Seed!Repos : /\ world.prs[r] \in 1..MaxPRs /\ world.rows[r] \in 0..MaxPRs
                             /\ world.cursors[r] \in Seed!Cursor /\ disk.marks[r] \in Seed!Cursor
  BY DEF SeedTypes
<1>4. \A r \in Seed!Repos : /\ world.prs[r] \in Int /\ world.rows[r] \in Int
                             /\ world.cursors[r] \in Int /\ disk.marks[r] \in Int
  <2>1. 1..MaxPRs \subseteq Int /\ 0..MaxPRs \subseteq Int
    BY <1>2
  <2>. QED
    BY <1>2, <1>3, <2>1
<1>5. \A r \in Seed!Repos, t \in Seed!Tables : disk.rows[r][t] \in 0..MaxPRs
  BY DEF SeedTypes, Seed!Rows
<1>6. \A r \in Seed!Repos, t \in Seed!Tables : disk.rows[r][t] \in Nat
  BY <1>2, <1>5
<1>7. run.repo \in Nat /\ run.table \in Seed!Tables /\ run.repo <= NumRepos + 1
  BY DEF SeedConstants, SeedTypes
<1>. QED
  BY <1>1, <1>2, <1>3, <1>4, <1>5, <1>6, <1>7

(* The next table, or the first of the next repository.                    *)
LEMMA SeedNextTable ==
  ASSUME SeedConstants, SeedTypes, run.repo <= NumRepos
  PROVE  LET next == Seed!NextTable
         IN  /\ next \in [pc : {run.pc}, repo : 1..(NumRepos + 1), table : Seed!Tables]
             /\ \A r \in Seed!Repos, t \in Seed!Tables :
                  (r < next.repo \/ (r = next.repo /\ t < next.table)) <=>
                     Copied(r, t) \/ (r = run.repo /\ t = run.table)
             /\ next.repo # run.repo => next.table = 1
<1>1. CASE run.table < NumTables
  <2>1. Seed!NextTable = [run EXCEPT !.table = run.table + 1]
    BY <1>1 DEF Seed!NextTable
  <2>2. run.table + 1 \in Seed!Tables /\ run.table \in Nat /\ Seed!Tables \subseteq Nat
    BY <1>1, SeedNumbers DEF SeedConstants, SeedTypes, Seed!Tables
  <2>3. /\ Seed!NextTable \in [pc : {run.pc}, repo : 1..(NumRepos + 1), table : Seed!Tables]
        /\ Seed!NextTable.repo = run.repo /\ Seed!NextTable.table = run.table + 1
    BY <2>1, <2>2 DEF SeedTypes
  <2>. QED
    BY <2>2, <2>3 DEF Copied
<1>2. CASE ~(run.table < NumTables)
  <2>1. Seed!NextTable = [run EXCEPT !.table = 1, !.repo = run.repo + 1]
    BY <1>2 DEF Seed!NextTable
  <2>2. run.repo + 1 \in 1..(NumRepos + 1) /\ run.repo \in Nat /\ run.table = NumTables /\ 1 \in Seed!Tables
    BY <1>2, SeedNumbers DEF SeedConstants, SeedTypes, Seed!Tables
  <2>3. /\ Seed!NextTable \in [pc : {run.pc}, repo : 1..(NumRepos + 1), table : Seed!Tables]
        /\ Seed!NextTable.repo = run.repo + 1 /\ Seed!NextTable.table = 1
    BY <2>1, <2>2 DEF SeedTypes
  <2>4. \A t \in Seed!Tables : t \in Nat /\ 1 <= t /\ (t < NumTables \/ t = NumTables)
    BY DEF Seed!Tables, SeedConstants
  <2>5. Seed!Repos \subseteq Nat
    BY DEF Seed!Repos
  <2>. QED
    BY <2>2, <2>3, <2>4, <2>5 DEF Copied
<1>. QED
  BY <1>1, <1>2

LEMMA SeedStep == SeedConstants /\ SeedInv /\ [Seed!Next]_(Seed!vars) => SeedInv'
<1>. SUFFICES ASSUME SeedConstants, SeedInv, [Seed!Next]_(Seed!vars) PROVE SeedInv'
  OBVIOUS
<1>0. SeedTypes /\ SeedHeld /\ SeedOrder
  BY DEF SeedInv
<1>00. /\ Seed!Repos \subseteq Nat /\ Seed!Tables \subseteq Nat /\ 1 \in Seed!Tables
       /\ Seed!Cursor \subseteq Int /\ Seed!Absent \in Seed!Cursor /\ 0..MaxPRs \subseteq Seed!Cursor
       /\ \A r \in Seed!Repos : /\ world.prs[r] \in 1..MaxPRs /\ world.rows[r] \in 0..MaxPRs
                                /\ world.cursors[r] \in Seed!Cursor /\ disk.marks[r] \in Seed!Cursor
                                /\ world.prs[r] \in Int /\ world.rows[r] \in Int
                                /\ world.cursors[r] \in Int /\ disk.marks[r] \in Int
       /\ \A r \in Seed!Repos, t \in Seed!Tables : disk.rows[r][t] \in 0..MaxPRs /\ disk.rows[r][t] \in Nat
       /\ run.repo \in Nat /\ run.table \in Seed!Tables /\ run.repo <= NumRepos + 1
  BY <1>0, SeedNumbers
<1>1. ASSUME NEW r \in Seed!Repos, Seed!Submit(r) PROVE SeedInv'
  <2>1. /\ world' = [world EXCEPT !.prs[r] = world.prs[r] + 1] /\ world.prs[r] < MaxPRs
        /\ faults' = faults /\ disk' = disk /\ run' = run
    BY <1>1 DEF Seed!Submit
  <2>2. world.prs[r] + 1 \in 1..MaxPRs
    BY <1>00, <2>1 DEF SeedConstants
  <2>3. world' \in [prs : [Seed!Repos -> 1..MaxPRs], rows : [Seed!Repos -> 0..MaxPRs],
                    cursors : [Seed!Repos -> Seed!Cursor]]
    BY <1>0, <2>1, <2>2 DEF SeedTypes
  <2>4. SeedTypes'
    BY <1>0, <2>1, <2>3 DEF SeedTypes
  <2>5. world'.rows = world.rows /\ world'.cursors = world.cursors
        /\ \A q \in Seed!Repos : world.prs[q] <= world'.prs[q] /\ world'.prs[q] \in Nat
    <3>1. world'.prs = [world.prs EXCEPT ![r] = world.prs[r] + 1]
      BY <1>0, <2>1 DEF SeedTypes
    <3>2. world'.rows = world.rows /\ world'.cursors = world.cursors
      BY <1>0, <2>1 DEF SeedTypes
    <3>3. world.prs \in [Seed!Repos -> 1..MaxPRs]
      BY <1>0 DEF SeedTypes
    <3>4. ASSUME NEW q \in Seed!Repos
          PROVE  world.prs[q] <= world'.prs[q] /\ world'.prs[q] \in Nat
      <4>1. world.prs[q] \in Nat /\ world.prs[r] \in Nat
        BY <1>00, <3>3
      <4>2. world'.prs[q] = IF q = r THEN world.prs[r] + 1 ELSE world.prs[q]
        BY <3>1, <3>3
      <4>. QED
        BY <4>1, <4>2
    <3>. QED
      BY <3>2, <3>4
  <2>6. SeedHeld'
    <3>1. \A q \in Seed!Repos : world.rows[q] <= world'.prs[q]
      BY <1>0, <1>00, <2>5 DEF SeedHeld
    <3>2. ASSUME NEW q \in Seed!Repos, NEW t \in Seed!Tables
          PROVE  disk.rows[q][t] <= world'.prs[q]
      <4>1. disk.rows[q][t] <= world.prs[q] /\ world.prs[q] <= world'.prs[q]
        BY <1>0, <2>5 DEF SeedHeld
      <4>2. disk.rows[q][t] \in Int /\ world.prs[q] \in Int /\ world'.prs[q] \in Int
        BY <1>00, <2>5
      <4>. QED
        BY <4>1, <4>2
    <3>. QED
      BY <1>0, <2>1, <2>5, <3>1, <3>2 DEF SeedHeld, Copied, Seed!Marked
  <2>7. SeedOrder'
    BY <1>0, <2>1, <2>5 DEF SeedOrder, Seed!Marked
  <2>. QED
    BY <2>4, <2>6, <2>7 DEF SeedInv
<1>2. ASSUME NEW r \in Seed!Repos, Seed!RootCollect(r) \/ Seed!RootDrops(r) PROVE SeedInv'
  <2>1. /\ run.pc = "idle" /\ faults' = faults /\ disk' = disk /\ run' = run
        /\ \/ world' = [world EXCEPT !.rows[r] = world.prs[r], !.cursors[r] = world.prs[r]]
           \/ world' = [world EXCEPT !.rows[r] = world.prs[r]]
           \/ world' = [world EXCEPT !.cursors[r] = Seed!Absent]
    BY <1>2 DEF Seed!RootCollect, Seed!RootDrops
  <2>2. /\ world.prs[r] \in 0..MaxPRs /\ world.prs[r] \in Seed!Cursor
    BY <1>00
  <2>3. /\ world' \in [prs : [Seed!Repos -> 1..MaxPRs], rows : [Seed!Repos -> 0..MaxPRs],
                       cursors : [Seed!Repos -> Seed!Cursor]]
        /\ world'.prs = world.prs
        /\ \A q \in Seed!Repos : q # r => world'.rows[q] = world.rows[q] /\ world'.cursors[q] = world.cursors[q]
        /\ \/ world'.rows[r] = world.prs[r] /\ world'.cursors[r] \in {world.prs[r], world.cursors[r]}
           \/ world'.rows[r] = world.rows[r] /\ world'.cursors[r] = Seed!Absent
    <3>1. CASE world' = [world EXCEPT !.rows[r] = world.prs[r], !.cursors[r] = world.prs[r]]
      BY <1>0, <2>2, <3>1 DEF SeedTypes
    <3>2. CASE world' = [world EXCEPT !.rows[r] = world.prs[r]]
      BY <1>0, <2>2, <3>2 DEF SeedTypes
    <3>3. CASE world' = [world EXCEPT !.cursors[r] = Seed!Absent]
      BY <1>0, <1>00, <3>3 DEF SeedTypes
    <3>. QED
      BY <2>1, <3>1, <3>2, <3>3
  <2>4. SeedTypes'
    BY <1>0, <2>1, <2>3 DEF SeedTypes
  <2>5. \A q \in Seed!Repos : world'.cursors[q] <= world'.rows[q] /\ world'.rows[q] <= world'.prs[q]
    <3>1. world.cursors[r] <= world.rows[r] /\ world.rows[r] <= world.prs[r] /\ Seed!Absent <= world.rows[r]
      BY <1>0, <1>00 DEF SeedHeld, Seed!Absent
    <3>2. world'.cursors[r] <= world'.rows[r] /\ world'.rows[r] <= world'.prs[r]
      BY <1>00, <2>3, <3>1
    <3>. QED
      BY <1>0, <2>3, <3>2 DEF SeedHeld
  <2>6. SeedHeld'
    BY <1>0, <2>1, <2>3, <2>5 DEF SeedHeld
  <2>7. ASSUME ~Seed!Marked, disk.seeded = {}, NEW q \in Seed!Repos
        PROVE  world'.rows[q] = 0 \/ \A t \in Seed!Tables : disk.rows[q][t] <= world'.rows[q]
    <3>1. CASE q = r /\ world'.rows[r] = world.prs[r]
      BY <1>0, <3>1 DEF SeedHeld
    <3>2. CASE world'.rows[q] = world.rows[q]
      BY <1>0, <2>7, <3>2 DEF SeedOrder
    <3>. QED
      BY <2>3, <3>1, <3>2
  <2>8. SeedOrder'
    BY <1>0, <2>1, <2>7 DEF SeedOrder, Seed!Marked
  <2>. QED
    BY <2>4, <2>6, <2>8 DEF SeedInv
<1>3. CASE Seed!BeginSeed
  <2>1. /\ run.pc = "idle" /\ faults' = faults /\ disk' = disk /\ world' = world
        /\ run' = [pc |-> IF Seed!Marked THEN "run" ELSE "seed", repo |-> 1, table |-> 1]
    BY <1>3 DEF Seed!BeginSeed, Seed!Idle
  <2>2. SeedTypes'
    BY <1>0, <1>00, <2>1 DEF SeedTypes, SeedConstants
  <2>3. \A r \in Seed!Repos, t \in Seed!Tables : ~Copied(r, t)'
    BY <2>1 DEF Copied, Seed!Repos, Seed!Tables
  <2>4. SeedHeld'
    BY <1>0, <2>1, <2>3 DEF SeedHeld, Seed!Marked
  <2>5. SeedOrder'
    BY <1>0, <2>1 DEF SeedOrder, Seed!Marked
  <2>. QED
    BY <2>2, <2>4, <2>5 DEF SeedInv
<1>4. CASE Seed!CopyTable
  <2>. DEFINE q == run.repo
              u == run.table
  <2>1. /\ run.pc = "seed" /\ q <= NumRepos /\ (world.rows[q] = 0 \/ u \notin disk.seeded)
        /\ faults' = faults /\ world' = world /\ run' = Seed!NextTable
        /\ disk' = IF world.rows[q] = 0 THEN disk
                   ELSE [disk EXCEPT !.rows[q][u] = world.rows[q], !.seeded = @ \cup {u}]
    BY <1>4 DEF Seed!CopyTable, Seed!Copying
  <2>2. q \in Seed!Repos /\ u \in Seed!Tables
    BY <1>0, <1>00, <2>1 DEF Seed!Repos, SeedTypes, SeedConstants
  <2>3. /\ run' \in [pc : {"seed"}, repo : 1..(NumRepos + 1), table : Seed!Tables]
        /\ \A r \in Seed!Repos, t \in Seed!Tables : Copied(r, t)' <=> Copied(r, t) \/ (r = q /\ t = u)
        /\ run'.repo # q => run'.table = 1
    BY <1>0, <2>1, SeedNextTable DEF Copied
  <2>4. /\ disk' \in [rows : Seed!Rows, seeded : SUBSET Seed!Tables, marks : [Seed!Repos -> Seed!Cursor]]
        /\ disk'.marks = disk.marks
        /\ world.rows[q] = 0 => disk'.rows = disk.rows /\ disk'.seeded = disk.seeded
        /\ world.rows[q] > 0 =>
             /\ disk'.seeded = disk.seeded \cup {u}
             /\ \A r \in Seed!Repos, t \in Seed!Tables :
                  disk'.rows[r][t] = IF r = q /\ t = u THEN world.rows[q] ELSE disk.rows[r][t]
    <3>. HIDE DEF q, u
    <3>1. CASE world.rows[q] = 0
      BY <1>0, <2>1, <3>1 DEF SeedTypes
    <3>2. CASE world.rows[q] # 0
      <4>1. disk' = [disk EXCEPT !.rows[q][u] = world.rows[q], !.seeded = @ \cup {u}]
        BY <2>1, <3>2
      <4>2. /\ disk.rows \in [Seed!Repos -> [Seed!Tables -> 0..MaxPRs]] /\ disk.seeded \in SUBSET Seed!Tables
            /\ world.rows[q] \in 0..MaxPRs /\ disk.marks \in [Seed!Repos -> Seed!Cursor]
        BY <1>0, <1>00, <2>2 DEF SeedTypes, Seed!Rows
      <4>3. disk'.rows = [disk.rows EXCEPT ![q][u] = world.rows[q]] /\ disk'.seeded = disk.seeded \cup {u}
            /\ disk'.marks = disk.marks /\ disk' = [rows |-> disk'.rows, seeded |-> disk'.seeded, marks |-> disk'.marks]
        BY <1>0, <4>1 DEF SeedTypes
      <4>4. disk'.rows \in [Seed!Repos -> [Seed!Tables -> 0..MaxPRs]]
            /\ \A r \in Seed!Repos, t \in Seed!Tables :
                  disk'.rows[r][t] = IF r = q /\ t = u THEN world.rows[q] ELSE disk.rows[r][t]
        BY <2>2, <4>2, <4>3
      <4>5. disk'.seeded \in SUBSET Seed!Tables
        BY <2>2, <4>2, <4>3
      <4>6. disk' \in [rows : Seed!Rows, seeded : SUBSET Seed!Tables, marks : [Seed!Repos -> Seed!Cursor]]
        BY <4>2, <4>3, <4>4, <4>5 DEF Seed!Rows
      <4>. QED
        BY <3>2, <4>3, <4>4, <4>6
    <3>. QED
      BY <1>00, <2>2, <3>1, <3>2
  <2>. HIDE DEF q, u
  <2>5. SeedTypes'
    BY <1>0, <2>1, <2>3, <2>4 DEF SeedTypes
  <2>6. ~Seed!Marked /\ ~Seed!Marked'
    BY <1>0, <2>1, <2>4 DEF SeedHeld, Seed!Marked
  <2>7. \A r \in Seed!Repos : disk.marks[r] = Seed!Absent
    BY <2>6 DEF Seed!Marked
  <2>8. \A r \in Seed!Repos, t \in Seed!Tables :
          disk'.marks[r] <= disk'.rows[r][t] /\ disk'.rows[r][t] <= world.prs[r]
    BY <1>0, <1>00, <2>2, <2>4, <2>7 DEF SeedHeld, Seed!Absent
  <2>9. ASSUME NEW r \in Seed!Repos, NEW t \in Seed!Tables, Copied(r, t)', world.rows[r] > 0
        PROVE  t \in disk'.seeded /\ disk'.rows[r][t] >= world.rows[r]
    <3>1. CASE r = q /\ t = u
      BY <1>00, <2>4, <2>9, <3>1
    <3>2. CASE ~(r = q /\ t = u)
      <4>1. t \in disk.seeded /\ disk.rows[r][t] >= world.rows[r]
        BY <1>0, <2>1, <2>3, <2>9, <3>2 DEF SeedHeld
      <4>. QED
        BY <1>00, <2>2, <2>4, <3>2, <4>1
    <3>. QED
      BY <3>1, <3>2
  <2>10. SeedHeld'
    BY <1>0, <2>1, <2>3, <2>6, <2>8, <2>9 DEF SeedHeld
  <2>11. CASE world.rows[q] = 0
    <3>1. ~(run'.repo \in Seed!Repos /\ world.rows[run'.repo] > 0) \/ run'.table = 1
      BY <1>00, <2>2, <2>3, <2>11
    <3>2. disk'.rows = disk.rows /\ disk'.seeded = disk.seeded
      BY <2>4, <2>11
    <3>. QED
      BY <1>0, <2>1, <2>3, <2>5, <2>6, <2>10, <3>1, <3>2 DEF SeedInv, SeedOrder
  <2>12. CASE world.rows[q] > 0
    <3>1. \A r \in Seed!Repos, t \in Seed!Tables : world.rows[r] > 0 => disk.rows[r][t] <= world.rows[r]
      BY <1>0, <2>1, <2>2, <2>12 DEF SeedOrder, q, u
    <3>2. \A r \in Seed!Repos, t \in Seed!Tables : world.rows[r] > 0 => disk'.rows[r][t] <= world.rows[r]
      BY <1>00, <2>2, <2>4, <2>12, <3>1
    <3>3. 1 \in disk'.seeded
      <4>1. CASE u = 1
        BY <2>4, <2>12, <4>1
      <4>2. CASE u # 1
        <5>1. Copied(q, 1)
          BY <2>2, <4>2 DEF Copied, q, u, Seed!Tables, SeedConstants
        <5>. QED
          BY <1>0, <1>00, <2>1, <2>2, <2>4, <2>12, <5>1 DEF SeedHeld
      <4>. QED
        BY <4>1, <4>2
    <3>4. SeedOrder'
      BY <2>1, <2>3, <3>2, <3>3 DEF SeedOrder
    <3>. QED
      BY <2>5, <2>10, <3>4 DEF SeedInv
  <2>. QED
    <3>1. world.rows[q] \in 0..MaxPRs /\ MaxPRs \in Nat
      BY <1>00, <2>2 DEF SeedConstants
    <3>. QED
      BY <2>11, <2>12, <3>1
<1>5. CASE Seed!CopyRaises
  <2>1. /\ run.pc = "seed" /\ run.table \in disk.seeded /\ run' = [run EXCEPT !.pc = "run"]
        /\ faults' = faults /\ disk' = disk /\ world' = world
    BY <1>5 DEF Seed!CopyRaises, Seed!Copying
  <2>2. SeedTypes' /\ run'.pc = "run"
    BY <1>0, <2>1 DEF SeedTypes
  <2>3. SeedHeld' /\ SeedOrder'
    BY <1>0, <2>1, <2>2 DEF SeedHeld, SeedOrder, Seed!Marked
  <2>. QED
    BY <2>2, <2>3 DEF SeedInv
<1>6. CASE Seed!EndSeed
  <2>1. /\ run.pc = "seed" /\ run.repo > NumRepos
        /\ disk' = [disk EXCEPT !.marks = world.cursors] /\ run' = [run EXCEPT !.pc = "run"]
        /\ faults' = faults /\ world' = world
    BY <1>6 DEF Seed!EndSeed
  <2>2. /\ SeedTypes' /\ run'.pc = "run" /\ disk'.rows = disk.rows /\ disk'.marks = world.cursors
        /\ disk'.seeded = disk.seeded
    BY <1>0, <2>1 DEF SeedTypes
  <2>3. \A r \in Seed!Repos, t \in Seed!Tables : Copied(r, t)
    BY <1>00, <2>1 DEF Copied, Seed!Repos, SeedConstants
  <2>4. ASSUME NEW r \in Seed!Repos, NEW t \in Seed!Tables
        PROVE  world.cursors[r] <= disk.rows[r][t]
    <3>1. CASE world.rows[r] > 0
      <4>1. world.rows[r] <= disk.rows[r][t] /\ world.cursors[r] <= world.rows[r]
        BY <1>0, <2>1, <2>3, <3>1 DEF SeedHeld
      <4>. QED
        BY <1>00, <4>1
    <3>2. CASE world.rows[r] = 0
      <4>1. world.cursors[r] <= 0
        BY <1>0, <3>2 DEF SeedHeld
      <4>. QED
        BY <1>00, <4>1
    <3>. QED
      BY <1>00, <3>1, <3>2
  <2>5. SeedHeld'
    BY <1>0, <2>1, <2>2, <2>4 DEF SeedHeld
  <2>6. disk.seeded = {} => \A r \in Seed!Repos : world.rows[r] = 0
    BY <1>0, <1>00, <2>1, <2>3 DEF SeedHeld
  <2>7. SeedOrder'
    BY <1>0, <2>1, <2>2, <2>6 DEF SeedOrder
  <2>. QED
    BY <2>2, <2>5, <2>7 DEF SeedInv
<1>7. CASE Seed!CollectRows
  <2>. DEFINE Row(r, t) == IF world.prs[r] > disk.marks[r] THEN world.prs[r] ELSE disk.rows[r][t]
  <2>1. /\ run.pc = "run" /\ run' = [run EXCEPT !.pc = "mark"] /\ faults' = faults /\ world' = world
        /\ disk' = [disk EXCEPT !.rows = [r \in Seed!Repos |-> [t \in Seed!Tables |-> Row(r, t)]]]
    BY <1>7 DEF Seed!CollectRows
  <2>2. \A r \in Seed!Repos, t \in Seed!Tables : Row(r, t) \in 0..MaxPRs /\ Row(r, t) = world.prs[r]
    BY <1>0, <1>00 DEF SeedHeld
  <2>. HIDE DEF Row
  <2>3. /\ disk'.rows = [r \in Seed!Repos |-> [t \in Seed!Tables |-> Row(r, t)]] /\ disk'.marks = disk.marks
        /\ disk'.seeded = disk.seeded /\ run'.pc = "mark"
    BY <1>0, <2>1 DEF SeedTypes
  <2>4. disk'.rows \in Seed!Rows
    BY <2>2, <2>3 DEF Seed!Rows
  <2>5. SeedTypes'
    BY <1>0, <2>1, <2>3, <2>4 DEF SeedTypes
  <2>6. \A r \in Seed!Repos, t \in Seed!Tables : disk'.rows[r][t] = world.prs[r]
    BY <2>2, <2>3
  <2>7. ASSUME NEW r \in Seed!Repos PROVE disk.marks[r] <= world.prs[r]
    <3>1. disk.marks[r] <= disk.rows[r][1] /\ disk.rows[r][1] <= world.prs[r]
      BY <1>0, <1>00 DEF SeedHeld
    <3>2. disk.marks[r] \in Int /\ disk.rows[r][1] \in Int /\ world.prs[r] \in Int
      BY <1>00
    <3>. QED
      BY <3>1, <3>2
  <2>8. SeedHeld'
    BY <1>0, <1>00, <2>1, <2>3, <2>6, <2>7 DEF SeedHeld
  <2>9. SeedOrder'
    BY <1>0, <2>1, <2>3 DEF SeedOrder, Seed!Marked
  <2>. QED
    BY <2>5, <2>8, <2>9 DEF SeedInv
<1>8. CASE Seed!CollectMarks
  <2>1. /\ run.pc = "mark" /\ run' = [pc |-> "idle", repo |-> 1, table |-> 1] /\ faults' = faults /\ world' = world
        /\ disk' = [disk EXCEPT !.marks = [r \in Seed!Repos |-> disk.rows[r][1]]]
    BY <1>8 DEF Seed!CollectMarks, Seed!Idle
  <2>2. [r \in Seed!Repos |-> disk.rows[r][1]] \in [Seed!Repos -> Seed!Cursor]
    BY <1>00
  <2>3. /\ disk'.rows = disk.rows /\ disk'.marks = [r \in Seed!Repos |-> disk.rows[r][1]] /\ disk'.seeded = disk.seeded
        /\ SeedTypes'
    BY <1>0, <1>00, <2>1, <2>2 DEF SeedTypes, SeedConstants
  <2>4. \A r \in Seed!Repos, t \in Seed!Tables : disk'.marks[r] = disk.rows[r][t]
    BY <1>0, <1>00, <2>1, <2>3 DEF SeedHeld
  <2>5. SeedHeld'
    BY <1>0, <1>00, <2>1, <2>3, <2>4 DEF SeedHeld
  <2>6. \A r \in Seed!Repos : Seed!Marked'
    <3>1. \A r \in Seed!Repos : disk'.marks[r] # Seed!Absent
      BY <1>00, <2>4 DEF Seed!Absent
    <3>. QED
      BY <3>1 DEF Seed!Marked
  <2>7. SeedOrder'
    BY <1>0, <2>1, <2>3, <2>6 DEF SeedOrder
  <2>. QED
    BY <2>3, <2>5, <2>7 DEF SeedInv
<1>9. CASE Seed!Kill
  <2>1. /\ run' = [pc |-> "idle", repo |-> 1, table |-> 1] /\ faults' = faults /\ world' = world /\ disk' = disk
    BY <1>9 DEF Seed!Kill, Seed!Idle
  <2>2. SeedTypes'
    BY <1>0, <1>00, <2>1 DEF SeedTypes, SeedConstants
  <2>3. SeedHeld' /\ SeedOrder'
    BY <1>0, <2>1 DEF SeedHeld, SeedOrder, Seed!Marked
  <2>. QED
    BY <2>2, <2>3 DEF SeedInv
<1>10. CASE UNCHANGED Seed!vars
  BY <1>0, <1>10 DEF Seed!vars, SeedInv, SeedTypes, SeedHeld, SeedOrder, Copied, Seed!Marked
<1>. QED
  BY <1>1, <1>2, <1>3, <1>4, <1>5, <1>6, <1>7, <1>8, <1>9, <1>10 DEF Seed!Next, Seed!Night

(* A seed, cut anywhere or repeated, leaves no cursor in the subproject    *)
(* that its own rows do not bear out.                                      *)
THEOREM SeedIsCovered ==
  ASSUME SeedConstants
  PROVE  Seed!Spec => []Seed!SeededIsCovered
<1>1. Seed!Init => SeedInv
  BY SeedInit
<1>2. SeedInv /\ [Seed!Next]_(Seed!vars) => SeedInv'
  BY SeedStep
<1>3. SeedInv => Seed!SeededIsCovered
  <2>. SUFFICES ASSUME SeedInv, NEW r \in Seed!Repos, NEW t \in Seed!Tables
                PROVE  disk.rows[r][t] >= disk.marks[r]
    BY DEF Seed!SeededIsCovered
  <2>. QED
    BY SeedNumbers DEF SeedInv, SeedHeld
<1>. QED
  BY <1>1, <1>2, <1>3, PTL DEF Seed!Spec

(* What a step of the seed or of a run does to rows and cursors.           *)
LEMMA SeedGrows ==
  ASSUME SeedConstants, SeedInv, [Seed!Next]_(Seed!vars)
  PROVE  /\ \A r \in Seed!Repos, t \in Seed!Tables : disk.rows[r][t] <= disk'.rows[r][t]
         /\ \A r \in Seed!Repos : disk.marks[r] # Seed!Absent => disk'.marks[r] >= disk.marks[r]
<1>0. SeedTypes /\ SeedHeld /\ SeedOrder
  BY DEF SeedInv
<1>00. /\ 1 \in Seed!Tables
       /\ \A r \in Seed!Repos : /\ world.prs[r] \in Int /\ world.rows[r] \in 0..MaxPRs
                                /\ world.cursors[r] \in Int /\ disk.marks[r] \in Int
       /\ \A r \in Seed!Repos, t \in Seed!Tables : disk.rows[r][t] \in Nat
       /\ run.repo \in Nat /\ run.table \in Seed!Tables
  BY <1>0, SeedNumbers
<1>1. CASE Seed!CopyTable
  <2>. DEFINE q == run.repo
              u == run.table
  <2>1. /\ run.pc = "seed" /\ q <= NumRepos /\ (world.rows[q] = 0 \/ u \notin disk.seeded)
        /\ disk' = IF world.rows[q] = 0 THEN disk
                   ELSE [disk EXCEPT !.rows[q][u] = world.rows[q], !.seeded = @ \cup {u}]
    BY <1>1 DEF Seed!CopyTable, Seed!Copying
  <2>2. q \in Seed!Repos /\ u \in Seed!Tables
    BY <1>0, <1>00, <2>1 DEF Seed!Repos, SeedTypes, SeedConstants
  <2>3. CASE world.rows[q] = 0
    BY <1>00, <2>1, <2>3
  <2>4. CASE world.rows[q] # 0
    <3>1. world.rows[q] > 0
      BY <1>00, <2>2, <2>4 DEF SeedConstants
    <3>2. disk.rows[q][u] <= world.rows[q]
      BY <1>0, <2>1, <2>2, <3>1 DEF SeedOrder
    <3>3. /\ disk.rows \in [Seed!Repos -> [Seed!Tables -> 0..MaxPRs]]
          /\ disk'.rows = [disk.rows EXCEPT ![q][u] = world.rows[q]] /\ disk'.marks = disk.marks
      BY <1>0, <2>1, <2>4 DEF SeedTypes, Seed!Rows
    <3>. HIDE DEF q, u
    <3>4. \A r \in Seed!Repos, t \in Seed!Tables :
            disk'.rows[r][t] = IF r = q /\ t = u THEN world.rows[q] ELSE disk.rows[r][t]
      BY <2>2, <3>3
    <3>. QED
      BY <1>00, <3>2, <3>3, <3>4
  <2>. QED
    BY <2>3, <2>4
<1>2. CASE Seed!EndSeed
  <2>1. run.pc = "seed" /\ disk'.rows = disk.rows
    BY <1>0, <1>2 DEF Seed!EndSeed, SeedTypes
  <2>2. \A r \in Seed!Repos : disk.marks[r] = Seed!Absent
    BY <1>0, <2>1 DEF SeedHeld, Seed!Marked
  <2>. QED
    BY <1>00, <2>1, <2>2
<1>3. CASE Seed!CollectRows
  <2>. DEFINE Row(r, t) == IF world.prs[r] > disk.marks[r] THEN world.prs[r] ELSE disk.rows[r][t]
  <2>1. disk' = [disk EXCEPT !.rows = [r \in Seed!Repos |-> [t \in Seed!Tables |-> Row(r, t)]]]
    BY <1>3 DEF Seed!CollectRows
  <2>2. \A r \in Seed!Repos, t \in Seed!Tables : disk.rows[r][t] <= Row(r, t)
    BY <1>0, <1>00 DEF SeedHeld
  <2>. HIDE DEF Row
  <2>3. disk'.rows = [r \in Seed!Repos |-> [t \in Seed!Tables |-> Row(r, t)]] /\ disk'.marks = disk.marks
    BY <1>0, <2>1 DEF SeedTypes
  <2>. QED
    BY <1>00, <2>2, <2>3
<1>4. CASE Seed!CollectMarks
  <2>1. disk'.rows = disk.rows /\ disk'.marks = [r \in Seed!Repos |-> disk.rows[r][1]]
    BY <1>0, <1>4 DEF Seed!CollectMarks, SeedTypes
  <2>2. \A r \in Seed!Repos : disk.marks[r] <= disk.rows[r][1]
    BY <1>0, <1>00 DEF SeedHeld
  <2>. QED
    BY <1>00, <2>1, <2>2
<1>5. CASE disk' = disk
  BY <1>00, <1>5
<1>. QED
  BY <1>1, <1>2, <1>3, <1>4, <1>5 DEF Seed!Next, Seed!Night, Seed!Submit, Seed!RootCollect, Seed!RootDrops, Seed!BeginSeed,
     Seed!CopyRaises, Seed!Kill, Seed!vars

(* Once a repository has a cursor it never moves back, in any seed or run. *)
THEOREM SeedNeverRegresses ==
  ASSUME SeedConstants
  PROVE  Seed!Spec => [][Seed!CursorsAdvance]_(Seed!vars)
<1>1. Seed!Init => SeedInv
  BY SeedInit
<1>2. SeedInv /\ [Seed!Next]_(Seed!vars) => SeedInv'
  BY SeedStep
<1>3. SeedInv /\ [Seed!Next]_(Seed!vars) => Seed!CursorsAdvance
  BY SeedGrows DEF Seed!CursorsAdvance
<1>. QED
  BY <1>1, <1>2, <1>3, PTL DEF Seed!Spec

(* The subproject's directory is an at-least-once feed of pull requests,   *)
(* although a seed copies the root's tables one after the other and may be *)
(* cut between them.                                                       *)
THEOREM SeedIsAFeed ==
  ASSUME SeedConstants
  PROVE  Seed!Spec => Seed!Feed!FeedSpec
<1>. DEFINE events == Seed!Repos \X (1..MaxPRs)
            copied == {x \in events : \A t \in Seed!Tables : disk.rows[x[1]][t] >= x[2]}
            behind == {x \in events : x[2] <= disk.marks[x[1]]}
<1>1. Seed!Init => SeedInv
  BY SeedInit
<1>2. SeedInv /\ [Seed!Next]_(Seed!vars) => SeedInv'
  BY SeedStep
<1>3. SeedInv => behind \subseteq copied
  <2>. SUFFICES ASSUME SeedInv, NEW x \in events, x[2] <= disk.marks[x[1]], NEW t \in Seed!Tables
                PROVE  disk.rows[x[1]][t] >= x[2]
    OBVIOUS
  <2>1. x[1] \in Seed!Repos /\ x[2] \in Nat
    OBVIOUS
  <2>2. /\ disk.marks[x[1]] \in Int /\ disk.rows[x[1]][t] \in Nat
        /\ disk.marks[x[1]] <= disk.rows[x[1]][t]
    BY <2>1, SeedNumbers DEF SeedInv, SeedHeld
  <2>. QED
    BY <2>1, <2>2
<1>4. SeedInv' => (behind \subseteq copied)'
  BY <1>3, PTL
<1>5. SeedInv /\ SeedInv' /\ [Seed!Next]_(Seed!vars) => copied \subseteq copied'
  <2>. SUFFICES ASSUME SeedInv, SeedInv', [Seed!Next]_(Seed!vars),
                       NEW x \in events, \A t \in Seed!Tables : disk.rows[x[1]][t] >= x[2], NEW t \in Seed!Tables
                PROVE  disk'.rows[x[1]][t] >= x[2]
    BY DEF Seed!Tables, Seed!Repos
  <2>1. x[1] \in Seed!Repos /\ x[2] \in Nat
    OBVIOUS
  <2>2. disk.rows[x[1]][t] <= disk'.rows[x[1]][t]
    BY <2>1, SeedGrows
  <2>3. disk.rows[x[1]][t] \in Nat
    BY <2>1, SeedNumbers DEF SeedInv
  <2>4. disk'.rows[x[1]][t] \in Int
    <3>1. disk'.rows \in [1..NumRepos -> [1..NumTables -> 0..MaxPRs]]
      BY DEF SeedInv, SeedTypes, Seed!Rows, Seed!Repos, Seed!Tables
    <3>2. x[1] \in 1..NumRepos /\ t \in 1..NumTables
      BY <2>1 DEF Seed!Repos, Seed!Tables
    <3>3. disk'.rows[x[1]][t] \in 0..MaxPRs
      BY <3>1, <3>2
    <3>. QED
      BY <3>3 DEF SeedConstants
  <2>. QED
    BY <2>1, <2>2, <2>3, <2>4
<1>6. Seed!Init => Seed!Feed!FeedInit
  <2>1. behind \subseteq copied => Seed!Feed!FeedInit
    BY DEF Seed!Feed!FeedInit
  <2>. QED
    BY <1>1, <1>3, <2>1
<1>7. SeedInv /\ SeedInv' /\ [Seed!Next]_(Seed!vars) => [Seed!Feed!Deliver]_(Seed!Feed!feed)
  <2>1. copied \subseteq copied' /\ (behind \subseteq copied)' => Seed!Feed!Deliver
    BY DEF Seed!Feed!Deliver, Seed!Repos, Seed!Tables
  <2>. QED
    BY <1>4, <1>5, <2>1
<1>. QED
  BY <1>1, <1>2, <1>6, <1>7, PTL DEF Seed!Spec, Seed!Feed!FeedSpec

-----------------------------------------------------------------------------
(* Requests and retries: the policy is in faults, the client in world, the *)
(* request in disk, the gap in run.                                        *)

AskingConstants == /\ Interval \in Nat /\ MaxRetries \in Nat \ {0} /\ MaxDelay \in Nat
                   /\ MaxCalls \in Nat \ {0} /\ MaxRequests \in Nat /\ MaxFollowed \in Nat \ {0}

(* Between the pause and the request the client has slept what its         *)
(* interval lacks, or has still to; of the calls counted all but those of  *)
(* the pages asked for since the last look were within the budget, and a   *)
(* page has the attempts of a request.                                     *)
AskingInv ==
  /\ faults \in Asking!Policies
  /\ world.since \in 0..Interval /\ world.calls \in Nat /\ disk.attempt \in 0..MaxRetries
  /\ disk.page \in Nat \ {0} /\ faults.pages \in Nat /\ disk.page <= faults.pages
  /\ world = [since |-> world.since, calls |-> world.calls]
  /\ disk = [pc |-> disk.pc, left |-> disk.left, page |-> disk.page, attempt |-> disk.attempt, wait |-> disk.wait, last |-> disk.last]
  /\ disk.pc \in {"idle", "pace", "send", "sent", "stopped"}
  /\ faults.paced => run = Interval
  /\ disk.pc = "send" => disk.wait \in Nat
  /\ disk.pc = "send" /\ faults.paced => world.since + disk.wait >= Interval
  /\ disk.pc \in {"pace", "send"} => disk.attempt < MaxRetries
  /\ faults.counted =>
       IF disk.pc \in {"pace", "send", "sent"}
       THEN world.calls - disk.attempt + MaxRetries < MaxCalls + disk.page * MaxRetries
       ELSE world.calls < MaxCalls + disk.page * MaxRetries

LEMMA AskingMaxMin ==
  /\ \A a, b \in Int : Asking!Max({a, b}) = IF a >= b THEN a ELSE b
  /\ \A a, b \in Int : Asking!Min({a, b}) = IF a <= b THEN a ELSE b
<1>1. ASSUME NEW a \in Int, NEW b \in Int
      PROVE  Asking!Max({a, b}) = IF a >= b THEN a ELSE b
  <2>1. \E x \in {a, b} : \A y \in {a, b} : x >= y
    OBVIOUS
  <2>2. Asking!Max({a, b}) \in {a, b} /\ \A y \in {a, b} : Asking!Max({a, b}) >= y
    BY <2>1 DEF Asking!Max
  <2>. QED
    BY <2>2
<1>2. ASSUME NEW a \in Int, NEW b \in Int
      PROVE  Asking!Min({a, b}) = IF a <= b THEN a ELSE b
  <2>1. \E x \in {a, b} : \A y \in {a, b} : x <= y
    OBVIOUS
  <2>2. Asking!Min({a, b}) \in {a, b} /\ \A y \in {a, b} : Asking!Min({a, b}) <= y
    BY <2>1 DEF Asking!Min
  <2>. QED
    BY <2>2
<1>. QED
  BY <1>1, <1>2

(* Only the pages of a commit's check runs are followed without a look.    *)
LEMMA AskingPages ==
  ASSUME faults \in Asking!Policies
  PROVE  faults.pages \in {1, MaxFollowed} /\ (faults # Asking!GitHubChecks => faults.pages = 1)
<1>1. ASSUME NEW paced, NEW counted, NEW retried, NEW returned, NEW heeded
      PROVE  Asking!Policy(paced, counted, retried, returned, heeded).pages = 1
  BY DEF Asking!Policy
<1>2. Asking!GitHubChecks.pages = MaxFollowed
  BY DEF Asking!GitHubChecks, Asking!Policy
<1>3. Asking!GitHubProfiles.pages = 1
  BY DEF Asking!GitHubProfiles, Asking!Policy
<1>4. /\ Asking!PonyMail.pages = 1 /\ Asking!Jira.pages = 1 /\ Asking!JiraComments.pages = 1
      /\ Asking!CommentBackfill.pages = 1 /\ Asking!PilotScan.pages = 1 /\ Asking!TextFetch.pages = 1
  BY <1>1, Zenon DEF Asking!PonyMail, Asking!Jira, Asking!JiraComments, Asking!CommentBackfill,
                     Asking!PilotScan, Asking!TextFetch
<1>5. /\ Asking!GitHub.pages = 1 /\ Asking!GitHubIssues.pages = 1 /\ Asking!CommitAuthors.pages = 1
      /\ Asking!ReleaseLines.pages = 1 /\ Asking!SubprojectActions.pages = 1
      /\ Asking!AsfRoster.pages = 1 /\ Asking!Release.pages = 1 /\ Asking!Security.pages = 1
  BY <1>1, Zenon DEF Asking!GitHub, Asking!GitHubIssues, Asking!CommitAuthors, Asking!ReleaseLines,
                     Asking!SubprojectActions, Asking!AsfRoster, Asking!Release, Asking!Security
<1>. QED
  BY <1>2, <1>3, <1>4, <1>5, Zenon DEF Asking!Policies

LEMMA AskingStep == AskingConstants /\ AskingInv /\ [Asking!Next]_(Asking!vars) => AskingInv'
<1>. SUFFICES ASSUME AskingConstants, AskingInv, [Asking!Next]_(Asking!vars) PROVE AskingInv'
  OBVIOUS
<1>. USE DEF AskingInv, AskingConstants
<1>1. CASE Asking!Tick
  <2>1. /\ world' = [world EXCEPT !.since = Asking!Min({world.since + 1, Interval})]
        /\ disk' = [disk EXCEPT !.wait = Asking!Max({disk.wait, 1}) - 1]
        /\ faults' = faults /\ run' = run
    BY <1>1 DEF Asking!Tick
  <2>. DEFINE s == Asking!Min({world.since + 1, Interval})
              w == Asking!Max({disk.wait, 1}) - 1
  <2>2. s \in 0..Interval /\ (s = world.since + 1 \/ s = Interval)
    <3>1. world.since + 1 \in Int /\ Interval \in Int /\ world.since \in Nat /\ world.since <= Interval
      OBVIOUS
    <3>2. s = IF world.since + 1 <= Interval THEN world.since + 1 ELSE Interval
      BY <3>1, AskingMaxMin
    <3>. HIDE DEF s
    <3>. QED
      BY <3>1, <3>2
  <2>3. ASSUME disk.pc = "send" PROVE w \in Nat /\ w >= disk.wait - 1
    <3>1. disk.wait \in Nat
      BY <2>3
    <3>2. Asking!Max({disk.wait, 1}) = IF disk.wait >= 1 THEN disk.wait ELSE 1
      BY <3>1, AskingMaxMin
    <3>. QED
      BY <3>1, <3>2
  <2>. HIDE DEF s, w
  <2>4. world' = [since |-> s, calls |-> world.calls]
    BY <2>1 DEF s
  <2>5. disk' = [pc |-> disk.pc, left |-> disk.left, page |-> disk.page, attempt |-> disk.attempt, wait |-> w, last |-> disk.last]
    BY <2>1 DEF w
  <2>. QED
    BY <2>1, <2>2, <2>3, <2>4, <2>5
<1>2. CASE Asking!Begin
  <2>1. /\ disk.pc = "idle" /\ (faults.counted => world.calls < MaxCalls)
        /\ disk' = [pc |-> "pace", left |-> disk.left - 1, page |-> 1, attempt |-> 0, wait |-> disk.wait, last |-> disk.last]
        /\ faults' = faults /\ run' = run /\ world' = world
    BY <1>2 DEF Asking!Begin
  <2>2. 1 * MaxRetries = MaxRetries
    OBVIOUS
  <2>. QED
    BY <2>1, <2>2
<1>3. CASE Asking!Pace
  <2>. DEFINE w == IF faults.paced THEN Interval - world.since ELSE 0
  <2>1. /\ disk.pc = "pace"
        /\ disk' = [pc |-> "send", left |-> disk.left, page |-> disk.page, attempt |-> disk.attempt, wait |-> w, last |-> disk.last]
        /\ faults' = faults /\ run' = run /\ world' = world
    BY <1>3 DEF Asking!Pace
  <2>2. w \in Nat /\ (faults.paced => world.since + w >= Interval)
    OBVIOUS
  <2>. HIDE DEF w
  <2>. QED
    BY <2>1, <2>2
<1>4. CASE Asking!Send
  <2>1. /\ disk.pc = "send" /\ disk.wait = 0
        /\ disk' = [pc |-> "sent", left |-> disk.left, page |-> disk.page, attempt |-> disk.attempt + 1, wait |-> disk.wait, last |-> disk.last]
        /\ world' = [since |-> 0, calls |-> world.calls + 1]
        /\ faults' = faults /\ run' = world.since
    BY <1>4 DEF Asking!Send
  <2>. QED
    BY <2>1
<1>5. ASSUME disk.pc = "sent", NEW o \in Asking!Outcomes, Asking!Retry(o)
      PROVE  AskingInv'
  <2>1. disk.attempt < MaxRetries /\ faults' = faults /\ run' = run /\ world' = world
    BY <1>5 DEF Asking!Retry
  <2>2. PICK delay : disk' = [disk EXCEPT !.pc = "pace", !.wait = delay, !.last = o]
    BY <1>5 DEF Asking!Retry
  <2>3. disk' = [pc |-> "pace", left |-> disk.left, page |-> disk.page, attempt |-> disk.attempt, wait |-> delay, last |-> o]
    BY <2>2
  <2>. QED
    BY <1>5, <2>1, <2>3
<1>6. CASE disk.pc = "sent" /\ Asking!FollowPage
  <2>1. /\ disk.pc = "sent" /\ disk.page < faults.pages /\ faults' = faults /\ run' = run /\ world' = world
        /\ disk' = [pc |-> "pace", left |-> disk.left, page |-> disk.page + 1, attempt |-> 0, wait |-> 0, last |-> "answer"]
    BY <1>6 DEF Asking!FollowPage
  <2>. DEFINE before == disk.page * MaxRetries
              after == (disk.page + 1) * MaxRetries
  <2>2. after = before + MaxRetries /\ before \in Int
    OBVIOUS
  <2>3. faults.counted => world.calls - disk.attempt + MaxRetries < MaxCalls + before
    BY <2>1
  <2>. HIDE DEF before, after
  <2>4. faults.counted => world.calls - 0 + MaxRetries < MaxCalls + after
    BY <2>2, <2>3
  <2>5. faults.counted => world'.calls - disk'.attempt + MaxRetries < MaxCalls + disk'.page * MaxRetries
    BY <2>1, <2>4 DEF after
  <2>6. disk.page + 1 \in Nat \ {0} /\ disk.page + 1 <= faults.pages
    BY <2>1
  <2>. QED
    BY <2>1, <2>5, <2>6
<1>7. ASSUME disk.pc = "sent", NEW o \in Asking!Outcomes, Asking!Return(o) \/ Asking!Raise(o)
      PROVE  AskingInv'
  <2>1. faults' = faults /\ run' = run /\ world' = world
    BY <1>7 DEF Asking!Return, Asking!Raise
  <2>2. PICK pc \in {"idle", "stopped"} : disk' = [disk EXCEPT !.pc = pc, !.wait = 0, !.last = o]
    BY <1>7 DEF Asking!Return, Asking!Raise
  <2>3. disk' = [pc |-> pc, left |-> disk.left, page |-> disk.page, attempt |-> disk.attempt, wait |-> 0, last |-> o]
    BY <2>2
  <2>. QED
    BY <1>7, <2>1, <2>3
<1>8. CASE UNCHANGED Asking!vars
  BY <1>8 DEF Asking!vars
<1>. QED
  BY <1>1, <1>2, <1>3, <1>4, <1>5, <1>7, <1>8, <1>6 DEF Asking!Next, Asking!Work, Asking!Answered

LEMMA AskingInit == AskingConstants /\ Asking!Init => AskingInv
<1>. SUFFICES ASSUME AskingConstants, Asking!Init PROVE AskingInv
  OBVIOUS
<1>1. faults.pages \in Nat /\ 1 <= faults.pages
  <2>1. faults.pages \in {1, MaxFollowed}
    BY AskingPages DEF Asking!Init
  <2>. QED
    BY <2>1 DEF AskingConstants
<1>. QED
  BY <1>1 DEF AskingConstants, Asking!Init, AskingInv

(* A client that paces itself never asks twice within its interval,        *)
(* whatever it retries, and whatever delay the server asks for.            *)
THEOREM SpacingIsKept ==
  ASSUME AskingConstants
  PROVE  Asking!Spec => []Asking!SpacingKept
<1>1. AskingInv => Asking!SpacingKept
  BY DEF AskingInv, Asking!SpacingKept
<1>2. Asking!Init => AskingInv
  BY AskingInit
<1>3. AskingInv /\ [Asking!Next]_(Asking!vars) => AskingInv'
  BY AskingStep
<1>. QED
  BY <1>1, <1>2, <1>3, PTL DEF Asking!Spec

(* Of the calls of a run only the attempts of the pages asked for since    *)
(* its last look at the budget can be beyond it: of one request where      *)
(* every request is preceded by a look, of all pages of one commit's check *)
(* runs, whose pages are followed without.                                 *)
THEOREM OvershootIsBounded ==
  ASSUME AskingConstants
  PROVE  Asking!Spec => []Asking!OvershootBounded
<1>1. AskingInv => Asking!OvershootBounded
  <2>. DEFINE tries == disk.page * MaxRetries
  <2>. SUFFICES ASSUME AskingConstants, AskingInv, faults.counted
                PROVE  world.calls <= MaxCalls - 1 + tries /\ (faults # Asking!GitHubChecks => disk.page = 1)
    BY DEF Asking!OvershootBounded
  <2>1. /\ world.calls \in Int /\ disk.attempt \in Int /\ MaxCalls \in Int /\ MaxRetries \in Int
        /\ disk.attempt <= MaxRetries /\ tries \in Int
        /\ world.calls - disk.attempt + MaxRetries < MaxCalls + tries \/ world.calls < MaxCalls + tries
    BY DEF AskingInv, AskingConstants
  <2>2. faults # Asking!GitHubChecks => disk.page = 1
    <3>1. faults \in Asking!Policies /\ disk.page \in Nat \ {0} /\ disk.page <= faults.pages
      BY DEF AskingInv
    <3>. QED
      BY <3>1, AskingPages
  <2>. HIDE DEF tries
  <2>3. world.calls <= MaxCalls - 1 + tries
    BY <2>1
  <2>. QED
    BY <2>2, <2>3
<1>2. Asking!Init => AskingInv
  BY AskingInit
<1>3. AskingInv /\ [Asking!Next]_(Asking!vars) => AskingInv'
  BY AskingStep
<1>. QED
  BY <1>1, <1>2, <1>3, PTL DEF Asking!Spec

-----------------------------------------------------------------------------
(* The look-ups of authors and profiles.                                   *)

PeopleConstants == /\ PeopleCommits \in Nat \ {0} /\ NumLogins \in Nat /\ PageSize \in Nat \ {0}
                   /\ LoginOf \in [1..PeopleCommits -> 0..NumLogins]

PeopleTypes ==
  /\ world \in [tip : People!Commits, base : People!Commits \cup {0}]
  /\ disk \in [found : SUBSET People!Commits, cursor : 0..(PeopleCommits + 1), cached : SUBSET Nat]
  /\ run \in [pc : {"idle", "walk", "rows", "cursor", "profiles", "fetch", "report"}, at : 0..PeopleCommits,
              rows : SUBSET People!Commits, pages : Nat, status : {"ok", "partial", "rate_limited", "failed"},
              profiles : SUBSET Nat, left : SUBSET Nat, limited : BOOLEAN]

Listing == {"walk", "rows", "cursor"}

(* The walk goes on from a cursor, or has fetched a page of its own list.  *)
Walking == disk.cursor # People!NoCursor \/ run.pages > 0

(* What has been listed, from the tip the walk began at, has its rows.     *)
PeopleListed ==
  /\ People!CursorCovers
  /\ run.pc \in Listing /\ Walking =>
       \A c \in People!Known(1..world.base) : c > run.at => c \in disk.found \cup run.rows
  /\ run.pc = "walk" => run.status = "ok" /\ ~run.limited /\ run.profiles = {}
  /\ run.pc = "walk" /\ ~Walking => run.at = 0
  /\ run.pc \in {"rows", "cursor"} /\ run.status = "ok" => run.at = 0 /\ Walking
  /\ run.pc = "cursor" => run.rows \subseteq disk.found
  /\ run.pc \in {"profiles", "fetch", "report"} /\ run.status = "ok" => People!Known(1..world.base) \subseteq disk.found
  /\ run.pc \in {"rows", "cursor", "profiles"} => run.profiles = {}
  /\ run.pc = "fetch" => People!GithubLoginsSeen \subseteq disk.cached \cup run.profiles \cup run.left
  /\ run.pc = "report" => People!GithubLoginsSeen \subseteq disk.cached \cup run.left

PeopleInv == PeopleTypes /\ PeopleListed

LEMMA PeopleInit == PeopleConstants /\ People!Init => PeopleInv
<1>. SUFFICES ASSUME PeopleConstants, People!Init PROVE PeopleInv
  OBVIOUS
<1>1. PeopleTypes
  BY DEF PeopleConstants, People!Init, PeopleTypes, People!Commits, People!NoCursor, People!None, People!Idle
<1>2. PeopleListed
  BY DEF People!Init, PeopleListed, People!CursorCovers, People!Idle, Listing
<1>. QED
  BY <1>1, <1>2 DEF PeopleInv

(* A page is what comes before the place the list has come to, PageSize    *)
(* commits or all that is left.                                            *)
LEMMA PeoplePage ==
  ASSUME PeopleConstants, PeopleTypes
  PROVE  /\ People!Listed \in 0..PeopleCommits
         /\ People!Max({People!Listed, PageSize}) - PageSize \in 0..People!Listed
<1>1. People!Listed \in 0..PeopleCommits
  BY DEF PeopleConstants, PeopleTypes, People!Listed, People!Commits
<1>2. ASSUME NEW a \in Int, NEW b \in Int
      PROVE  People!Max({a, b}) = IF a >= b THEN a ELSE b
  <2>1. \E x \in {a, b} : \A y \in {a, b} : x >= y
    OBVIOUS
  <2>2. People!Max({a, b}) \in {a, b} /\ \A y \in {a, b} : People!Max({a, b}) >= y
    BY <2>1 DEF People!Max
  <2>. QED
    BY <2>2
<1>3. PeopleCommits \in Nat /\ PageSize \in Nat
  BY DEF PeopleConstants
<1>4. People!Max({People!Listed, PageSize}) = IF People!Listed >= PageSize THEN People!Listed ELSE PageSize
  <2>1. People!Listed \in Int
    BY <1>1, <1>3
  <2>. QED
    BY <1>2, <1>3, <2>1
<1>. HIDE DEF People!Listed
<1>. QED
  BY <1>1, <1>3, <1>4

LEMMA PeopleStep == PeopleConstants /\ PeopleInv /\ [People!Next]_(People!vars) => PeopleInv'
<1>. SUFFICES ASSUME PeopleConstants, PeopleInv, [People!Next]_(People!vars) PROVE PeopleInv'
  OBVIOUS
<1>0. PeopleTypes /\ PeopleListed
  BY DEF PeopleInv
<1>. USE DEF People!Step, People!NoCursor, Listing
<1>1. CASE People!Push
  <2>1. world' = [world EXCEPT !.tip = world.tip + 1] /\ world.tip < PeopleCommits
        /\ disk' = disk /\ run' = run
    BY <1>1 DEF People!Push
  <2>2. world.tip + 1 \in People!Commits
    BY <1>0, <2>1 DEF PeopleTypes, PeopleConstants, People!Commits
  <2>3. PeopleTypes' /\ world'.base = world.base
    BY <1>0, <2>1, <2>2 DEF PeopleTypes
  <2>4. PeopleListed'
    BY <1>0, <2>1, <2>3 DEF PeopleListed, People!CursorCovers, Walking, People!GithubLoginsSeen
  <2>. QED
    BY <2>3, <2>4 DEF PeopleInv
<1>2. CASE People!BeginAuthors
  <2>. DEFINE at == IF disk.cursor = PeopleCommits + 1 THEN 0 ELSE disk.cursor
  <2>1. /\ run' = [pc |-> "walk", at |-> at, rows |-> {}, pages |-> 0, status |-> "ok",
                   profiles |-> {}, left |-> {}, limited |-> FALSE]
        /\ world' = world /\ disk' = disk
    BY <1>2 DEF People!BeginAuthors, People!Idle, People!None
  <2>2. at \in 0..PeopleCommits
    BY <1>0 DEF PeopleTypes, PeopleConstants
  <2>3. disk.cursor # PeopleCommits + 1 => at = disk.cursor
    OBVIOUS
  <2>4. disk.cursor = PeopleCommits + 1 => at = 0
    OBVIOUS
  <2>. HIDE DEF at
  <2>5. PeopleTypes'
    BY <1>0, <2>1, <2>2 DEF PeopleTypes
  <2>6. PeopleListed'
    BY <1>0, <2>1, <2>3, <2>4 DEF PeopleListed, People!CursorCovers, Walking
  <2>. QED
    BY <2>5, <2>6 DEF PeopleInv
<1>3. CASE People!FetchPage
  <2>. DEFINE L == People!Listed
              to == People!Max({L, PageSize}) - PageSize
              page == {c \in (to + 1)..L : LoginOf[c] # 0}
  <2>1. /\ run.pc = "walk"
        /\ run' = [run EXCEPT !.pc = IF to = 0 THEN "rows" ELSE "walk", !.at = to, !.pages = run.pages + 1,
                   !.rows = run.rows \cup page]
        /\ world' = IF disk.cursor = PeopleCommits + 1 /\ run.pages = 0
                      THEN [world EXCEPT !.base = world.tip] ELSE world
        /\ disk' = disk
    BY <1>3 DEF People!FetchPage, People!None
  <2>2. L \in 0..PeopleCommits /\ to \in 0..L
    BY <1>0, PeoplePage
  <2>3. L = IF disk.cursor = PeopleCommits + 1 /\ run.pages = 0 THEN world.tip ELSE run.at
    BY DEF People!Listed
  <2>. HIDE DEF L, to
  <2>4. page \subseteq People!Commits
    BY <2>2 DEF People!Commits, PeopleConstants
  <2>5. \A c \in Int : c > to /\ c <= L /\ LoginOf[c] # 0 => c \in page
    BY <2>2 DEF PeopleConstants
  <2>. HIDE DEF page
  <2>6. /\ run' \in [pc : {"rows", "walk"}, at : 0..PeopleCommits, rows : SUBSET People!Commits, pages : Nat,
                     status : {run.status}, profiles : SUBSET Nat, left : SUBSET Nat, limited : BOOLEAN]
        /\ run'.at = to /\ run'.pages > 0 /\ run'.rows = run.rows \cup page /\ run'.status = run.status
        /\ (run'.pc = "rows" => to = 0)
        /\ run'.limited = run.limited /\ run'.profiles = run.profiles
    <3>1. to \in 0..PeopleCommits
      BY <2>2 DEF PeopleConstants
    <3>2. run.rows \cup page \subseteq People!Commits
      BY <1>0, <2>4 DEF PeopleTypes
    <3>3. run' = [pc |-> IF to = 0 THEN "rows" ELSE "walk", at |-> to, rows |-> run.rows \cup page,
                  pages |-> run.pages + 1, status |-> run.status, profiles |-> run.profiles,
                  left |-> run.left, limited |-> run.limited]
      BY <1>0, <2>1 DEF PeopleTypes
    <3>4. /\ run.pages \in Nat /\ run.profiles \in SUBSET Nat /\ run.left \in SUBSET Nat
          /\ run.limited \in BOOLEAN
      BY <1>0 DEF PeopleTypes
    <3>. QED
      BY <3>1, <3>2, <3>3, <3>4
  <2>7. world' \in [tip : People!Commits, base : People!Commits \cup {0}]
    BY <1>0, <2>1 DEF PeopleTypes
  <2>8. PeopleTypes'
    BY <1>0, <2>1, <2>6, <2>7 DEF PeopleTypes
  <2>9. ASSUME NEW c \in People!Known(1..world'.base), c > to
        PROVE  c \in disk.found \cup (run.rows \cup page)
    <3>1. c \in 1..world'.base /\ LoginOf[c] # 0 /\ c \in Int
      BY <2>7, <2>9 DEF People!Known, People!None, People!Commits, PeopleConstants
    <3>2. CASE disk.cursor = PeopleCommits + 1 /\ run.pages = 0
      <4>1. world'.base = world.tip /\ L = world.tip
        BY <1>0, <2>1, <2>3, <3>2 DEF PeopleTypes
      <4>2. c <= L
        BY <2>2, <3>1, <4>1 DEF PeopleConstants
      <4>. QED
        BY <2>5, <2>9, <3>1, <4>2
    <3>3. CASE ~(disk.cursor = PeopleCommits + 1 /\ run.pages = 0)
      <4>1. world' = world /\ L = run.at /\ Walking
        BY <1>0, <2>1, <2>3, <3>3 DEF Walking, PeopleTypes
      <4>2. CASE c <= L
        BY <2>5, <2>9, <3>1, <4>2
      <4>3. CASE c > run.at
        BY <1>0, <2>1, <2>9, <4>1, <4>3 DEF PeopleListed
      <4>. QED
        BY <1>0, <3>1, <4>1, <4>2, <4>3 DEF PeopleTypes, PeopleConstants
    <3>. QED
      BY <3>2, <3>3
  <2>10. People!CursorCovers'
    <3>1. CASE disk.cursor = PeopleCommits + 1
      BY <2>1, <3>1 DEF People!CursorCovers
    <3>2. CASE disk.cursor # PeopleCommits + 1
      BY <1>0, <2>1, <3>2 DEF PeopleListed, People!CursorCovers
    <3>. QED
      BY <3>1, <3>2
  <2>11. PeopleListed'
    BY <1>0, <2>1, <2>6, <2>9, <2>10 DEF PeopleListed, Walking
  <2>. QED
    BY <2>8, <2>11 DEF PeopleInv
<1>4. CASE People!StopWalk
  <2>1. PICK status \in {"partial", "rate_limited", "failed"} :
          run.pc = "walk" /\ run' = [run EXCEPT !.pc = "rows", !.status = status]
    BY <1>4 DEF People!StopWalk
  <2>2. world' = world /\ disk' = disk
    BY <1>4 DEF People!StopWalk
  <2>3. PeopleTypes' /\ run'.pc = "rows" /\ run'.status = status /\ run'.at = run.at /\ run'.rows = run.rows
        /\ run'.pages = run.pages /\ run'.profiles = run.profiles
    BY <1>0, <2>1, <2>2 DEF PeopleTypes
  <2>4. PeopleListed'
    BY <1>0, <2>1, <2>2, <2>3 DEF PeopleListed, People!CursorCovers, Walking
  <2>. QED
    BY <2>3, <2>4 DEF PeopleInv
<1>5. CASE People!WriteAuthors
  <2>1. /\ run.pc = "rows" /\ run' = [run EXCEPT !.pc = "cursor"] /\ world' = world
        /\ disk' = [disk EXCEPT !.found = disk.found \cup run.rows]
    BY <1>5 DEF People!WriteAuthors
  <2>2. /\ PeopleTypes' /\ run'.pc = "cursor" /\ run'.status = run.status /\ run'.at = run.at
        /\ run'.rows = run.rows /\ run'.pages = run.pages /\ run'.profiles = run.profiles
        /\ disk'.found = disk.found \cup run.rows /\ disk'.cursor = disk.cursor
    BY <1>0, <2>1 DEF PeopleTypes
  <2>3. PeopleListed'
    BY <1>0, <2>1, <2>2 DEF PeopleListed, People!CursorCovers, Walking
  <2>. QED
    BY <2>2, <2>3 DEF PeopleInv
<1>6. CASE People!WriteCursor
  <2>. DEFINE to == IF disk.cursor = PeopleCommits + 1 /\ run.pages = 0 THEN disk.cursor ELSE run.at
  <2>1. /\ run.pc = "cursor" /\ run' = [run EXCEPT !.pc = "profiles"] /\ world' = world
        /\ disk' = [disk EXCEPT !.cursor = to]
    BY <1>6 DEF People!WriteCursor
  <2>2. /\ to \in 0..(PeopleCommits + 1)
        /\ to = PeopleCommits + 1 \/ (Walking /\ to = run.at)
    BY <1>0 DEF PeopleTypes, PeopleConstants, Walking
  <2>. HIDE DEF to
  <2>3. /\ PeopleTypes' /\ run'.pc = "profiles" /\ run'.status = run.status /\ run'.profiles = run.profiles
        /\ disk'.found = disk.found /\ disk'.cursor = to
    BY <1>0, <2>1, <2>2 DEF PeopleTypes
  <2>4. People!CursorCovers'
    BY <1>0, <2>1, <2>2, <2>3 DEF PeopleListed, People!CursorCovers
  <2>5. run.status = "ok" => People!Known(1..world.base) \subseteq disk.found
    <3>. SUFFICES ASSUME run.status = "ok", NEW c \in People!Known(1..world.base) PROVE c \in disk.found
      OBVIOUS
    <3>1. c > 0
      BY <1>0 DEF People!Known, PeopleTypes, People!Commits, PeopleConstants
    <3>. QED
      BY <1>0, <2>1, <3>1 DEF PeopleListed
  <2>6. PeopleListed'
    BY <1>0, <2>1, <2>3, <2>4, <2>5 DEF PeopleListed
  <2>. QED
    BY <2>3, <2>6 DEF PeopleInv
<1>7. CASE People!BeginProfiles
  <2>1. /\ run.pc = "profiles" /\ world' = world /\ disk' = disk
        /\ run' = [run EXCEPT !.pc = "fetch", !.left = People!GithubLoginsSeen \ disk.cached]
    BY <1>7 DEF People!BeginProfiles
  <2>2. People!GithubLoginsSeen \subseteq Nat
    BY <1>0 DEF People!GithubLoginsSeen, PeopleTypes, People!Commits, PeopleConstants
  <2>3. /\ PeopleTypes' /\ run'.pc = "fetch" /\ run'.status = run.status
        /\ run'.left = People!GithubLoginsSeen \ disk.cached
    BY <1>0, <2>1, <2>2 DEF PeopleTypes
  <2>4. PeopleListed'
    BY <1>0, <2>1, <2>3 DEF PeopleListed, People!CursorCovers, People!GithubLoginsSeen
  <2>. QED
    BY <2>3, <2>4 DEF PeopleInv
<1>8. CASE People!FetchProfile
  <2>. DEFINE l == People!Min(run.left)
  <2>1. /\ run.pc = "fetch" /\ run.left # {} /\ world' = world /\ disk' = disk
        /\ run' = [run EXCEPT !.left = run.left \ {l}, !.profiles = run.profiles \cup {l}]
    BY <1>8 DEF People!FetchProfile
  <2>2. l \in run.left /\ run.left \in SUBSET Nat
    <3>1. run.left \in SUBSET Nat
      BY <1>0 DEF PeopleTypes
    <3>2. \E m \in run.left : \A x \in run.left : m <= x
      BY <2>1, <3>1, LeastNumber
    <3>. QED
      BY <3>1, <3>2 DEF People!Min
  <2>. HIDE DEF l
  <2>3. /\ PeopleTypes' /\ run'.pc = "fetch" /\ run'.status = run.status
        /\ run'.left = run.left \ {l} /\ run'.profiles = run.profiles \cup {l}
    BY <1>0, <2>1, <2>2 DEF PeopleTypes
  <2>4. PeopleListed'
    BY <1>0, <2>1, <2>3 DEF PeopleListed, People!CursorCovers, People!GithubLoginsSeen
  <2>. QED
    BY <2>3, <2>4 DEF PeopleInv
<1>9. CASE People!LimitProfiles
  <2>1. /\ run.pc = "fetch" /\ world' = world /\ disk' = disk /\ run' = [run EXCEPT !.limited = TRUE]
    BY <1>9 DEF People!LimitProfiles
  <2>2. /\ PeopleTypes' /\ run'.pc = "fetch" /\ run'.status = run.status
        /\ run'.left = run.left /\ run'.profiles = run.profiles
    BY <1>0, <2>1 DEF PeopleTypes
  <2>3. PeopleListed'
    BY <1>0, <2>1, <2>2 DEF PeopleListed, People!CursorCovers, People!GithubLoginsSeen
  <2>. QED
    BY <2>2, <2>3 DEF PeopleInv
<1>10. CASE People!WriteProfiles
  <2>1. /\ run.pc = "fetch" /\ world' = world /\ run' = [run EXCEPT !.pc = "report"]
        /\ disk' = [disk EXCEPT !.cached = disk.cached \cup run.profiles]
    BY <1>10 DEF People!WriteProfiles
  <2>2. /\ PeopleTypes' /\ run'.pc = "report" /\ run'.status = run.status /\ run'.left = run.left
        /\ disk'.found = disk.found /\ disk'.cursor = disk.cursor /\ disk'.cached = disk.cached \cup run.profiles
    BY <1>0, <2>1 DEF PeopleTypes
  <2>3. PeopleListed'
    BY <1>0, <2>1, <2>2 DEF PeopleListed, People!CursorCovers, People!GithubLoginsSeen
  <2>. QED
    BY <2>2, <2>3 DEF PeopleInv
<1>11. CASE People!FailProfiles \/ People!EndRun \/ People!Kill
  <2>1. /\ world' = world /\ disk' = disk
        /\ run' = [pc |-> "idle", at |-> 0, rows |-> {}, pages |-> 0, status |-> "ok",
                   profiles |-> {}, left |-> {}, limited |-> FALSE]
    BY <1>11 DEF People!FailProfiles, People!EndRun, People!Kill, People!Idle
  <2>2. PeopleTypes'
    BY <1>0, <2>1 DEF PeopleTypes, PeopleConstants
  <2>3. PeopleListed'
    BY <1>0, <2>1 DEF PeopleListed, People!CursorCovers
  <2>. QED
    BY <2>2, <2>3 DEF PeopleInv
<1>12. CASE UNCHANGED People!vars
  BY <1>0, <1>12 DEF People!vars, PeopleInv, PeopleTypes, PeopleListed, People!CursorCovers, Walking, People!GithubLoginsSeen
<1>. QED
  BY <1>1, <1>2, <1>3, <1>4, <1>5, <1>6, <1>7, <1>8, <1>9, <1>10, <1>11, <1>12 DEF People!Next, People!Night

(* A cursor vouches for every commit listed before it, back to the tip its *)
(* walk began at, wherever a night was cut; and a night that says ok for   *)
(* both look-ups has looked up all it has found.                           *)
THEOREM CursorsCover ==
  ASSUME PeopleConstants
  PROVE  People!Spec => [](People!CursorCovers /\ People!OkMeansLookedUp)
<1>1. People!Init => PeopleInv
  BY PeopleInit
<1>2. PeopleInv /\ [People!Next]_(People!vars) => PeopleInv'
  BY PeopleStep
<1>3. PeopleInv => People!CursorCovers /\ People!OkMeansLookedUp
  <2>. SUFFICES ASSUME PeopleInv PROVE People!CursorCovers /\ People!OkMeansLookedUp
    OBVIOUS
  <2>1. People!ProfileStatus = "ok" => run.left = {}
    BY DEF People!ProfileStatus
  <2>. QED
    BY <2>1 DEF PeopleInv, PeopleListed, People!OkMeansLookedUp
<1>. QED
  BY <1>1, <1>2, <1>3, PTL DEF People!Spec

-----------------------------------------------------------------------------
(* The governance evidence.                                                *)

EvidenceConstants == /\ MaxCommits \in Nat \ {0} /\ MaxVersion \in Nat /\ EvidenceNights \in Nat \ {0}
                     /\ EvidenceCalls \in Nat /\ RetryWindow \in Nat /\ Retention \in Nat

Checked == [1..MaxCommits -> [mark : Int, seen : Int]]
CheckedRuns == [1..MaxCommits -> {"none", "pending", "success", "failure", "never"}]

EvidenceTypes ==
  /\ world \in [tip : 1..MaxCommits, date : [1..MaxCommits -> Nat], night : Nat,
                version : [1..MaxCommits -> Nat], gone : SUBSET (1..MaxCommits),
                check : [1..MaxCommits -> {"none", "pending", "success", "failure"}]]
  /\ disk \in [known : [1..MaxCommits -> Int], comments : Checked, attachments : Checked, checks : CheckedRuns]
  /\ run \in [pc : {"idle", "issues", "fetch issues", "comments", "attachments", "checks", "fetch checks", "score"},
              tip : 0..MaxCommits, todo : SUBSET (1..MaxCommits), calls : Nat, got : [1..MaxCommits -> Int],
              lost : SUBSET (1..MaxCommits), checked : CheckedRuns, pending : Int]
  /\ run.tip <= world.tip

(* A mark is never newer than what was seen of the issue, unless JIRA has  *)
(* lost it; nor what the issue table knows than what is fetched for it.    *)
EvidenceMarks ==
  /\ \A i \in 1..MaxCommits : disk.known[i] <= world.version[i]
  /\ \A i \in 1..MaxCommits : i \notin world.gone =>
       /\ disk.comments[i].mark <= disk.comments[i].seen
       /\ disk.attachments[i].mark <= disk.attachments[i].seen
  /\ \A i \in 1..MaxCommits : run.got[i] # -1 => run.got[i] >= disk.known[i]
  /\ run.lost \subseteq world.gone

(* Nothing final is asked for again.                                       *)
EvidenceFinal ==
  /\ run.pc \notin {"fetch checks", "score"} => \A c \in 1..MaxCommits : run.checked[c] = "never"
  /\ run.pc = "fetch checks" =>
       \A c \in 1..MaxCommits : c \in run.todo \/ run.checked[c] # "never" =>
         disk.checks[c] \notin Evidence!Final

SeenKnown(rows, i) == i \notin world.gone => rows[i].seen >= disk.known[i]

Unfetched == {i \in Evidence!Eligible : run.got[i] = -1}
Unasked == {c \in Evidence!Walked : Evidence!NeedsCheck(c) /\ run.checked[c] = "never"}

AllSeen == \A i \in Evidence!Walked : SeenKnown(disk.comments, i) /\ SeenKnown(disk.attachments, i)

(* What is pending counts at least what is still missing.                  *)
EvidencePending ==
  /\ run.pc = "issues" => \A i \in 1..MaxCommits : run.got[i] = -1
  /\ run.pc = "fetch issues" => run.todo \subseteq Unfetched
  /\ run.pc \in {"fetch issues", "comments"} => run.pending = Cardinality(Unfetched)
  /\ run.pc = "attachments" =>
       /\ run.pending \in Nat
       /\ run.pending = 0 => \A i \in Evidence!Walked :
            SeenKnown(disk.comments, i) /\ (run.got[i] # -1 \/ SeenKnown(disk.attachments, i))
  /\ run.pc = "checks" => run.pending \in Nat /\ (run.pending = 0 => AllSeen)
  /\ run.pc = "fetch checks" =>
       /\ run.todo \subseteq Unasked
       /\ run.pending >= Cardinality(Unasked)
       /\ run.pending > Cardinality(Unasked) \/ AllSeen
  /\ run.pc = "score" /\ run.pending = 0 =>
       AllSeen /\ \A c \in Evidence!Walked : Evidence!Age(c) <= Retention => disk.checks[c] # "never"

EvidenceInv == EvidenceTypes /\ EvidenceMarks /\ EvidenceFinal /\ EvidencePending

LEMMA EvidenceInit == EvidenceConstants /\ Evidence!Init => EvidenceInv
<1>. SUFFICES ASSUME EvidenceConstants, Evidence!Init PROVE EvidenceInv
  OBVIOUS
<1>1. /\ world = [tip |-> 1, date |-> [c \in 1..MaxCommits |-> 1], night |-> 1,
                  version |-> [i \in 1..MaxCommits |-> 1], gone |-> {}, check |-> [c \in 1..MaxCommits |-> "none"]]
      /\ disk = [known |-> [i \in 1..MaxCommits |-> -1],
                 comments |-> [i \in 1..MaxCommits |-> [mark |-> -1, seen |-> -1]],
                 attachments |-> [i \in 1..MaxCommits |-> [mark |-> -1, seen |-> -1]],
                 checks |-> [c \in 1..MaxCommits |-> "never"]]
      /\ run = [pc |-> "idle", tip |-> 0, todo |-> {}, calls |-> 0, got |-> [i \in 1..MaxCommits |-> -1],
                lost |-> {}, checked |-> [c \in 1..MaxCommits |-> "never"], pending |-> 0]
  BY DEF Evidence!Init, Evidence!Commits, Evidence!Issues, Evidence!Never, Evidence!Unchecked, Evidence!Idle
<1>2. EvidenceTypes
  BY <1>1 DEF EvidenceTypes, EvidenceConstants, Checked, CheckedRuns
<1>3. EvidenceMarks /\ EvidenceFinal /\ EvidencePending
  BY <1>1 DEF EvidenceMarks, EvidenceFinal, EvidencePending
<1>. QED
  BY <1>2, <1>3 DEF EvidenceInv

(* The newest of some commits is one of them.                              *)
LEMMA EvidenceNewest ==
  ASSUME EvidenceConstants, NEW T \in SUBSET (1..MaxCommits), T # {}
  PROVE  Evidence!Max(T) \in T
<1>1. \E m \in T : \A x \in T : x <= m
  BY GreatestNumber DEF EvidenceConstants
<1>2. \E m \in T : \A x \in T : m >= x
  BY <1>1 DEF EvidenceConstants
<1>. QED
  BY <1>2 DEF Evidence!Max

(* The older of an issue's two marks.                                      *)
LEMMA EvidenceOlder ==
  ASSUME EvidenceTypes, NEW i \in 1..MaxCommits
  PROVE  /\ Evidence!LastChecked(i) \in {disk.comments[i].mark, disk.attachments[i].mark}
         /\ Evidence!LastChecked(i) <= disk.comments[i].mark
         /\ Evidence!LastChecked(i) <= disk.attachments[i].mark
<1>. DEFINE a == disk.comments[i].mark
            b == disk.attachments[i].mark
<1>1. a \in Int /\ b \in Int
  BY DEF EvidenceTypes, Checked
<1>. HIDE DEF a, b
<1>2. \E x \in {a, b} : \A y \in {a, b} : x <= y
  BY <1>1
<1>3. Evidence!Min({a, b}) \in {a, b} /\ \A y \in {a, b} : Evidence!Min({a, b}) <= y
  BY <1>2 DEF Evidence!Min
<1>. QED
  BY <1>3 DEF Evidence!LastChecked, a, b

LEMMA EvidenceWalked ==
  ASSUME EvidenceConstants, EvidenceTypes
  PROVE  Evidence!Walked \subseteq 1..MaxCommits /\ Evidence!Eligible \subseteq Evidence!Walked
<1>1. run.tip \in 0..MaxCommits
  BY DEF EvidenceTypes
<1>. QED
  BY <1>1 DEF EvidenceConstants, Evidence!Walked, Evidence!Eligible

(* An issue that is not asked for has been seen as the table knows it.     *)
LEMMA NotEligibleIsSeen ==
  ASSUME EvidenceConstants, EvidenceTypes, EvidenceMarks, NEW i \in Evidence!Walked, i \notin Evidence!Eligible
  PROVE  SeenKnown(disk.comments, i) /\ SeenKnown(disk.attachments, i)
<1>1. i \in 1..MaxCommits
  BY EvidenceWalked
<1>2. disk.known[i] \in Int
  BY <1>1 DEF EvidenceTypes
<1>3. disk.comments[i] \in [mark : Int, seen : Int] /\ disk.attachments[i] \in [mark : Int, seen : Int]
  BY <1>1 DEF EvidenceTypes, Checked
<1>5. Evidence!LastChecked(i) \in Int
  BY <1>1, <1>3, EvidenceOlder
<1>6. disk.known[i] <= Evidence!LastChecked(i)
  BY <1>2, <1>5 DEF Evidence!Eligible
<1>4. disk.known[i] <= disk.comments[i].mark /\ disk.known[i] <= disk.attachments[i].mark
  BY <1>1, <1>2, <1>3, <1>5, <1>6, EvidenceOlder
<1>. QED
  BY <1>1, <1>2, <1>3, <1>4 DEF SeenKnown, EvidenceMarks

(* The counts are of finite sets.                                          *)
LEMMA EvidenceFinite ==
  ASSUME EvidenceConstants, EvidenceTypes, NEW S \in SUBSET Evidence!Walked
  PROVE  /\ S \subseteq 1..MaxCommits /\ IsFiniteSet(S) /\ Cardinality(S) \in Nat
         /\ Cardinality(S) = 0 <=> S = {}
         /\ \A x \in S : Cardinality(S \ {x}) = Cardinality(S) - 1
<1>1. IsFiniteSet(1..MaxCommits)
  BY FS_Interval DEF EvidenceConstants
<1>2. S \subseteq 1..MaxCommits
  BY EvidenceWalked
<1>3. IsFiniteSet(S)
  BY <1>1, <1>2, FS_Subset
<1>. QED
  BY <1>2, <1>3, FS_CardinalityType, FS_EmptySet, FS_RemoveElement

(* What goes on in the world while a night fetches: more commits, newer    *)
(* versions, fewer issues.                                                 *)
WorldGoesOn ==
  /\ UNCHANGED <<faults, disk, run>>
  /\ world' \in [tip : 1..MaxCommits, date : [1..MaxCommits -> Nat], night : Nat,
                 version : [1..MaxCommits -> Nat], gone : SUBSET (1..MaxCommits),
                 check : [1..MaxCommits -> {"none", "pending", "success", "failure"}]]
  /\ world.tip <= world'.tip /\ world'.night = world.night /\ world.gone \subseteq world'.gone
  /\ \A c \in 1..MaxCommits : c <= world.tip => world'.date[c] = world.date[c]
  /\ \A i \in 1..MaxCommits : world.version[i] <= world'.version[i]

(* The facts of the types that a step needs.                               *)
LEMMA EvidenceTyped ==
  ASSUME EvidenceConstants, EvidenceTypes
  PROVE  /\ MaxCommits \in Nat /\ world.tip \in 1..MaxCommits /\ world.tip \in Nat /\ run.tip \in Nat
         /\ run.tip \in 0..MaxCommits /\ run.tip <= world.tip /\ world.night \in Nat
         /\ \A i \in 1..MaxCommits : /\ disk.known[i] \in Int /\ world.version[i] \in Nat /\ world.version[i] \in Int
                                     /\ run.got[i] \in Int /\ world.date[i] \in Nat /\ i \in Nat
<1>1. world.tip \in 1..MaxCommits /\ run.tip \in 0..MaxCommits /\ run.tip <= world.tip /\ world.night \in Nat
  BY DEF EvidenceTypes
<1>2. MaxCommits \in Nat
  BY DEF EvidenceConstants
<1>3. world.tip \in Nat /\ run.tip \in Nat
  BY <1>1, <1>2
<1>4. /\ disk.known \in [1..MaxCommits -> Int] /\ world.version \in [1..MaxCommits -> Nat]
      /\ run.got \in [1..MaxCommits -> Int] /\ world.date \in [1..MaxCommits -> Nat]
  BY DEF EvidenceTypes
<1>5. \A i \in 1..MaxCommits : /\ disk.known[i] \in Int /\ world.version[i] \in Nat
                               /\ run.got[i] \in Int /\ world.date[i] \in Nat
  BY <1>4
<1>6. \A i \in 1..MaxCommits : i \in Nat
  BY <1>2
<1>7. Nat \subseteq Int
  OBVIOUS
<1>. QED
  BY <1>1, <1>2, <1>3, <1>5, <1>6, <1>7

LEMMA EvidenceWorldActions ==
  ASSUME EvidenceConstants, EvidenceTypes,
         \/ Evidence!Push
         \/ \E i \in Evidence!Issues : Evidence!UpdateIssue(i) \/ Evidence!DeleteIssue(i) \/ Evidence!CheckRuns(i)
  PROVE  WorldGoesOn
<1>1. world = [tip |-> world.tip, date |-> world.date, night |-> world.night, version |-> world.version,
               gone |-> world.gone, check |-> world.check]
  BY DEF EvidenceTypes
<1>2. /\ world.tip \in 1..MaxCommits /\ world.date \in [1..MaxCommits -> Nat] /\ world.night \in Nat
      /\ world.version \in [1..MaxCommits -> Nat] /\ world.gone \in SUBSET (1..MaxCommits)
      /\ world.check \in [1..MaxCommits -> {"none", "pending", "success", "failure"}]
  BY DEF EvidenceTypes
<1>3. CASE Evidence!Push
  <2>1. /\ world' = [tip |-> world.tip + 1, date |-> [world.date EXCEPT ![world.tip + 1] = world.night],
                     night |-> world.night, version |-> world.version, gone |-> world.gone, check |-> world.check]
        /\ world.tip < MaxCommits /\ UNCHANGED <<faults, disk, run>>
    BY <1>1, <1>3 DEF Evidence!Push
  <2>2. world.tip + 1 \in 1..MaxCommits
    BY <1>2, <2>1 DEF EvidenceConstants
  <2>3. [world.date EXCEPT ![world.tip + 1] = world.night] \in [1..MaxCommits -> Nat]
    BY <1>2, <2>2
  <2>4. \A c \in 1..MaxCommits : c <= world.tip => world'.date[c] = world.date[c]
    BY <1>2, <2>1, <2>2, EvidenceTyped
  <2>6. world.tip <= world.tip + 1
    BY EvidenceTyped
  <2>5. \A i \in 1..MaxCommits : world.version[i] <= world'.version[i]
    BY <2>1, EvidenceTyped
  <2>. QED
    BY <1>2, <2>1, <2>2, <2>3, <2>4, <2>5, <2>6 DEF WorldGoesOn
<1>4. CASE \E i \in Evidence!Issues : Evidence!UpdateIssue(i)
  <2>1. PICK i \in 1..MaxCommits : Evidence!UpdateIssue(i)
    BY <1>4 DEF Evidence!Issues, Evidence!Commits
  <2>2. /\ world' = [tip |-> world.tip, date |-> world.date, night |-> world.night,
                     version |-> [world.version EXCEPT ![i] = @ + 1], gone |-> world.gone, check |-> world.check]
        /\ UNCHANGED <<faults, disk, run>>
    BY <1>1, <2>1 DEF Evidence!UpdateIssue
  <2>3. [world.version EXCEPT ![i] = @ + 1] \in [1..MaxCommits -> Nat]
    <3>1. world.version[i] + 1 \in Nat
      BY EvidenceTyped
    <3>. QED
      BY <1>2, <3>1
  <2>4. \A j \in 1..MaxCommits : world.version[j] <= [world.version EXCEPT ![i] = @ + 1][j]
    BY EvidenceTyped, <1>2
  <2>. QED
    BY <1>2, <2>2, <2>3, <2>4, EvidenceTyped DEF WorldGoesOn
<1>5. CASE \E i \in Evidence!Issues : Evidence!DeleteIssue(i)
  <2>1. PICK i \in 1..MaxCommits : Evidence!DeleteIssue(i)
    BY <1>5 DEF Evidence!Issues, Evidence!Commits
  <2>2. /\ world' = [tip |-> world.tip, date |-> world.date, night |-> world.night,
                     version |-> world.version, gone |-> world.gone \cup {i}, check |-> world.check]
        /\ UNCHANGED <<faults, disk, run>>
    BY <1>1, <2>1 DEF Evidence!DeleteIssue
  <2>3. world.gone \cup {i} \in SUBSET (1..MaxCommits) /\ world.gone \subseteq world.gone \cup {i}
    BY <1>2
  <2>4. \A j \in 1..MaxCommits : world.version[j] <= world.version[j]
    BY EvidenceTyped
  <2>. QED
    BY <1>2, <2>2, <2>3, <2>4, EvidenceTyped DEF WorldGoesOn
<1>6. CASE \E i \in Evidence!Issues : Evidence!CheckRuns(i)
  <2>1. PICK i \in 1..MaxCommits : Evidence!CheckRuns(i)
    BY <1>6 DEF Evidence!Issues, Evidence!Commits
  <2>2. PICK e \in {"pending", "success", "failure"} :
          world' = [tip |-> world.tip, date |-> world.date, night |-> world.night,
                    version |-> world.version, gone |-> world.gone, check |-> [world.check EXCEPT ![i] = e]]
    BY <1>1, <2>1 DEF Evidence!CheckRuns, Evidence!Final
  <2>3. UNCHANGED <<faults, disk, run>>
    BY <2>1 DEF Evidence!CheckRuns
  <2>4. [world.check EXCEPT ![i] = e] \in [1..MaxCommits -> {"none", "pending", "success", "failure"}]
    BY <1>2
  <2>5. \A j \in 1..MaxCommits : world.version[j] <= world.version[j]
    BY EvidenceTyped
  <2>. QED
    BY <1>2, <2>2, <2>3, <2>4, <2>5, EvidenceTyped DEF WorldGoesOn
<1>. QED
  BY <1>3, <1>4, <1>5, <1>6

LEMMA EvidenceWorldStep ==
  ASSUME EvidenceConstants, EvidenceInv, WorldGoesOn
  PROVE  EvidenceInv'
<1>. USE DEF EvidenceInv
<1>1. UNCHANGED <<disk, run>>
  BY DEF WorldGoesOn
<1>2. EvidenceTypes'
  <2>1. world'.tip \in 1..MaxCommits /\ world.tip <= world'.tip
    BY DEF WorldGoesOn
  <2>2. run'.tip <= world'.tip
    BY <1>1, <2>1, EvidenceTyped
  <2>. QED
    BY <1>1, <2>2 DEF EvidenceTypes, WorldGoesOn
<1>3. EvidenceMarks'
  <2>1. ASSUME NEW i \in 1..MaxCommits
        PROVE  disk'.known[i] <= world'.version[i]
    <3>1. world' \in [tip : 1..MaxCommits, date : [1..MaxCommits -> Nat], night : Nat,
                       version : [1..MaxCommits -> Nat], gone : SUBSET (1..MaxCommits),
                       check : [1..MaxCommits -> {"none", "pending", "success", "failure"}]]
      BY DEF WorldGoesOn
    <3>2. world'.version \in [1..MaxCommits -> Nat]
      BY <3>1
    <3>3. world.version[i] <= world'.version[i] /\ disk.known[i] <= world.version[i]
      BY DEF WorldGoesOn, EvidenceMarks
    <3>4. world'.version[i] \in Nat
      BY <3>2
    <3>. QED
      BY <1>1, <3>3, <3>4, EvidenceTyped
  <2>. QED
    BY <1>1, <2>1 DEF EvidenceMarks, WorldGoesOn
<1>4. EvidenceFinal'
  BY <1>1 DEF EvidenceFinal, Evidence!Final
<1>5. EvidencePending'
  <2>1. Evidence!Walked' = Evidence!Walked /\ Unfetched' = Unfetched
    BY <1>1 DEF Evidence!Walked, Unfetched, Evidence!Eligible, Evidence!LastChecked
  <2>2. ASSUME NEW c \in Evidence!Walked
        PROVE  Evidence!Age(c)' = Evidence!Age(c) /\ (Evidence!NeedsCheck(c)' <=> Evidence!NeedsCheck(c))
    <3>1. c \in 1..MaxCommits /\ c <= run.tip /\ run.tip <= world.tip /\ run.tip \in Int /\ world.tip \in Int
      BY EvidenceWalked, EvidenceTyped DEF Evidence!Walked
    <3>2. c \in Int /\ c <= world.tip
      BY <3>1
    <3>3. world'.date[c] = world.date[c] /\ world'.night = world.night
      BY <3>1, <3>2 DEF WorldGoesOn
    <3>. QED
      BY <1>1, <3>3 DEF Evidence!Age, Evidence!NeedsCheck, Evidence!Final
  <2>3. Unasked' = Unasked
    BY <1>1, <2>1, <2>2 DEF Unasked
  <2>4. \A i \in Evidence!Walked : /\ SeenKnown(disk.comments, i) => SeenKnown(disk.comments, i)'
                                   /\ SeenKnown(disk.attachments, i) => SeenKnown(disk.attachments, i)'
    BY <1>1 DEF SeenKnown, WorldGoesOn
  <2>5. AllSeen => AllSeen'
    BY <2>1, <2>4 DEF AllSeen
  <2>. QED
    BY <1>1, <2>1, <2>2, <2>3, <2>4, <2>5 DEF EvidencePending
<1>. QED
  BY <1>2, <1>3, <1>4, <1>5

(* A night that starts, and one that is over.                              *)
LEMMA EvidenceEndStep ==
  ASSUME EvidenceConstants, EvidenceInv, Evidence!Score \/ Evidence!Abort
  PROVE  EvidenceInv'
<1>. USE DEF EvidenceInv
<1>1. /\ run' = [pc |-> "idle", tip |-> 0, todo |-> {}, calls |-> 0, got |-> [i \in 1..MaxCommits |-> -1],
                 lost |-> {}, checked |-> [c \in 1..MaxCommits |-> "never"], pending |-> 0]
      /\ UNCHANGED <<world, disk>>
  BY DEF Evidence!Score, Evidence!Abort, Evidence!Idle, Evidence!Issues, Evidence!Commits, Evidence!Never
<1>2. EvidenceTypes'
  <2>1. run' \in [pc : {"idle", "issues", "fetch issues", "comments", "attachments", "checks", "fetch checks", "score"},
                  tip : 0..MaxCommits, todo : SUBSET (1..MaxCommits), calls : Nat, got : [1..MaxCommits -> Int],
                  lost : SUBSET (1..MaxCommits), checked : CheckedRuns, pending : Int]
    BY <1>1 DEF EvidenceConstants, CheckedRuns
  <2>2. 0 <= world.tip
    BY EvidenceTyped
  <2>. QED
    BY <1>1, <2>1, <2>2 DEF EvidenceTypes
<1>3. EvidenceMarks'
  BY <1>1 DEF EvidenceMarks
<1>4. EvidenceFinal' /\ EvidencePending'
  BY <1>1 DEF EvidenceFinal, EvidencePending
<1>. QED
  BY <1>2, <1>3, <1>4

LEMMA EvidenceBeginStep ==
  ASSUME EvidenceConstants, EvidenceInv, Evidence!BeginNight
  PROVE  EvidenceInv'
<1>. USE DEF EvidenceInv
<1>1. /\ run' = [pc |-> "issues", tip |-> world.tip, todo |-> {}, calls |-> 0, got |-> [i \in 1..MaxCommits |-> -1],
                 lost |-> {}, checked |-> [c \in 1..MaxCommits |-> "never"], pending |-> 0]
  BY DEF Evidence!BeginNight, Evidence!Idle, Evidence!Issues, Evidence!Commits, Evidence!Never
<1>2. /\ world' = [tip |-> world.tip, date |-> world.date, night |-> Evidence!Min({world.night + 1, EvidenceNights}),
                   version |-> world.version, gone |-> world.gone, check |-> world.check]
  BY DEF Evidence!BeginNight, EvidenceTypes
<1>3. /\ world.tip \in 1..MaxCommits /\ world.date \in [1..MaxCommits -> Nat] /\ world.night \in Nat
      /\ world.version \in [1..MaxCommits -> Nat] /\ world.gone \in SUBSET (1..MaxCommits)
      /\ world.check \in [1..MaxCommits -> {"none", "pending", "success", "failure"}]
  BY DEF EvidenceTypes
<1>4. Evidence!Min({world.night + 1, EvidenceNights}) \in Nat
  <2>. DEFINE a == world.night + 1
  <2>1. a \in Nat /\ EvidenceNights \in Nat
    BY <1>3 DEF EvidenceConstants
  <2>. HIDE DEF a
  <2>2. \E x \in {a, EvidenceNights} : \A y \in {a, EvidenceNights} : x <= y
    BY <2>1
  <2>3. Evidence!Min({a, EvidenceNights}) \in {a, EvidenceNights}
    BY <2>2 DEF Evidence!Min
  <2>. QED
    BY <2>1, <2>3 DEF a
<1>5. PICK known \in [1..MaxCommits -> Int] :
        /\ disk' = [known |-> known, comments |-> disk.comments, attachments |-> disk.attachments, checks |-> disk.checks]
        /\ \A i \in 1..MaxCommits : known[i] \in {disk.known[i], world.version[i]}
  <2>1. disk = [known |-> disk.known, comments |-> disk.comments, attachments |-> disk.attachments, checks |-> disk.checks]
    BY DEF EvidenceTypes
  <2>. DEFINE table == [i \in 1..MaxCommits |-> IF i \in Evidence!Pushed THEN world.version[i] ELSE disk.known[i]]
  <2>2. table \in [1..MaxCommits -> Int] /\ disk.known \in [1..MaxCommits -> Int]
    <3>1. disk.known \in [1..MaxCommits -> Int]
      BY DEF EvidenceTypes
    <3>. QED
      BY <3>1, EvidenceTyped
  <2>3. disk' = disk \/ disk' = [disk EXCEPT !.known = table]
    BY DEF Evidence!BeginNight, Evidence!Issues, Evidence!Commits
  <2>4. CASE disk' = disk
    BY <2>1, <2>2, <2>4
  <2>5. CASE disk' = [disk EXCEPT !.known = table]
    <3>1. disk' = [known |-> table, comments |-> disk.comments, attachments |-> disk.attachments, checks |-> disk.checks]
      BY <2>1, <2>5
    <3>2. \A i \in 1..MaxCommits : table[i] \in {disk.known[i], world.version[i]}
      OBVIOUS
    <3>. HIDE DEF table
    <3>. QED
      BY <2>2, <3>1, <3>2
  <2>. QED
    BY <2>3, <2>4, <2>5
<1>6. EvidenceTypes'
  <2>1. world' \in [tip : 1..MaxCommits, date : [1..MaxCommits -> Nat], night : Nat,
                    version : [1..MaxCommits -> Nat], gone : SUBSET (1..MaxCommits),
                    check : [1..MaxCommits -> {"none", "pending", "success", "failure"}]]
    BY <1>2, <1>3, <1>4
  <2>2. disk' \in [known : [1..MaxCommits -> Int], comments : Checked, attachments : Checked, checks : CheckedRuns]
    BY <1>5 DEF EvidenceTypes
  <2>3. run' \in [pc : {"idle", "issues", "fetch issues", "comments", "attachments", "checks", "fetch checks", "score"},
                  tip : 0..MaxCommits, todo : SUBSET (1..MaxCommits), calls : Nat, got : [1..MaxCommits -> Int],
                  lost : SUBSET (1..MaxCommits), checked : CheckedRuns, pending : Int]
    BY <1>1, <1>3 DEF EvidenceConstants, CheckedRuns
  <2>4. run'.tip <= world'.tip
    BY <1>1, <1>2, <1>3
  <2>. QED
    BY <2>1, <2>2, <2>3, <2>4 DEF EvidenceTypes
<1>7. EvidenceMarks'
  <2>1. ASSUME NEW i \in 1..MaxCommits
        PROVE  disk'.known[i] <= world'.version[i]
    <3>1. disk.known[i] \in Int /\ world.version[i] \in Int
      BY EvidenceTyped
    <3>2. disk.known[i] <= world.version[i]
      BY DEF EvidenceMarks
    <3>. QED
      BY <1>2, <1>5, <3>1, <3>2
  <2>. QED
    BY <1>1, <1>2, <1>5, <2>1 DEF EvidenceMarks
<1>8. EvidenceFinal' /\ EvidencePending'
  BY <1>1 DEF EvidenceFinal, EvidencePending
<1>. QED
  BY <1>6, <1>7, <1>8

-----------------------------------------------------------------------------
(* The issues and their two tables.                                        *)

(* What a step of the night leaves of the types.                           *)
LEMMA EvidenceParts ==
  ASSUME EvidenceConstants, EvidenceTypes
  PROVE  /\ run = [pc |-> run.pc, tip |-> run.tip, todo |-> run.todo, calls |-> run.calls, got |-> run.got,
                   lost |-> run.lost, checked |-> run.checked, pending |-> run.pending]
         /\ disk = [known |-> disk.known, comments |-> disk.comments, attachments |-> disk.attachments, checks |-> disk.checks]
         /\ run.todo \in SUBSET (1..MaxCommits) /\ run.calls \in Nat /\ run.got \in [1..MaxCommits -> Int]
         /\ run.lost \in SUBSET (1..MaxCommits) /\ run.checked \in CheckedRuns /\ run.pending \in Int
         /\ disk.known \in [1..MaxCommits -> Int] /\ disk.comments \in Checked /\ disk.attachments \in Checked
         /\ disk.checks \in CheckedRuns /\ run.tip \in 0..MaxCommits
         /\ world.check \in [1..MaxCommits -> {"none", "pending", "success", "failure"}]
         /\ world.gone \in SUBSET (1..MaxCommits)
  BY DEF EvidenceTypes

LEMMA EvidenceCounts ==
  ASSUME NEW S
  PROVE  Evidence!Cardinality(S) = Cardinality(S)
  BY DEF Evidence!Cardinality, Cardinality

LEMMA EvidenceChooseIssues ==
  ASSUME EvidenceConstants, EvidenceInv, Evidence!ChooseIssues
  PROVE  EvidenceInv'
<1>. USE DEF EvidenceInv
<1>1. /\ run.pc = "issues" /\ UNCHANGED <<faults, world, disk>>
      /\ run' = [pc |-> "fetch issues", tip |-> run.tip, todo |-> Evidence!Eligible, calls |-> run.calls, got |-> run.got,
                 lost |-> run.lost, checked |-> run.checked, pending |-> Cardinality(Evidence!Eligible)]
  <2>1. /\ run.pc = "issues" /\ UNCHANGED <<faults, world, disk>>
        /\ run' = [run EXCEPT !.pc = "fetch issues", !.todo = Evidence!Eligible, !.pending = Cardinality(Evidence!Eligible)]
    BY EvidenceCounts DEF Evidence!ChooseIssues
  <2>. QED
    BY <2>1, EvidenceParts
<1>2. /\ Evidence!Eligible \in SUBSET (1..MaxCommits) /\ Cardinality(Evidence!Eligible) \in Nat
  BY EvidenceWalked, EvidenceFinite
<1>3. Cardinality(Evidence!Eligible) \in Int
  BY <1>2
<1>4. EvidenceTypes'
  <2>1. run' \in [pc : {"idle", "issues", "fetch issues", "comments", "attachments", "checks", "fetch checks", "score"},
                  tip : 0..MaxCommits, todo : SUBSET (1..MaxCommits), calls : Nat, got : [1..MaxCommits -> Int],
                  lost : SUBSET (1..MaxCommits), checked : CheckedRuns, pending : Int]
    BY <1>1, <1>2, <1>3, EvidenceParts
  <2>. QED
    BY <1>1, <2>1 DEF EvidenceTypes
<1>5. EvidenceMarks' /\ EvidenceFinal'
  BY <1>1 DEF EvidenceMarks, EvidenceFinal
<1>6. EvidencePending'
  <2>1. Unfetched = Evidence!Eligible
    BY <1>1, EvidenceWalked DEF EvidencePending, Unfetched
  <2>2. Unfetched' = Unfetched
    BY <1>1 DEF Unfetched, Evidence!Eligible, Evidence!Walked, Evidence!LastChecked
  <2>. QED
    BY <1>1, <2>1, <2>2 DEF EvidencePending
<1>. QED
  BY <1>4, <1>5, <1>6

(* What one look at the budget covers is at least one call.                *)
LEMMA EvidenceCalled ==
  ASSUME EvidenceConstants, EvidenceTypes
  PROVE  Evidence!Called \subseteq Nat
  BY EvidenceParts DEF Evidence!Called, EvidenceConstants

LEMMA EvidenceFetchIssue ==
  ASSUME EvidenceConstants, EvidenceInv, Evidence!FetchIssue
  PROVE  EvidenceInv'
<1>. USE DEF EvidenceInv
<1>. DEFINE i == Evidence!Max(run.todo)
            got == [run.got EXCEPT ![i] = world.version[i]]
            lost == run.lost \cup ({i} \cap world.gone)
<1>1. run.pc = "fetch issues" /\ run.todo # {} /\ UNCHANGED <<faults, world, disk>>
  BY DEF Evidence!FetchIssue
<1>2. PICK calls \in Nat :
        run' = [pc |-> "fetch issues", tip |-> run.tip, todo |-> run.todo \ {i}, calls |-> calls, got |-> got,
                lost |-> lost, checked |-> run.checked, pending |-> run.pending - 1]
  <2>1. PICK calls \in Evidence!Called :
          run' = [run EXCEPT !.todo = @ \ {i}, !.calls = calls, !.pending = @ - 1, !.got[i] = world.version[i],
                             !.lost = @ \cup ({i} \cap world.gone)]
    BY DEF Evidence!FetchIssue
  <2>. QED
    BY <1>1, <2>1, EvidenceParts, EvidenceCalled
<1>3. i \in run.todo /\ i \in 1..MaxCommits
  BY <1>1, EvidenceNewest, EvidenceParts
<1>4. world.version[i] \in Int /\ world.version[i] \in Nat
  BY <1>3, EvidenceTyped
<1>. HIDE DEF i
<1>5. /\ got \in [1..MaxCommits -> Int] /\ got[i] = world.version[i]
      /\ \A j \in 1..MaxCommits : j # i => got[j] = run.got[j]
  BY <1>3, <1>4, EvidenceParts
<1>. HIDE DEF got
<1>6. EvidenceTypes'
  <2>1. run.pending - 1 \in Int /\ lost \in SUBSET (1..MaxCommits)
        /\ run.todo \ {i} \in SUBSET (1..MaxCommits)
    BY <1>3, EvidenceParts
  <2>. HIDE DEF lost
  <2>2. run' \in [pc : {"idle", "issues", "fetch issues", "comments", "attachments", "checks", "fetch checks", "score"},
                  tip : 0..MaxCommits, todo : SUBSET (1..MaxCommits), calls : Nat, got : [1..MaxCommits -> Int],
                  lost : SUBSET (1..MaxCommits), checked : CheckedRuns, pending : Int]
    BY <1>2, <1>5, <2>1, EvidenceParts
  <2>. QED
    BY <1>1, <1>2, <2>2 DEF EvidenceTypes
<1>7. EvidenceMarks'
  <2>1. ASSUME NEW j \in 1..MaxCommits, got[j] # -1
        PROVE  got[j] >= disk.known[j]
    <3>1. CASE j = i
      BY <1>3, <1>4, <1>5, <3>1, EvidenceTyped DEF EvidenceMarks
    <3>2. CASE j # i
      BY <1>5, <2>1, <3>2 DEF EvidenceMarks
    <3>. QED
      BY <3>1, <3>2
  <2>2. lost \subseteq world.gone
    BY DEF EvidenceMarks
  <2>. QED
    BY <1>1, <1>2, <2>1, <2>2 DEF EvidenceMarks
<1>8. EvidenceFinal'
  BY <1>1, <1>2 DEF EvidenceFinal
<1>9. EvidencePending'
  <2>1. Evidence!Eligible' = Evidence!Eligible
    BY <1>1, <1>2 DEF Evidence!Eligible, Evidence!Walked, Evidence!LastChecked
  <2>2. Unfetched \subseteq 1..MaxCommits /\ Unfetched \in SUBSET Evidence!Walked
    BY EvidenceWalked DEF Unfetched
  <2>3. i \in Unfetched /\ run.todo \subseteq Unfetched /\ run.pending = Cardinality(Unfetched)
    BY <1>1, <1>3 DEF EvidencePending
  <2>4. got[i] # -1
    BY <1>4, <1>5
  <2>5. Unfetched' = Unfetched \ {i}
    BY <1>2, <1>5, <2>1, <2>2, <2>4, EvidenceWalked DEF Unfetched
  <2>6. run'.pending = Cardinality(Unfetched')
    BY <1>2, <2>2, <2>3, <2>5, EvidenceFinite
  <2>. QED
    BY <1>2, <2>3, <2>5, <2>6 DEF EvidencePending
<1>. QED
  BY <1>6, <1>7, <1>8, <1>9

LEMMA EvidenceLeaveIssues ==
  ASSUME EvidenceConstants, EvidenceInv, Evidence!FailIssue \/ Evidence!EndIssues
  PROVE  EvidenceInv'
<1>. USE DEF EvidenceInv
<1>1. run.pc = "fetch issues" /\ UNCHANGED <<faults, world, disk>>
  BY DEF Evidence!FailIssue, Evidence!EndIssues
<1>2. PICK pc \in {"fetch issues", "comments"}, todo \in SUBSET run.todo, calls \in Nat :
        run' = [pc |-> pc, tip |-> run.tip, todo |-> todo, calls |-> calls, got |-> run.got,
                lost |-> run.lost, checked |-> run.checked, pending |-> run.pending]
  <2>1. CASE Evidence!FailIssue
    <3>1. PICK calls \in Evidence!Called :
            run' = [run EXCEPT !.todo = @ \ {Evidence!Max(run.todo)}, !.calls = calls]
      BY <2>1 DEF Evidence!FailIssue
    <3>2. run' = [pc |-> "fetch issues", tip |-> run.tip, todo |-> run.todo \ {Evidence!Max(run.todo)},
                  calls |-> calls, got |-> run.got,
                  lost |-> run.lost, checked |-> run.checked, pending |-> run.pending]
      BY <1>1, <3>1, EvidenceParts
    <3>3. run.todo \ {Evidence!Max(run.todo)} \in SUBSET run.todo
      OBVIOUS
    <3>. QED
      BY <3>2, <3>3, EvidenceCalled
  <2>2. CASE Evidence!EndIssues
    <3>1. run' = [pc |-> "comments", tip |-> run.tip, todo |-> run.todo, calls |-> run.calls, got |-> run.got,
                  lost |-> run.lost, checked |-> run.checked, pending |-> run.pending]
      BY <2>2, EvidenceParts DEF Evidence!EndIssues
    <3>. QED
      BY <3>1, EvidenceParts
  <2>. QED
    BY <2>1, <2>2
<1>3. EvidenceTypes'
  <2>1. run' \in [pc : {"idle", "issues", "fetch issues", "comments", "attachments", "checks", "fetch checks", "score"},
                  tip : 0..MaxCommits, todo : SUBSET (1..MaxCommits), calls : Nat, got : [1..MaxCommits -> Int],
                  lost : SUBSET (1..MaxCommits), checked : CheckedRuns, pending : Int]
    BY <1>2, EvidenceParts
  <2>. QED
    BY <1>1, <1>2, <2>1 DEF EvidenceTypes
<1>4. EvidenceMarks'
  BY <1>1, <1>2 DEF EvidenceMarks
<1>5. EvidenceFinal'
  BY <1>1, <1>2 DEF EvidenceFinal
<1>6. EvidencePending'
  <2>1. Unfetched' = Unfetched
    BY <1>1, <1>2 DEF Unfetched, Evidence!Eligible, Evidence!Walked, Evidence!LastChecked
  <2>. QED
    BY <1>1, <1>2, <2>1 DEF EvidencePending
<1>. QED
  BY <1>3, <1>4, <1>5, <1>6

(* Rows written for the issues fetched are not marked newer than seen.     *)
LEMMA EvidenceNoted ==
  ASSUME EvidenceConstants, EvidenceTypes, EvidenceMarks, NEW old \in Checked, NEW fetched,
         \A i \in 1..MaxCommits : i \notin world.gone => old[i].mark <= old[i].seen /\ (i \in fetched)
  PROVE  LET rows == Evidence!Noted(old, fetched, Evidence!Marked)
         IN  /\ rows \in Checked
             /\ \A i \in 1..MaxCommits : i \notin world.gone =>
                  /\ rows[i].mark <= rows[i].seen
                  /\ run.got[i] # -1 => SeenKnown(rows, i)
                  /\ run.got[i] = -1 => rows[i] = old[i]
<1>. DEFINE rows == Evidence!Noted(old, fetched, Evidence!Marked)
            marked == Evidence!Marked
<1>1. \A i \in 1..MaxCommits :
        rows[i] = IF run.got[i] = -1 \/ i \notin fetched THEN old[i]
                  ELSE [mark |-> marked[i], seen |-> IF i \in run.lost THEN old[i].seen ELSE run.got[i]]
  BY DEF Evidence!Noted, Evidence!Issues, Evidence!Commits, Evidence!Never
<1>2. \A i \in 1..MaxCommits : marked[i] = IF disk.known[i] = -1 THEN run.got[i] ELSE disk.known[i]
  BY DEF Evidence!Marked, Evidence!Issues, Evidence!Commits, Evidence!Never
<1>3. rows = [i \in 1..MaxCommits |-> rows[i]]
  BY DEF Evidence!Noted, Evidence!Issues, Evidence!Commits
<1>. HIDE DEF rows, marked
<1>4. ASSUME NEW i \in 1..MaxCommits
      PROVE  rows[i] \in [mark : Int, seen : Int]
  <2>1. marked[i] \in Int /\ run.got[i] \in Int
    BY <1>2, EvidenceTyped
  <2>2. old[i] \in [mark : Int, seen : Int]
    BY DEF Checked
  <2>3. CASE run.got[i] = -1 \/ i \notin fetched
    BY <1>1, <2>2, <2>3
  <2>4. CASE ~ (run.got[i] = -1 \/ i \notin fetched)
    <3>1. rows[i] = [mark |-> marked[i], seen |-> IF i \in run.lost THEN old[i].seen ELSE run.got[i]]
      BY <1>1, <2>4
    <3>. QED
      BY <2>1, <2>2, <3>1
  <2>. QED
    BY <2>3, <2>4
<1>5. rows \in Checked
  BY <1>3, <1>4 DEF Checked
<1>6. ASSUME NEW i \in 1..MaxCommits, i \notin world.gone
      PROVE  /\ rows[i].mark <= rows[i].seen
             /\ run.got[i] # -1 => SeenKnown(rows, i)
             /\ run.got[i] = -1 => rows[i] = old[i]
  <2>1. i \notin run.lost /\ i \in fetched /\ old[i].mark <= old[i].seen
    BY <1>6 DEF EvidenceMarks
  <2>2. CASE run.got[i] = -1
    BY <1>1, <2>1, <2>2
  <2>3. CASE run.got[i] # -1
    <3>1. rows[i] = [mark |-> marked[i], seen |-> run.got[i]]
      BY <1>1, <2>1, <2>3
    <3>2. run.got[i] >= disk.known[i] /\ run.got[i] \in Int /\ disk.known[i] \in Int
      BY <2>3, EvidenceTyped DEF EvidenceMarks
    <3>3. marked[i] <= run.got[i]
      BY <1>2, <3>2
    <3>. QED
      BY <2>3, <3>1, <3>2, <3>3 DEF SeenKnown
  <2>. QED
    BY <2>2, <2>3
<1>. QED
  BY <1>5, <1>6 DEF rows

LEMMA EvidenceWriteComments ==
  ASSUME EvidenceConstants, EvidenceInv, Evidence!WriteComments
  PROVE  EvidenceInv'
<1>. USE DEF EvidenceInv
<1>. DEFINE rows == Evidence!Noted(disk.comments, 1..MaxCommits, Evidence!Marked)
<1>1. /\ run.pc = "comments" /\ UNCHANGED <<faults, world>>
      /\ run' = [pc |-> "attachments", tip |-> run.tip, todo |-> run.todo, calls |-> run.calls, got |-> run.got,
                 lost |-> run.lost, checked |-> run.checked, pending |-> run.pending]
  BY EvidenceParts DEF Evidence!WriteComments, Evidence!Step
<1>2. disk' = [known |-> disk.known, comments |-> rows, attachments |-> disk.attachments, checks |-> disk.checks]
  BY EvidenceParts DEF Evidence!WriteComments, Evidence!Issues, Evidence!Commits
<1>3. \A i \in 1..MaxCommits : i \notin world.gone => disk.comments[i].mark <= disk.comments[i].seen /\ i \in 1..MaxCommits
  BY DEF EvidenceMarks
<1>4. /\ rows \in Checked
      /\ \A i \in 1..MaxCommits : i \notin world.gone =>
           /\ rows[i].mark <= rows[i].seen
           /\ run.got[i] # -1 => SeenKnown(rows, i)
           /\ run.got[i] = -1 => rows[i] = disk.comments[i]
  BY <1>3, EvidenceNoted, EvidenceParts
<1>. HIDE DEF rows
<1>5. EvidenceTypes'
  <2>1. run' \in [pc : {"idle", "issues", "fetch issues", "comments", "attachments", "checks", "fetch checks", "score"},
                  tip : 0..MaxCommits, todo : SUBSET (1..MaxCommits), calls : Nat, got : [1..MaxCommits -> Int],
                  lost : SUBSET (1..MaxCommits), checked : CheckedRuns, pending : Int]
    BY <1>1, EvidenceParts
  <2>2. disk' \in [known : [1..MaxCommits -> Int], comments : Checked, attachments : Checked, checks : CheckedRuns]
    BY <1>2, <1>4, EvidenceParts
  <2>. QED
    BY <1>1, <2>1, <2>2 DEF EvidenceTypes
<1>6. EvidenceMarks'
  BY <1>1, <1>2, <1>4 DEF EvidenceMarks
<1>7. EvidenceFinal'
  BY <1>1, <1>2 DEF EvidenceFinal
<1>8. EvidencePending'
  <2>1. run.pending = Cardinality(Unfetched) /\ run.pending \in Nat /\ (run.pending = 0 => Unfetched = {})
    <3>1. Unfetched \in SUBSET Evidence!Walked
      BY EvidenceWalked DEF Unfetched
    <3>2. run.pending = Cardinality(Unfetched)
      BY <1>1 DEF EvidencePending
    <3>. QED
      BY <3>1, <3>2, EvidenceFinite
  <2>2. ASSUME run.pending = 0, NEW i \in Evidence!Walked
        PROVE  SeenKnown(disk.comments, i)' /\ (run.got[i] # -1 \/ SeenKnown(disk.attachments, i)')
    <3>1. i \in 1..MaxCommits
      BY EvidenceWalked
    <3>2. CASE run.got[i] # -1
      BY <1>1, <1>2, <1>4, <3>1, <3>2 DEF SeenKnown
    <3>3. CASE run.got[i] = -1
      <4>1. i \notin Evidence!Eligible
        BY <2>1, <2>2, <3>3 DEF Unfetched
      <4>2. SeenKnown(disk.comments, i) /\ SeenKnown(disk.attachments, i)
        BY <4>1, NotEligibleIsSeen
      <4>. QED
        BY <1>1, <1>2, <1>4, <3>1, <3>3, <4>2 DEF SeenKnown
    <3>. QED
      BY <3>2, <3>3
  <2>3. Evidence!Walked' = Evidence!Walked
    BY <1>1 DEF Evidence!Walked
  <2>. QED
    BY <1>1, <2>1, <2>2, <2>3 DEF EvidencePending
<1>. QED
  BY <1>5, <1>6, <1>7, <1>8

LEMMA EvidenceWriteAttachments ==
  ASSUME EvidenceConstants, EvidenceInv, Evidence!WriteAttachments
  PROVE  EvidenceInv'
<1>. USE DEF EvidenceInv
<1>. DEFINE rows == Evidence!Noted(disk.attachments, 1..MaxCommits \ run.lost, Evidence!Marked)
<1>1. /\ run.pc = "attachments" /\ UNCHANGED <<faults, world>>
      /\ run' = [pc |-> "checks", tip |-> run.tip, todo |-> run.todo, calls |-> run.calls, got |-> run.got,
                 lost |-> run.lost, checked |-> run.checked, pending |-> run.pending]
  BY EvidenceParts DEF Evidence!WriteAttachments, Evidence!Step
<1>2. disk' = [known |-> disk.known, comments |-> disk.comments, attachments |-> rows, checks |-> disk.checks]
  BY EvidenceParts DEF Evidence!WriteAttachments, Evidence!Issues, Evidence!Commits
<1>3. \A i \in 1..MaxCommits : i \notin world.gone =>
        disk.attachments[i].mark <= disk.attachments[i].seen /\ i \in 1..MaxCommits \ run.lost
  BY DEF EvidenceMarks
<1>4. /\ rows \in Checked
      /\ \A i \in 1..MaxCommits : i \notin world.gone =>
           /\ rows[i].mark <= rows[i].seen
           /\ run.got[i] # -1 => SeenKnown(rows, i)
           /\ run.got[i] = -1 => rows[i] = disk.attachments[i]
  BY <1>3, EvidenceNoted, EvidenceParts
<1>. HIDE DEF rows
<1>5. EvidenceTypes'
  <2>1. run' \in [pc : {"idle", "issues", "fetch issues", "comments", "attachments", "checks", "fetch checks", "score"},
                  tip : 0..MaxCommits, todo : SUBSET (1..MaxCommits), calls : Nat, got : [1..MaxCommits -> Int],
                  lost : SUBSET (1..MaxCommits), checked : CheckedRuns, pending : Int]
    BY <1>1, EvidenceParts
  <2>2. disk' \in [known : [1..MaxCommits -> Int], comments : Checked, attachments : Checked, checks : CheckedRuns]
    BY <1>2, <1>4, EvidenceParts
  <2>. QED
    BY <1>1, <2>1, <2>2 DEF EvidenceTypes
<1>6. EvidenceMarks'
  BY <1>1, <1>2, <1>4 DEF EvidenceMarks
<1>7. EvidenceFinal'
  BY <1>1, <1>2 DEF EvidenceFinal
<1>8. EvidencePending'
  <2>1. Evidence!Walked' = Evidence!Walked
    BY <1>1 DEF Evidence!Walked
  <2>2. ASSUME run.pending = 0, NEW i \in Evidence!Walked
        PROVE  SeenKnown(disk.comments, i)' /\ SeenKnown(disk.attachments, i)'
    <3>1. i \in 1..MaxCommits
      BY EvidenceWalked
    <3>2. SeenKnown(disk.comments, i) /\ (run.got[i] # -1 \/ SeenKnown(disk.attachments, i))
      BY <1>1, <2>2 DEF EvidencePending
    <3>. QED
      BY <1>1, <1>2, <1>4, <3>1, <3>2 DEF SeenKnown
  <2>3. run.pending \in Nat
    BY <1>1 DEF EvidencePending
  <2>4. run.pending = 0 => AllSeen'
    BY <2>1, <2>2 DEF AllSeen
  <2>. QED
    BY <1>1, <2>3, <2>4 DEF EvidencePending
<1>. QED
  BY <1>5, <1>6, <1>7, <1>8

-----------------------------------------------------------------------------
(* The check runs.                                                         *)

LEMMA EvidenceChooseChecks ==
  ASSUME EvidenceConstants, EvidenceInv, Evidence!ChooseChecks
  PROVE  EvidenceInv'
<1>. USE DEF EvidenceInv
<1>. DEFINE todo == {c \in Evidence!Walked : Evidence!NeedsCheck(c)}
<1>1. /\ run.pc = "checks" /\ UNCHANGED <<faults, world, disk>>
      /\ run' = [pc |-> "fetch checks", tip |-> run.tip, todo |-> todo, calls |-> 0, got |-> run.got,
                 lost |-> run.lost, checked |-> run.checked, pending |-> run.pending + Cardinality(todo)]
  <2>1. /\ run.pc = "checks" /\ UNCHANGED <<faults, world, disk>>
        /\ run' = [run EXCEPT !.pc = "fetch checks", !.todo = todo, !.calls = 0,
                              !.pending = @ + Cardinality(todo)]
    BY EvidenceCounts DEF Evidence!ChooseChecks
  <2>. HIDE DEF todo
  <2>. QED
    BY <2>1, EvidenceParts
<1>2. todo \in SUBSET Evidence!Walked
  OBVIOUS
<1>3. \A c \in todo : disk.checks[c] \notin Evidence!Final
  BY DEF Evidence!NeedsCheck, Evidence!Final
<1>4. \A c \in 1..MaxCommits : run.checked[c] = "never"
  BY <1>1 DEF EvidenceFinal
<1>5. todo = Unasked
  BY <1>4, EvidenceWalked DEF Unasked
<1>. HIDE DEF todo
<1>6. /\ todo \in SUBSET (1..MaxCommits) /\ Cardinality(todo) \in Nat
      /\ run.pending + Cardinality(todo) \in Int
  BY <1>2, EvidenceFinite, EvidenceParts
<1>7. EvidenceTypes'
  <2>1. run' \in [pc : {"idle", "issues", "fetch issues", "comments", "attachments", "checks", "fetch checks", "score"},
                  tip : 0..MaxCommits, todo : SUBSET (1..MaxCommits), calls : Nat, got : [1..MaxCommits -> Int],
                  lost : SUBSET (1..MaxCommits), checked : CheckedRuns, pending : Int]
    BY <1>1, <1>6, EvidenceParts
  <2>. QED
    BY <1>1, <2>1 DEF EvidenceTypes
<1>8. EvidenceMarks'
  BY <1>1 DEF EvidenceMarks
<1>9. EvidenceFinal'
  BY <1>1, <1>3, <1>4 DEF EvidenceFinal, Evidence!Final
<1>10. EvidencePending'
  <2>1. Unasked' = Unasked
    BY <1>1 DEF Unasked, Evidence!Walked, Evidence!NeedsCheck, Evidence!Age, Evidence!Final
  <2>2. AllSeen' = AllSeen
    BY <1>1 DEF AllSeen, Evidence!Walked, SeenKnown
  <2>3. run.pending \in Nat /\ (run.pending = 0 => AllSeen)
    BY <1>1 DEF EvidencePending
  <2>4. run.pending + Cardinality(todo) >= Cardinality(todo)
    BY <1>6, <2>3
  <2>5. run.pending + Cardinality(todo) > Cardinality(todo) \/ AllSeen
    BY <1>6, <2>3
  <2>. QED
    BY <1>1, <1>5, <2>1, <2>2, <2>4, <2>5 DEF EvidencePending
<1>. QED
  BY <1>7, <1>8, <1>9, <1>10

LEMMA EvidenceFetchCheck ==
  ASSUME EvidenceConstants, EvidenceInv, Evidence!FetchCheck
  PROVE  EvidenceInv'
<1>. USE DEF EvidenceInv
<1>. DEFINE c == Evidence!Max(run.todo)
            checked == [run.checked EXCEPT ![c] = world.check[c]]
<1>1. run.pc = "fetch checks" /\ run.todo # {} /\ UNCHANGED <<faults, world, disk>>
  BY DEF Evidence!FetchCheck
<1>2. PICK calls \in Nat :
        run' = [pc |-> "fetch checks", tip |-> run.tip, todo |-> run.todo \ {c}, calls |-> calls, got |-> run.got,
                lost |-> run.lost, checked |-> checked, pending |-> run.pending - 1]
  <2>1. PICK calls \in Evidence!Called :
          run' = [run EXCEPT !.todo = @ \ {c}, !.calls = calls, !.pending = @ - 1, !.checked[c] = world.check[c]]
    BY DEF Evidence!FetchCheck
  <2>. QED
    BY <1>1, <2>1, EvidenceParts, EvidenceCalled
<1>3. c \in run.todo /\ c \in 1..MaxCommits
  BY <1>1, EvidenceNewest, EvidenceParts
<1>4. world.check[c] \in {"none", "pending", "success", "failure"}
  BY <1>3, EvidenceParts
<1>. HIDE DEF c
<1>5. /\ checked \in CheckedRuns /\ checked[c] # "never"
      /\ \A d \in 1..MaxCommits : d # c => checked[d] = run.checked[d]
  BY <1>3, <1>4, EvidenceParts DEF CheckedRuns
<1>. HIDE DEF checked
<1>6. EvidenceTypes'
  <2>1. run.pending - 1 \in Int /\ run.todo \ {c} \in SUBSET (1..MaxCommits)
    BY EvidenceParts
  <2>2. run' \in [pc : {"idle", "issues", "fetch issues", "comments", "attachments", "checks", "fetch checks", "score"},
                  tip : 0..MaxCommits, todo : SUBSET (1..MaxCommits), calls : Nat, got : [1..MaxCommits -> Int],
                  lost : SUBSET (1..MaxCommits), checked : CheckedRuns, pending : Int]
    BY <1>2, <1>5, <2>1, EvidenceParts
  <2>. QED
    BY <1>1, <1>2, <2>2 DEF EvidenceTypes
<1>7. EvidenceMarks'
  BY <1>1, <1>2 DEF EvidenceMarks
<1>8. EvidenceFinal'
  <2>1. ASSUME NEW d \in 1..MaxCommits, d \in run.todo \ {c} \/ checked[d] # "never"
        PROVE  disk.checks[d] \notin Evidence!Final
    <3>1. d \in run.todo \/ run.checked[d] # "never"
      BY <1>3, <1>5, <2>1
    <3>. QED
      BY <1>1, <3>1 DEF EvidenceFinal
  <2>. QED
    BY <1>1, <1>2, <2>1 DEF EvidenceFinal, Evidence!Final
<1>9. EvidencePending'
  <2>1. /\ run.todo \subseteq Unasked /\ run.pending >= Cardinality(Unasked)
        /\ run.pending > Cardinality(Unasked) \/ AllSeen
    BY <1>1 DEF EvidencePending
  <2>2. Unasked \in SUBSET Evidence!Walked
    BY DEF Unasked
  <2>3. Unasked' = Unasked \ {c}
    <3>1. Evidence!Walked' = Evidence!Walked
      BY <1>2 DEF Evidence!Walked
    <3>2. \A d \in Evidence!Walked : Evidence!NeedsCheck(d)' = Evidence!NeedsCheck(d)
      BY <1>1 DEF Evidence!NeedsCheck, Evidence!Age, Evidence!Final
    <3>. QED
      BY <1>2, <1>5, <3>1, <3>2, EvidenceWalked DEF Unasked
  <2>4. Cardinality(Unasked') = Cardinality(Unasked) - 1 /\ Cardinality(Unasked) \in Nat
    BY <1>3, <2>1, <2>2, <2>3, EvidenceFinite
  <2>5. AllSeen' = AllSeen
    BY <1>1, <1>2 DEF AllSeen, Evidence!Walked, SeenKnown
  <2>6. run.pending \in Int
    BY EvidenceParts
  <2>7. run.pending - 1 >= Cardinality(Unasked') /\ (run.pending - 1 > Cardinality(Unasked') \/ AllSeen')
    BY <2>1, <2>4, <2>5, <2>6
  <2>8. run.todo \ {c} \subseteq Unasked'
    BY <2>1, <2>3
  <2>. QED
    BY <1>2, <2>7, <2>8 DEF EvidencePending
<1>. QED
  BY <1>6, <1>7, <1>8, <1>9

LEMMA EvidenceFailCheck ==
  ASSUME EvidenceConstants, EvidenceInv, Evidence!FailCheck
  PROVE  EvidenceInv'
<1>. USE DEF EvidenceInv
<1>. DEFINE todo == run.todo \ {Evidence!Max(run.todo)}
<1>1. run.pc = "fetch checks" /\ UNCHANGED <<faults, world, disk>>
  BY DEF Evidence!FailCheck
<1>2. PICK calls \in Evidence!Called : run' = [run EXCEPT !.todo = todo, !.calls = calls]
  BY DEF Evidence!FailCheck
<1>3. todo \in SUBSET run.todo
  OBVIOUS
<1>. HIDE DEF todo
<1>4. run' = [pc |-> "fetch checks", tip |-> run.tip, todo |-> todo, calls |-> calls, got |-> run.got,
              lost |-> run.lost, checked |-> run.checked, pending |-> run.pending]
  BY <1>1, <1>2, EvidenceParts
<1>5. EvidenceTypes'
  <2>1. run' \in [pc : {"idle", "issues", "fetch issues", "comments", "attachments", "checks", "fetch checks", "score"},
                  tip : 0..MaxCommits, todo : SUBSET (1..MaxCommits), calls : Nat, got : [1..MaxCommits -> Int],
                  lost : SUBSET (1..MaxCommits), checked : CheckedRuns, pending : Int]
    <3>1. calls \in Nat /\ todo \in SUBSET (1..MaxCommits)
      BY <1>3, EvidenceParts, EvidenceCalled
    <3>. QED
      BY <1>4, <3>1, EvidenceParts
  <2>. QED
    BY <1>1, <1>4, <2>1 DEF EvidenceTypes
<1>6. EvidenceMarks'
  BY <1>1, <1>4 DEF EvidenceMarks
<1>7. EvidenceFinal'
  BY <1>1, <1>3, <1>4 DEF EvidenceFinal, Evidence!Final
<1>8. EvidencePending'
  <2>1. Unasked' = Unasked
    BY <1>1, <1>4 DEF Unasked, Evidence!Walked, Evidence!NeedsCheck, Evidence!Age, Evidence!Final
  <2>2. AllSeen' = AllSeen
    BY <1>1, <1>4 DEF AllSeen, Evidence!Walked, SeenKnown
  <2>. QED
    BY <1>1, <1>3, <1>4, <2>1, <2>2 DEF EvidencePending
<1>. QED
  BY <1>5, <1>6, <1>7, <1>8

(* Only batches that are not final are written over.                       *)
LEMMA EvidenceWritten ==
  ASSUME EvidenceConstants, EvidenceInv, Evidence!WriteChecks
  PROVE  /\ run.pc = "fetch checks" /\ UNCHANGED <<faults, world>>
         /\ run' = [pc |-> "score", tip |-> run.tip, todo |-> {}, calls |-> run.calls, got |-> run.got,
                    lost |-> run.lost, checked |-> run.checked, pending |-> run.pending]
         /\ \E checks \in CheckedRuns :
              /\ disk' = [known |-> disk.known, comments |-> disk.comments, attachments |-> disk.attachments,
                          checks |-> checks]
              /\ \A c \in 1..MaxCommits :
                   /\ checks[c] = IF run.checked[c] = "never" THEN disk.checks[c] ELSE run.checked[c]
                   /\ disk.checks[c] \in Evidence!Final => checks[c] = disk.checks[c]
<1>. USE DEF EvidenceInv
<1>. DEFINE checks == [c \in 1..MaxCommits |-> IF run.checked[c] = "never" THEN disk.checks[c] ELSE run.checked[c]]
<1>1. /\ run.pc = "fetch checks" /\ UNCHANGED <<faults, world>>
      /\ run' = [run EXCEPT !.pc = "score", !.todo = {}]
      /\ disk' = [disk EXCEPT !.checks = checks]
  BY DEF Evidence!WriteChecks, Evidence!Commits
<1>2. checks \in CheckedRuns
  BY EvidenceParts DEF CheckedRuns
<1>3. \A c \in 1..MaxCommits : disk.checks[c] \in Evidence!Final => checks[c] = disk.checks[c]
  BY <1>1 DEF EvidenceFinal
<1>4. \A c \in 1..MaxCommits : checks[c] = IF run.checked[c] = "never" THEN disk.checks[c] ELSE run.checked[c]
  OBVIOUS
<1>. HIDE DEF checks
<1>5. disk' = [known |-> disk.known, comments |-> disk.comments, attachments |-> disk.attachments, checks |-> checks]
  BY <1>1, EvidenceParts
<1>6. run' = [pc |-> "score", tip |-> run.tip, todo |-> {}, calls |-> run.calls, got |-> run.got,
              lost |-> run.lost, checked |-> run.checked, pending |-> run.pending]
  BY <1>1, EvidenceParts
<1>7. \A c \in 1..MaxCommits :
        /\ checks[c] = IF run.checked[c] = "never" THEN disk.checks[c] ELSE run.checked[c]
        /\ disk.checks[c] \in Evidence!Final => checks[c] = disk.checks[c]
  BY <1>3, <1>4
<1>8. run.pc = "fetch checks" /\ UNCHANGED <<faults, world>>
  BY <1>1
<1>. QED
  BY <1>2, <1>5, <1>6, <1>7, <1>8

LEMMA EvidenceWriteChecks ==
  ASSUME EvidenceConstants, EvidenceInv, Evidence!WriteChecks
  PROVE  EvidenceInv'
<1>. USE DEF EvidenceInv
<1>1. /\ run.pc = "fetch checks" /\ UNCHANGED <<faults, world>>
      /\ run' = [pc |-> "score", tip |-> run.tip, todo |-> {}, calls |-> run.calls, got |-> run.got,
                 lost |-> run.lost, checked |-> run.checked, pending |-> run.pending]
  BY EvidenceWritten
<1>6. PICK checks \in CheckedRuns :
        /\ disk' = [known |-> disk.known, comments |-> disk.comments, attachments |-> disk.attachments, checks |-> checks]
        /\ \A c \in 1..MaxCommits : checks[c] = IF run.checked[c] = "never" THEN disk.checks[c] ELSE run.checked[c]
  BY EvidenceWritten
<1>2. EvidenceTypes'
  <2>1. run' \in [pc : {"idle", "issues", "fetch issues", "comments", "attachments", "checks", "fetch checks", "score"},
                  tip : 0..MaxCommits, todo : SUBSET (1..MaxCommits), calls : Nat, got : [1..MaxCommits -> Int],
                  lost : SUBSET (1..MaxCommits), checked : CheckedRuns, pending : Int]
    BY <1>1, EvidenceParts
  <2>2. disk' \in [known : [1..MaxCommits -> Int], comments : Checked, attachments : Checked, checks : CheckedRuns]
    BY <1>6, EvidenceParts
  <2>. QED
    BY <1>1, <2>1, <2>2 DEF EvidenceTypes
<1>3. EvidenceMarks'
  <2>1. disk'.known = disk.known /\ disk'.comments = disk.comments /\ disk'.attachments = disk.attachments
    BY <1>6
  <2>. QED
    BY <1>1, <2>1 DEF EvidenceMarks
<1>4. EvidenceFinal'
  BY <1>1, <1>6 DEF EvidenceFinal
<1>5. EvidencePending'
  <2>1. ASSUME run.pending = 0
        PROVE  AllSeen' /\ \A c \in Evidence!Walked : Evidence!Age(c) <= Retention => disk'.checks[c] # "never"
    <3>1. /\ run.pending >= Cardinality(Unasked)
          /\ run.pending > Cardinality(Unasked) \/ AllSeen
      BY <1>1 DEF EvidencePending
    <3>2. Unasked \in SUBSET Evidence!Walked
      BY DEF Unasked
    <3>3. Cardinality(Unasked) \in Nat /\ (Cardinality(Unasked) = 0 => Unasked = {})
      BY <3>2, EvidenceFinite
    <3>4. Unasked = {} /\ AllSeen
      BY <2>1, <3>1, <3>3
    <3>5. disk'.known = disk.known /\ disk'.comments = disk.comments /\ disk'.attachments = disk.attachments
      BY <1>6
    <3>6. AllSeen'
      BY <1>1, <3>4, <3>5 DEF AllSeen, Evidence!Walked, SeenKnown
    <3>7. ASSUME NEW c \in Evidence!Walked, Evidence!Age(c) <= Retention
          PROVE  disk'.checks[c] # "never"
      <4>1. c \in 1..MaxCommits
        BY EvidenceWalked
      <4>2. disk'.checks[c] = IF run.checked[c] = "never" THEN disk.checks[c] ELSE run.checked[c]
        BY <1>6, <4>1
      <4>3. ~ (Evidence!NeedsCheck(c) /\ run.checked[c] = "never")
        BY <3>4 DEF Unasked
      <4>. QED
        BY <3>7, <4>2, <4>3 DEF Evidence!NeedsCheck
    <3>. QED
      BY <3>6, <3>7
  <2>2. /\ Evidence!Walked' = Evidence!Walked
        /\ \A c \in Evidence!Walked : Evidence!Age(c)' = Evidence!Age(c)
    BY <1>1 DEF Evidence!Walked, Evidence!Age
  <2>. QED
    BY <1>1, <2>1, <2>2 DEF EvidencePending
<1>. QED
  BY <1>2, <1>3, <1>4, <1>5

-----------------------------------------------------------------------------
LEMMA EvidenceStep ==
  ASSUME EvidenceConstants, EvidenceInv, [Evidence!Next]_<<faults, world, disk, run>>
  PROVE  EvidenceInv'
<1>1. CASE Evidence!Night
  BY <1>1, EvidenceBeginStep, EvidenceChooseIssues, EvidenceFetchIssue, EvidenceLeaveIssues, EvidenceWriteComments,
     EvidenceWriteAttachments, EvidenceChooseChecks, EvidenceFetchCheck, EvidenceWriteChecks, EvidenceEndStep
     DEF Evidence!Night
<1>2. CASE Evidence!Fault
  BY <1>2, EvidenceLeaveIssues, EvidenceFailCheck, EvidenceEndStep DEF Evidence!Fault
<1>3. CASE \/ Evidence!Push
           \/ \E i \in Evidence!Issues : Evidence!UpdateIssue(i) \/ Evidence!DeleteIssue(i) \/ Evidence!CheckRuns(i)
  BY <1>3, EvidenceWorldActions, EvidenceWorldStep DEF EvidenceInv
<1>4. CASE UNCHANGED <<faults, world, disk, run>>
  BY <1>4 DEF EvidenceInv, EvidenceTypes, EvidenceMarks, EvidenceFinal, Evidence!Final, EvidencePending, AllSeen,
     SeenKnown, Unfetched, Unasked, Evidence!Walked, Evidence!Eligible, Evidence!LastChecked, Evidence!NeedsCheck, Evidence!Age
<1>. QED
  BY <1>1, <1>2, <1>3, <1>4 DEF Evidence!Next

LEMMA EvidenceInvariant == EvidenceConstants /\ Evidence!Spec => []EvidenceInv
<1>. SUFFICES ASSUME EvidenceConstants PROVE Evidence!Spec => []EvidenceInv
  OBVIOUS
<1>1. Evidence!Init => EvidenceInv
  BY EvidenceInit
<1>2. EvidenceInv /\ [Evidence!Next]_Evidence!vars => EvidenceInv'
  BY EvidenceStep DEF Evidence!vars
<1>. QED
  BY <1>1, <1>2, PTL DEF Evidence!Spec

(* An issue that a night does not ask for again has been read as the issue *)
(* table knows it, comments and attachments, although it changes between   *)
(* the search and the fetch and the two tables are two writes              *)
(* (collect_governance_evidence): NotAskedMeansRead.                       *)
THEOREM NotAskedIsRead ==
  ASSUME EvidenceConstants
  PROVE  Evidence!Spec => []Evidence!NotAskedMeansRead
<1>1. EvidenceInv => Evidence!NotAskedMeansRead
  BY NotEligibleIsSeen DEF EvidenceInv, Evidence!NotAskedMeansRead, SeenKnown
<1>. QED
  BY <1>1, EvidenceInvariant, PTL

(* The night that ends with nothing pending has everything: every issue as *)
(* the table knows it and the checks of every commit GitHub still keeps.   *)
THEOREM OkHasAllEvidence ==
  ASSUME EvidenceConstants
  PROVE  Evidence!Spec => []Evidence!OkMeansAllEvidence
<1>1. EvidenceInv => Evidence!OkMeansAllEvidence
  BY DEF EvidenceInv, EvidencePending, AllSeen, SeenKnown, Evidence!OkMeansAllEvidence
<1>. QED
  BY <1>1, EvidenceInvariant, PTL

(* A check that has ended is never overwritten, whatever a night cut short *)
(* or a check run again does.                                              *)
THEOREM FinalChecksStay ==
  ASSUME EvidenceConstants
  PROVE  Evidence!Spec => [][Evidence!FinalStays]_Evidence!vars
<1>1. EvidenceInv /\ [Evidence!Next]_Evidence!vars => [Evidence!FinalStays]_Evidence!vars
  <2>. SUFFICES ASSUME EvidenceInv, Evidence!Next PROVE Evidence!FinalStays
    BY DEF Evidence!vars
  <2>1. CASE Evidence!WriteChecks
    <3>1. PICK checks \in CheckedRuns :
            /\ disk' = [known |-> disk.known, comments |-> disk.comments, attachments |-> disk.attachments, checks |-> checks]
            /\ \A c \in 1..MaxCommits : disk.checks[c] \in Evidence!Final => checks[c] = disk.checks[c]
      BY <2>1, EvidenceWritten
    <3>. QED
      BY <3>1 DEF Evidence!FinalStays, Evidence!Commits
  <2>2. CASE ~ Evidence!WriteChecks
    <3>1. disk'.checks = disk.checks
      <4>. USE DEF EvidenceInv
      <4>1. CASE Evidence!BeginNight \/ Evidence!WriteComments \/ Evidence!WriteAttachments
        BY <4>1, EvidenceParts DEF Evidence!BeginNight, Evidence!WriteComments, Evidence!WriteAttachments
      <4>2. CASE UNCHANGED disk
        BY <4>2
      <4>. QED
        BY <2>2, <4>1, <4>2 DEF Evidence!Next, Evidence!Night, Evidence!Fault, Evidence!ChooseIssues, Evidence!FetchIssue,
           Evidence!EndIssues, Evidence!ChooseChecks, Evidence!FetchCheck, Evidence!Score, Evidence!FailIssue,
           Evidence!FailCheck, Evidence!Abort, Evidence!Push, Evidence!UpdateIssue, Evidence!DeleteIssue, Evidence!CheckRuns
    <3>. QED
      BY <3>1 DEF Evidence!FinalStays
  <2>. QED
    BY <2>1, <2>2
<1>. QED
  BY <1>1, EvidenceInvariant, PTL DEF Evidence!Spec

-----------------------------------------------------------------------------
(* The mailing lists.                                                      *)

MailConstants == /\ NumLists \in Nat /\ MaxMonth \in Nat \ {0} /\ MaxMail \in Nat
                 /\ Caps \subseteq Nat /\ Configs \subseteq SUBSET (1..NumLists)

Archives == [1..NumLists -> [1..MaxMonth -> 0..MaxMail]]
MonthOfList == [1..NumLists -> 0..MaxMonth]

MailRuns == [pc : {"idle", "stats", "months", "messages", "threads", "watermark", "good"},
             asOf : 0..MaxMonth, list : 1..(NumLists + 1), plan : SUBSET (1..MaxMonth), fetched : SUBSET (1..MaxMonth),
             current : 0..MaxMonth, got : Archives, next : MonthOfList, remaining : Nat, seen : Archives]

MailWorlds == [now : 1..MaxMonth, mail : Archives, cap : Caps, config : Configs]

MailTypes ==
  /\ world \in MailWorlds
  /\ disk \in [stored : Archives, threads : Archives, marks : MonthOfList]
  /\ run \in MailRuns

(* Nothing is stored that was not sent, nor sent before its month; and a   *)
(* table that has been written holds what was fetched.                     *)
MailRows ==
  \A l \in 1..NumLists, m \in 1..MaxMonth :
    /\ disk.stored[l][m] <= world.mail[l][m] /\ disk.threads[l][m] <= world.mail[l][m]
    /\ run.got[l][m] <= world.mail[l][m] /\ run.seen[l][m] <= world.mail[l][m]
    /\ m > world.now => world.mail[l][m] = 0
    /\ run.pc \in {"threads", "watermark", "good"} => run.got[l][m] <= disk.stored[l][m]
    /\ run.pc \in {"watermark", "good"} => run.got[l][m] <= disk.threads[l][m]

(* A month behind a watermark, or behind the next one, is over and whole.  *)
MailBehind ==
  "late" \notin faults =>
    \A l \in 1..NumLists, m \in 1..MaxMonth :
      /\ m <= disk.marks[l] => /\ m < world.now
                               /\ disk.stored[l][m] = world.mail[l][m] /\ disk.threads[l][m] = world.mail[l][m]
      /\ m <= run.next[l] => m < world.now /\ (run.got[l][m] = world.mail[l][m] \/ m <= disk.marks[l])

(* The months planned leave none out before the last of them.              *)
MailPlanned ==
  /\ run.pc \in {"messages", "threads", "watermark", "good"} => run.list = NumLists + 1
  /\ \A l \in 1..NumLists : l \notin world.config \/ run.pc = "idle" => run.next[l] = 0
  /\ run.pc = "months" =>
       /\ run.list \in world.config /\ run.plan \subseteq run.fetched /\ run.current <= world.now
       /\ \A m \in run.fetched : m # run.current => m < run.current
       /\ "late" \notin faults =>
            \A m \in run.fetched \ {run.current} :
              /\ m \notin run.plan => run.got[run.list][m] = world.mail[run.list][m]
              /\ \A n \in 1..MaxMonth : n <= m =>
                   n <= disk.marks[run.list] \/ n \in run.fetched \/ world.mail[run.list][n] = 0

(* With nothing remaining, what was seen of a list is fetched or planned.  *)
MailSeen ==
  "late" \notin faults /\ run.pc # "idle" /\ run.remaining = 0 =>
    \A l \in world.config, m \in 1..MaxMonth :
      l < run.list \/ (run.pc = "months" /\ l = run.list) =>
        \/ run.seen[l][m] <= disk.stored[l][m] \/ run.seen[l][m] <= run.got[l][m]
        \/ run.pc = "months" /\ l = run.list /\ m \in run.plan

MailInv == MailTypes /\ MailRows /\ MailBehind /\ MailPlanned /\ MailSeen

(* The fields of the state, each with its range.                           *)
LEMMA MailParts ==
  ASSUME MailConstants, MailTypes
  PROVE  /\ run = [pc |-> run.pc, asOf |-> run.asOf, list |-> run.list, plan |-> run.plan, fetched |-> run.fetched,
                   current |-> run.current, got |-> run.got, next |-> run.next, remaining |-> run.remaining,
                   seen |-> run.seen]
         /\ disk = [stored |-> disk.stored, threads |-> disk.threads, marks |-> disk.marks]
         /\ world = [now |-> world.now, mail |-> world.mail, cap |-> world.cap, config |-> world.config]
         /\ run.asOf \in 0..MaxMonth /\ run.list \in 1..(NumLists + 1) /\ run.plan \in SUBSET (1..MaxMonth)
         /\ run.fetched \in SUBSET (1..MaxMonth) /\ run.current \in 0..MaxMonth /\ run.got \in Archives
         /\ run.next \in MonthOfList /\ run.remaining \in Nat /\ run.seen \in Archives
         /\ disk.stored \in Archives /\ disk.threads \in Archives /\ disk.marks \in MonthOfList
         /\ world.now \in 1..MaxMonth /\ world.mail \in Archives /\ world.cap \in Caps /\ world.config \in Configs
         /\ run.pc \in {"idle", "stats", "months", "messages", "threads", "watermark", "good"}
  BY DEF MailTypes, MailRuns, MailWorlds

LEMMA MailNumbers ==
  ASSUME MailConstants, MailTypes
  PROVE  /\ world.now \in Nat /\ run.list \in Nat /\ run.current \in Nat /\ world.cap \in Nat
         /\ world.config \subseteq 1..NumLists
         /\ \A m \in 1..MaxMonth : m \in Nat
         /\ \A l \in 1..NumLists : l \in Nat /\ disk.marks[l] \in Nat /\ run.next[l] \in Nat
         /\ \A l \in 1..NumLists, m \in 1..MaxMonth :
              /\ disk.stored[l][m] \in Nat /\ disk.threads[l][m] \in Nat /\ world.mail[l][m] \in Nat
              /\ run.got[l][m] \in Nat /\ run.seen[l][m] \in Nat
<1>1. NumLists \in Nat /\ MaxMonth \in Nat /\ MaxMail \in Nat
  BY DEF MailConstants
<1>2. world.now \in Nat /\ run.list \in Nat /\ run.current \in Nat
  BY <1>1, MailParts
<1>3. world.cap \in Nat /\ world.config \subseteq 1..NumLists
  BY MailParts DEF MailConstants
<1>4. \A f \in MonthOfList : \A l \in 1..NumLists : f[l] \in Nat
  BY <1>1 DEF MonthOfList
<1>5. \A a \in Archives : \A l \in 1..NumLists, m \in 1..MaxMonth : a[l][m] \in Nat
  BY <1>1 DEF Archives
<1>6. (\A m \in 1..MaxMonth : m \in Nat) /\ (\A l \in 1..NumLists : l \in Nat)
  BY <1>1
<1>7. \A l \in 1..NumLists : disk.marks[l] \in Nat /\ run.next[l] \in Nat
  BY <1>4, MailParts
<1>8. \A l \in 1..NumLists, m \in 1..MaxMonth :
        /\ disk.stored[l][m] \in Nat /\ disk.threads[l][m] \in Nat /\ world.mail[l][m] \in Nat
        /\ run.got[l][m] \in Nat /\ run.seen[l][m] \in Nat
  BY <1>5, MailParts
<1>. QED
  BY <1>2, <1>3, <1>6, <1>7, <1>8

LEMMA MailInit == MailConstants /\ Mail!Init => MailInv
<1>. SUFFICES ASSUME MailConstants, Mail!Init PROVE MailInv
  OBVIOUS
<1>. DEFINE empty == [l \in 1..NumLists |-> [m \in 1..MaxMonth |-> 0]]
            none == [l \in 1..NumLists |-> 0]
<1>1. empty \in Archives /\ none \in MonthOfList
  BY DEF MailConstants, Archives, MonthOfList
<1>2. /\ world \in [now : {1}, mail : {empty}, cap : Caps, config : Configs]
      /\ disk = [stored |-> empty, threads |-> empty, marks |-> none]
      /\ run = [pc |-> "idle", asOf |-> 0, list |-> 1, plan |-> {}, fetched |-> {}, current |-> 0, got |-> empty,
                next |-> none, remaining |-> 0, seen |-> empty]
  BY DEF Mail!Init, Mail!Idle, Mail!Empty, Mail!NoMarks, Mail!Lists, Mail!Months, Mail!None
<1>3. /\ \A l \in 1..NumLists : none[l] = 0
      /\ \A l \in 1..NumLists, m \in 1..MaxMonth : empty[l][m] = 0 /\ ~ (m <= 0)
  BY DEF MailConstants
<1>. HIDE DEF empty, none
<1>4. world.now = 1 /\ world.mail = empty
  BY <1>2
<1>5. 1 \in 1..MaxMonth /\ 0 \in 0..MaxMonth /\ 1 \in 1..(NumLists + 1)
  BY DEF MailConstants
<1>6. MailTypes
  BY <1>1, <1>2, <1>5 DEF MailTypes, MailRuns, MailWorlds
<1>7. MailRows
  BY <1>2, <1>3, <1>4 DEF MailRows
<1>8. MailBehind
  BY <1>2, <1>3, <1>4 DEF MailBehind
<1>9. MailPlanned /\ MailSeen
  BY <1>2, <1>3 DEF MailPlanned, MailSeen
<1>. QED
  BY <1>6, <1>7, <1>8, <1>9 DEF MailInv

-----------------------------------------------------------------------------
(* The newest and the oldest of some months.                               *)
LEMMA MailNewest ==
  ASSUME MailConstants, NEW T \in SUBSET (0..MaxMonth), T # {}
  PROVE  Mail!Max(T) \in T /\ \A x \in T : x <= Mail!Max(T)
<1>1. MaxMonth \in Nat
  BY DEF MailConstants
<1>2. \E m \in T : \A x \in T : x <= m
  <2>1. CASE T \ {0} = {}
    <3>1. T = {0}
      BY <2>1
    <3>2. 0 <= 0
      OBVIOUS
    <3>. QED
      BY <3>1, <3>2
  <2>2. CASE T \ {0} # {}
    <3>1. T \ {0} \in SUBSET (1..MaxMonth)
      BY <1>1
    <3>2. PICK m \in T \ {0} : \A x \in T \ {0} : x <= m
      BY <1>1, <2>2, <3>1, GreatestNumber
    <3>3. m \in Nat
      BY <1>1, <3>1
    <3>. QED
      BY <3>2, <3>3
  <2>. QED
    BY <2>1, <2>2
<1>3. \A x \in T : x \in Int
  BY <1>1
<1>4. \E m \in T : \A x \in T : m >= x
  BY <1>2, <1>3
<1>5. Mail!Max(T) \in T /\ \A x \in T : Mail!Max(T) >= x
  BY <1>4 DEF Mail!Max
<1>. QED
  BY <1>3, <1>5

LEMMA MailOldest ==
  ASSUME MailConstants, NEW T \in SUBSET (1..MaxMonth), T # {}
  PROVE  Mail!Min(T) \in T /\ \A x \in T : Mail!Min(T) <= x
<1>1. T \in SUBSET Nat
  BY DEF MailConstants
<1>2. \E m \in T : \A x \in T : m <= x
  BY <1>1, LeastNumber
<1>. QED
  BY <1>2 DEF Mail!Min

(* The months needed are not after the last active one, and leave no month *)
(* with a message out that is after the watermark.                         *)
LEMMA MailNeeded ==
  ASSUME MailConstants, MailTypes, NEW l \in 1..NumLists
  PROVE  LET needed == Mail!MonthsNeeded(l)
             current == Mail!LastMonth(l)
         IN  /\ needed \in SUBSET (1..MaxMonth) /\ current \in 0..MaxMonth
             /\ current # 0 => world.mail[l][current] > 0
             /\ needed # {} => current \in 1..MaxMonth
             /\ \A m \in needed : m <= current
             /\ \A m \in 1..MaxMonth : world.mail[l][m] > 0 /\ m > disk.marks[l] => m \in needed
<1>. DEFINE active == {m \in 1..MaxMonth : world.mail[l][m] > 0}
            needed == Mail!MonthsNeeded(l)
            current == Mail!LastMonth(l)
<1>1. MaxMonth \in Nat
  BY DEF MailConstants
<1>2. current = Mail!Max(active \cup {0})
  BY DEF Mail!LastMonth, Mail!Months, Mail!None
<1>3. needed = {m \in IF active = {} THEN {} ELSE Mail!Min(active)..Mail!Max(active) : m > disk.marks[l]}
  BY DEF Mail!MonthsNeeded, Mail!MonthRange, Mail!Months
<1>4. active \in SUBSET (1..MaxMonth) /\ active \in SUBSET (0..MaxMonth) /\ active \cup {0} \in SUBSET (0..MaxMonth)
  BY <1>1
<1>5. \A m \in active : world.mail[l][m] > 0
  OBVIOUS
<1>6. \A m \in 1..MaxMonth : world.mail[l][m] > 0 => m \in active
  OBVIOUS
<1>. HIDE DEF active, needed, current
<1>7. current \in active \cup {0} /\ \A x \in active \cup {0} : x <= current
  BY <1>2, <1>4, MailNewest
<1>8. CASE active = {}
  <2>1. needed = {}
    BY <1>3, <1>8
  <2>2. current = 0
    BY <1>7, <1>8
  <2>. QED
    BY <1>1, <1>6, <1>8, <2>1, <2>2 DEF needed, current
<1>9. CASE active # {}
  <2>1. /\ Mail!Max(active) \in active /\ \A x \in active : x <= Mail!Max(active)
        /\ Mail!Min(active) \in active /\ \A x \in active : Mail!Min(active) <= x
    BY <1>4, <1>9, MailNewest, MailOldest
  <2>2. Mail!Max(active) \in 1..MaxMonth /\ Mail!Min(active) \in 1..MaxMonth
    BY <1>4, <2>1
  <2>3. current \in Nat /\ Mail!Max(active) <= current
    <3>1. current \in 0..MaxMonth
      BY <1>4, <1>7
    <3>2. Mail!Max(active) \in active \cup {0}
      BY <2>1
    <3>3. Mail!Max(active) <= current
      BY <1>7, <3>2
    <3>. QED
      BY <1>1, <3>1, <3>3
  <2>4. needed \in SUBSET (1..MaxMonth) /\ \A m \in needed : m <= current
    <3>1. ASSUME NEW m \in needed
          PROVE  m \in 1..MaxMonth /\ m <= current
      <4>1. m \in Mail!Min(active)..Mail!Max(active)
        BY <1>3, <1>9
      <4>. QED
        BY <1>1, <2>2, <2>3, <4>1
    <3>. QED
      BY <3>1
  <2>5. \A m \in 1..MaxMonth : world.mail[l][m] > 0 /\ m > disk.marks[l] => m \in needed
    <3>1. ASSUME NEW m \in 1..MaxMonth, m \in active
          PROVE  m \in Mail!Min(active)..Mail!Max(active)
      BY <1>1, <2>1, <2>2, <3>1
    <3>. QED
      BY <1>3, <1>6, <1>9, <3>1
  <2>6. current \in 1..MaxMonth /\ current \in active
    <3>1. current # 0
      BY <1>1, <2>2, <2>3
    <3>. QED
      BY <1>4, <1>7, <3>1
  <2>. QED
    BY <1>1, <1>5, <2>4, <2>5, <2>6 DEF needed, current
<1>. QED
  BY <1>8, <1>9

LEMMA MailCounts ==
  ASSUME NEW S
  PROVE  Mail!Cardinality(S) = Cardinality(S)
  BY DEF Mail!Cardinality, Cardinality

(* Of the months selected before the current one no older one is left out. *)
LEMMA MailSelected ==
  ASSUME MailConstants, MailTypes, NEW needed \in SUBSET (1..MaxMonth), NEW current \in 0..MaxMonth,
         needed # {} => current \in 1..MaxMonth
  PROVE  LET fetch == Mail!SelectBackfillMonths(needed, current)
         IN  /\ fetch \in SUBSET (1..MaxMonth) /\ fetch \subseteq needed \cup {current}
             /\ \A m \in fetch : \A n \in needed : m # current /\ n # current /\ n <= m => n \in fetch
             /\ current \in needed => current \in fetch
<1>. DEFINE rest == needed \ {current}
            before(m) == {n \in rest : n < m}
            oldest == {m \in rest : Cardinality(before(m)) < world.cap - 1}
            fetch == Mail!SelectBackfillMonths(needed, current)
<1>1. fetch = IF Cardinality(needed) <= world.cap THEN needed ELSE oldest \cup {current}
  BY MailCounts DEF Mail!SelectBackfillMonths, Mail!Oldest
<1>2. CASE Cardinality(needed) <= world.cap
  <2>1. fetch = needed
    BY <1>1, <1>2
  <2>. HIDE DEF fetch
  <2>. QED
    BY <2>1 DEF fetch
<1>3. CASE ~ (Cardinality(needed) <= world.cap)
  <2>1. fetch = oldest \cup {current}
    BY <1>1, <1>3
  <2>2. needed # {}
    <3>1. Cardinality({}) = 0
      BY FS_EmptySet
    <3>2. world.cap \in Nat
      BY MailNumbers
    <3>. QED
      BY <1>3, <3>1, <3>2
  <2>3. IsFiniteSet(rest)
    <3>1. IsFiniteSet(1..MaxMonth)
      BY FS_Interval DEF MailConstants
    <3>. QED
      BY <3>1, FS_Subset
  <2>4. ASSUME NEW m \in oldest, NEW n \in rest, n <= m
        PROVE  n \in oldest
    <3>1. m \in Int /\ n \in Int /\ \A x \in rest : x \in Int
      BY MailNumbers
    <3>2. before(n) \subseteq before(m)
      <4>1. ASSUME NEW x \in rest, x < n
            PROVE  x < m
        <5>1. x \in Int
          BY <3>1
        <5>. QED
          BY <2>4, <3>1, <4>1, <5>1
      <4>. QED
        BY <4>1
    <3>3. IsFiniteSet(before(m))
      BY <2>3, FS_Subset
    <3>4. IsFiniteSet(before(n)) /\ Cardinality(before(n)) <= Cardinality(before(m))
      BY <3>2, <3>3, FS_Subset
    <3>5. Cardinality(before(n)) \in Nat /\ Cardinality(before(m)) \in Nat
      BY <3>3, <3>4, FS_CardinalityType
    <3>6. Cardinality(before(m)) < world.cap - 1 /\ world.cap \in Nat
      BY MailNumbers
    <3>. HIDE DEF before
    <3>7. Cardinality(before(n)) < world.cap - 1
      BY <3>4, <3>5, <3>6
    <3>. QED
      BY <3>7
  <2>5. oldest \subseteq rest
    OBVIOUS
  <2>. HIDE DEF oldest, fetch
  <2>6. fetch \in SUBSET (1..MaxMonth) /\ fetch \subseteq needed \cup {current}
    BY <2>1, <2>2, <2>5
  <2>. QED
    BY <2>1, <2>4, <2>5, <2>6 DEF fetch
<1>. QED
  BY <1>2, <1>3

-----------------------------------------------------------------------------
(* A table of messages holds numbers.                                      *)
LEMMA MailArchive ==
  ASSUME MailConstants, NEW a \in Archives, NEW l \in 1..NumLists, NEW m \in 1..MaxMonth
  PROVE  a[l][m] \in Nat
<1>1. a[l][m] \in 0..MaxMail /\ MaxMail \in Nat
  BY DEF Archives, MailConstants
<1>. QED
  BY <1>1

(* What goes on while a run collects: months end and messages come; the    *)
(* project file changes between runs.                                      *)
MailGoesOn ==
  /\ UNCHANGED <<faults, disk, run>>
  /\ world' \in MailWorlds
  /\ world'.config = world.config \/ run.pc = "idle"
  /\ world.now <= world'.now
  /\ \A l \in 1..NumLists, m \in 1..MaxMonth :
       /\ world.mail[l][m] <= world'.mail[l][m]
       /\ m > world'.now => world'.mail[l][m] = 0
       /\ "late" \notin faults /\ m < world.now => world'.mail[l][m] = world.mail[l][m]

LEMMA MailWorldActions ==
  ASSUME MailConstants, MailInv,
         Mail!NextMonth \/ Mail!Reconfigure \/ \E l \in Mail!Lists, m \in Mail!Months : Mail!Post(l, m)
  PROVE  MailGoesOn
<1>. USE DEF MailInv
<1>1. MaxMonth \in Nat /\ world.now \in Nat
  BY MailNumbers DEF MailConstants
<1>2. CASE Mail!NextMonth
  <2>1. /\ world' = [now |-> world.now + 1, mail |-> world.mail, cap |-> world.cap, config |-> world.config]
        /\ world.now < MaxMonth /\ UNCHANGED <<faults, disk, run>>
    BY <1>2, MailParts DEF Mail!NextMonth
  <2>2. world.now + 1 \in 1..MaxMonth
    BY <1>1, <2>1, MailParts
  <2>3. world' \in MailWorlds
    BY <2>1, <2>2, MailParts DEF MailWorlds
  <2>4. ASSUME NEW l \in 1..NumLists, NEW m \in 1..MaxMonth
        PROVE  /\ world.mail[l][m] <= world'.mail[l][m]
               /\ m > world'.now => world'.mail[l][m] = 0
    <3>1. m \in Nat /\ world.mail[l][m] \in Nat
      BY MailNumbers
    <3>2. m > world.now => world.mail[l][m] = 0
      BY DEF MailRows
    <3>. QED
      BY <1>1, <2>1, <3>1, <3>2
  <2>. QED
    BY <1>1, <2>1, <2>3, <2>4 DEF MailGoesOn
<1>3. CASE Mail!Reconfigure
  <2>1. PICK c \in Configs :
          world' = [now |-> world.now, mail |-> world.mail, cap |-> world.cap, config |-> c]
    BY <1>3, MailParts DEF Mail!Reconfigure
  <2>2. run.pc = "idle" /\ UNCHANGED <<faults, disk, run>>
    BY <1>3 DEF Mail!Reconfigure
  <2>3. world' \in MailWorlds
    BY <2>1, MailParts DEF MailWorlds
  <2>4. \A l \in 1..NumLists, m \in 1..MaxMonth : world.mail[l][m] <= world.mail[l][m]
    BY MailNumbers
  <2>5. \A l \in 1..NumLists, m \in 1..MaxMonth : m > world.now => world.mail[l][m] = 0
    BY DEF MailRows
  <2>. QED
    BY <1>1, <2>1, <2>2, <2>3, <2>4, <2>5 DEF MailGoesOn
<1>4. CASE \E l \in Mail!Lists, m \in Mail!Months : Mail!Post(l, m)
  <2>1. PICK l \in 1..NumLists, m \in 1..MaxMonth : Mail!Post(l, m)
    BY <1>4 DEF Mail!Lists, Mail!Months
  <2>. DEFINE mail == [world.mail EXCEPT ![l] = [world.mail[l] EXCEPT ![m] = world.mail[l][m] + 1]]
  <2>2. /\ world' = [world EXCEPT !.mail = mail]
        /\ UNCHANGED <<faults, disk, run>>
        /\ m = world.now \/ ("late" \in faults /\ m < world.now)
        /\ world.mail[l][m] < MaxMail
    BY <2>1 DEF Mail!Post
  <2>3. mail \in Archives
    <3>1. world.mail[l][m] + 1 \in 0..MaxMail
      BY <2>2, MailNumbers DEF MailConstants
    <3>2. world.mail[l] \in [1..MaxMonth -> 0..MaxMail] /\ world.mail \in Archives
      BY MailParts DEF Archives
    <3>. QED
      BY <3>1, <3>2 DEF Archives
  <2>4. \A k \in 1..NumLists, n \in 1..MaxMonth :
          mail[k][n] = IF k = l /\ n = m THEN world.mail[l][m] + 1 ELSE world.mail[k][n]
    BY MailParts DEF Archives
  <2>. HIDE DEF mail
  <2>5. world' = [now |-> world.now, mail |-> mail, cap |-> world.cap, config |-> world.config]
    BY <2>2, MailParts
  <2>6. world' \in MailWorlds
    BY <2>3, <2>5, MailParts DEF MailWorlds
  <2>7. ASSUME NEW k \in 1..NumLists, NEW n \in 1..MaxMonth
        PROVE  /\ world.mail[k][n] <= mail[k][n]
               /\ n > world.now => mail[k][n] = 0
               /\ "late" \notin faults /\ n < world.now => mail[k][n] = world.mail[k][n]
    <3>1. m \in Nat /\ n \in Nat /\ world.mail[k][n] \in Nat
      BY MailNumbers
    <3>2. n > world.now => world.mail[k][n] = 0
      BY DEF MailRows
    <3>. QED
      BY <1>1, <2>2, <2>4, <3>1, <3>2
  <2>. QED
    BY <1>1, <2>2, <2>5, <2>6, <2>7 DEF MailGoesOn
<1>. QED
  BY <1>2, <1>3, <1>4

LEMMA MailWorldStep ==
  ASSUME MailConstants, MailInv, MailGoesOn
  PROVE  MailInv'
<1>. USE DEF MailInv
<1>1. UNCHANGED <<faults, disk, run>> /\ world' \in MailWorlds /\ world.now <= world'.now
  BY DEF MailGoesOn
<1>2. world.now \in Nat /\ world'.now \in Nat /\ world'.mail \in Archives
  BY <1>1, MailNumbers DEF MailWorlds, MailConstants
<1>3. MailTypes'
  BY <1>1 DEF MailTypes
<1>4. MailRows'
  <2>1. ASSUME NEW l \in 1..NumLists, NEW m \in 1..MaxMonth
        PROVE  /\ disk.stored[l][m] <= world'.mail[l][m] /\ disk.threads[l][m] <= world'.mail[l][m]
               /\ run.got[l][m] <= world'.mail[l][m] /\ run.seen[l][m] <= world'.mail[l][m]
    <3>1. world.mail[l][m] <= world'.mail[l][m] /\ world'.mail[l][m] \in Nat
      BY <1>2, MailArchive DEF MailGoesOn
    <3>2. /\ disk.stored[l][m] \in Nat /\ disk.threads[l][m] \in Nat /\ world.mail[l][m] \in Nat
          /\ run.got[l][m] \in Nat /\ run.seen[l][m] \in Nat
      BY MailNumbers
    <3>. QED
      BY <3>1, <3>2 DEF MailRows
  <2>2. \A l \in 1..NumLists, m \in 1..MaxMonth : m > world'.now => world'.mail[l][m] = 0
    BY DEF MailGoesOn
  <2>. QED
    BY <1>1, <2>1, <2>2 DEF MailRows
<1>5. MailBehind'
  <2>1. ASSUME NEW l \in 1..NumLists, NEW m \in 1..MaxMonth, "late" \notin faults, m < world.now
        PROVE  m < world'.now /\ world'.mail[l][m] = world.mail[l][m]
    <3>1. m \in Nat
      BY MailNumbers
    <3>. QED
      BY <1>1, <1>2, <2>1, <3>1 DEF MailGoesOn
  <2>. QED
    BY <1>1, <2>1 DEF MailBehind
<1>6. MailPlanned'
  <2>1. CASE run.pc # "months"
    BY <1>1, <2>1 DEF MailPlanned, MailGoesOn
  <2>2. CASE run.pc = "months"
    <3>1. world'.config = world.config /\ run.list \in 1..NumLists /\ run.list \in world.config
      BY <2>2, MailNumbers DEF MailGoesOn, MailPlanned
    <3>2. run.current <= world.now /\ run.current \in Nat
      BY <2>2, MailNumbers DEF MailPlanned
    <3>3. run.current <= world'.now
      BY <1>1, <1>2, <3>2
    <3>4. ASSUME NEW m \in run.fetched, m # run.current, "late" \notin faults, NEW n \in 1..MaxMonth, n <= m
          PROVE  world'.mail[run.list][n] = world.mail[run.list][n]
      <4>1. m \in 1..MaxMonth /\ m < run.current
        BY <2>2, <3>4, MailParts DEF MailPlanned
      <4>2. m \in Nat /\ n \in Nat
        BY <4>1, MailNumbers
      <4>3. n < world.now
        BY <1>2, <3>2, <3>4, <4>1, <4>2
      <4>. QED
        BY <3>1, <3>4, <4>3 DEF MailGoesOn
    <3>5. \A m \in run.fetched : m \in 1..MaxMonth /\ m <= m
      BY MailParts, MailNumbers
    <3>. QED
      BY <1>1, <2>2, <3>1, <3>3, <3>4, <3>5 DEF MailPlanned
  <2>. QED
    BY <2>1, <2>2
<1>7. MailSeen'
  BY <1>1 DEF MailSeen, MailGoesOn
<1>. QED
  BY <1>3, <1>4, <1>5, <1>6, <1>7

-----------------------------------------------------------------------------
(* A run that starts, and one that is over.                                *)
LEMMA MailResetStep ==
  ASSUME MailConstants, MailInv, Mail!BeginRun \/ Mail!EndRun \/ Mail!FailRequest \/ Mail!Kill
  PROVE  MailInv'
<1>. USE DEF MailInv
<1>. DEFINE empty == [l \in 1..NumLists |-> [m \in 1..MaxMonth |-> 0]]
            none == [l \in 1..NumLists |-> 0]
<1>1. empty \in Archives /\ none \in MonthOfList
  BY DEF MailConstants, Archives, MonthOfList
<1>2. UNCHANGED <<faults, world, disk>>
  BY DEF Mail!BeginRun, Mail!EndRun, Mail!FailRequest, Mail!Kill
<1>3. PICK pc \in {"idle", "stats"}, asOf \in 0..MaxMonth :
        run' = [pc |-> pc, asOf |-> asOf, list |-> 1, plan |-> {}, fetched |-> {}, current |-> 0, got |-> empty,
                next |-> none, remaining |-> 0, seen |-> empty]
  <2>1. CASE Mail!BeginRun
    <3>1. run' = [pc |-> "stats", asOf |-> world.now, list |-> 1, plan |-> {}, fetched |-> {}, current |-> 0, got |-> empty,
                  next |-> none, remaining |-> 0, seen |-> empty]
      BY <2>1 DEF Mail!BeginRun, Mail!Idle, Mail!Empty, Mail!NoMarks, Mail!Lists, Mail!Months, Mail!None
    <3>2. world.now \in 0..MaxMonth
      BY MailParts DEF MailConstants
    <3>. QED
      BY <3>1, <3>2
  <2>2. CASE Mail!EndRun \/ Mail!FailRequest \/ Mail!Kill
    <3>1. run' = [pc |-> "idle", asOf |-> 0, list |-> 1, plan |-> {}, fetched |-> {}, current |-> 0, got |-> empty,
                  next |-> none, remaining |-> 0, seen |-> empty]
      BY <2>2 DEF Mail!EndRun, Mail!FailRequest, Mail!Kill, Mail!Idle, Mail!Empty, Mail!NoMarks, Mail!Lists, Mail!Months,
         Mail!None
    <3>2. 0 \in 0..MaxMonth
      BY DEF MailConstants
    <3>. QED
      BY <3>1, <3>2
  <2>. QED
    BY <2>1, <2>2
<1>4. /\ \A l \in 1..NumLists : none[l] = 0
      /\ \A l \in 1..NumLists, m \in 1..MaxMonth : empty[l][m] = 0 /\ ~ (m <= 0)
      /\ \A l \in 1..NumLists : ~ (l < 1)
      /\ 1 \in 1..(NumLists + 1) /\ 0 \in 0..MaxMonth
  BY DEF MailConstants
<1>. HIDE DEF empty, none
<1>5. MailTypes'
  <2>1. run' \in MailRuns
    BY <1>1, <1>3, <1>4 DEF MailRuns
  <2>. QED
    BY <1>2, <2>1 DEF MailTypes
<1>6. MailRows'
  <2>1. \A l \in 1..NumLists, m \in 1..MaxMonth : world.mail[l][m] \in Nat
    BY MailNumbers
  <2>. QED
    BY <1>2, <1>3, <1>4, <2>1 DEF MailRows
<1>7. MailBehind'
  BY <1>2, <1>3, <1>4 DEF MailBehind
<1>8. MailPlanned'
  BY <1>2, <1>3, <1>4 DEF MailPlanned
<1>9. MailSeen'
  <2>1. world.config \subseteq 1..NumLists
    BY MailNumbers
  <2>. QED
    BY <1>2, <1>3, <1>4, <2>1 DEF MailSeen
<1>. QED
  BY <1>5, <1>6, <1>7, <1>8, <1>9

(* A list passed over, and the last one done.                              *)
LEMMA MailPassStep ==
  ASSUME MailConstants, MailInv, Mail!SkipList \/ Mail!EndCollect
  PROVE  MailInv'
<1>. USE DEF MailInv
<1>1. run.pc = "stats" /\ UNCHANGED <<faults, world, disk>>
  BY DEF Mail!SkipList, Mail!EndCollect, Mail!Step
<1>2. NumLists \in Nat /\ run.list \in Nat /\ run.list \in 1..(NumLists + 1) /\ world.config \subseteq 1..NumLists
  BY MailParts, MailNumbers DEF MailConstants
<1>3. PICK pc \in {"stats", "messages"}, list \in 1..(NumLists + 1) :
        /\ run' = [pc |-> pc, asOf |-> run.asOf, list |-> list, plan |-> run.plan, fetched |-> run.fetched,
                   current |-> run.current, got |-> run.got, next |-> run.next, remaining |-> run.remaining,
                   seen |-> run.seen]
        /\ pc = "messages" => list = NumLists + 1
        /\ \A l \in world.config : l < list => l < run.list
  <2>1. CASE Mail!SkipList
    <3>1. /\ run' = [pc |-> "stats", asOf |-> run.asOf, list |-> run.list + 1, plan |-> run.plan, fetched |-> run.fetched,
                     current |-> run.current, got |-> run.got, next |-> run.next, remaining |-> run.remaining,
                     seen |-> run.seen]
          /\ run.list <= NumLists /\ run.list \notin world.config
      BY <1>1, <2>1, MailParts DEF Mail!SkipList
    <3>2. run.list + 1 \in 1..(NumLists + 1)
      BY <1>2, <3>1
    <3>3. \A l \in world.config : l < run.list + 1 => l < run.list
      BY <1>2, <3>1
    <3>. QED
      BY <3>1, <3>2, <3>3
  <2>2. CASE Mail!EndCollect
    <3>1. /\ run' = [pc |-> "messages", asOf |-> run.asOf, list |-> run.list, plan |-> run.plan, fetched |-> run.fetched,
                     current |-> run.current, got |-> run.got, next |-> run.next, remaining |-> run.remaining,
                     seen |-> run.seen]
          /\ run.list = NumLists + 1
      BY <1>1, <2>2, MailParts DEF Mail!EndCollect, Mail!Step
    <3>. QED
      BY <1>2, <3>1
  <2>. QED
    BY <2>1, <2>2
<1>4. MailTypes'
  <2>1. run' \in MailRuns
    BY <1>3, MailParts DEF MailRuns
  <2>. QED
    BY <1>1, <2>1 DEF MailTypes
<1>5. MailRows' /\ MailBehind'
  BY <1>1, <1>3 DEF MailRows, MailBehind
<1>6. MailPlanned'
  BY <1>1, <1>3 DEF MailPlanned
<1>7. MailSeen'
  BY <1>1, <1>3 DEF MailSeen
<1>. QED
  BY <1>4, <1>5, <1>6, <1>7

(* The months of a list are planned from what is behind its watermark.     *)
LEMMA MailFetchStats ==
  ASSUME MailConstants, MailInv, Mail!FetchStats
  PROVE  MailInv'
<1>. USE DEF MailInv
<1>. DEFINE l == run.list
            needed == Mail!MonthsNeeded(l)
            current == Mail!LastMonth(l)
            fetch == Mail!SelectBackfillMonths(needed, current)
            left == needed \ (fetch \cup {current})
            next == [run.next EXCEPT ![l] = disk.marks[l]]
            seen == [run.seen EXCEPT ![l] = world.mail[l]]
<1>1. /\ run.pc = "stats" /\ l \in world.config /\ UNCHANGED <<faults, world, disk>>
      /\ run' = [run EXCEPT !.pc = "months", !.plan = fetch, !.fetched = fetch, !.current = current,
                            !.remaining = @ + Cardinality(left), !.seen = seen, !.next = next]
  BY MailCounts DEF Mail!FetchStats
<1>2. l \in 1..NumLists
  BY <1>1, MailNumbers
<1>3. /\ needed \in SUBSET (1..MaxMonth) /\ current \in 0..MaxMonth
      /\ current # 0 => world.mail[l][current] > 0
      /\ needed # {} => current \in 1..MaxMonth
      /\ \A m \in needed : m <= current
      /\ \A m \in 1..MaxMonth : world.mail[l][m] > 0 /\ m > disk.marks[l] => m \in needed
  BY <1>2, MailNeeded
<1>. HIDE DEF needed, current
<1>4. /\ fetch \in SUBSET (1..MaxMonth) /\ fetch \subseteq needed \cup {current}
      /\ \A m \in fetch : \A n \in needed : m # current /\ n # current /\ n <= m => n \in fetch
      /\ current \in needed => current \in fetch
  BY <1>3, MailSelected
<1>5. IsFiniteSet(left) /\ Cardinality(left) \in Nat /\ (Cardinality(left) = 0 => left = {})
  <2>1. IsFiniteSet(1..MaxMonth)
    BY FS_Interval DEF MailConstants
  <2>2. left \subseteq 1..MaxMonth
    BY <1>3
  <2>. HIDE DEF left
  <2>. QED
    BY <2>1, <2>2, FS_Subset, FS_CardinalityType, FS_EmptySet
<1>6. left = {} => needed \subseteq fetch
  BY <1>4
<1>. HIDE DEF fetch, left
<1>7. next \in MonthOfList /\ \A k \in 1..NumLists : next[k] = IF k = l THEN disk.marks[l] ELSE run.next[k]
  BY <1>2, MailParts DEF MonthOfList
<1>8. seen \in Archives /\ \A k \in 1..NumLists : seen[k] = IF k = l THEN world.mail[l] ELSE run.seen[k]
  BY <1>2, MailParts DEF Archives
<1>. HIDE DEF next, seen
<1>9. run' = [pc |-> "months", asOf |-> run.asOf, list |-> l, plan |-> fetch, fetched |-> fetch, current |-> current,
              got |-> run.got, next |-> next, remaining |-> run.remaining + Cardinality(left), seen |-> seen]
  BY <1>1, MailParts
<1>10. MailTypes'
  <2>1. run.remaining + Cardinality(left) \in Nat
    BY <1>5, MailParts
  <2>2. run' \in MailRuns
    BY <1>3, <1>4, <1>7, <1>8, <1>9, <2>1, MailParts DEF MailRuns
  <2>. QED
    BY <1>1, <2>2 DEF MailTypes
<1>11. MailRows'
  <2>1. \A k \in 1..NumLists, m \in 1..MaxMonth : seen[k][m] <= world.mail[k][m]
    BY <1>8, MailNumbers DEF MailRows
  <2>. QED
    BY <1>1, <1>9, <2>1 DEF MailRows
<1>12. MailBehind'
  BY <1>1, <1>7, <1>9 DEF MailBehind
<1>13. MailPlanned'
  <2>1. current <= world.now
    <3>1. world.now \in Nat /\ current \in Nat
      BY <1>3, MailNumbers DEF MailConstants
    <3>2. current # 0 => ~ (current > world.now)
      <4>1. SUFFICES ASSUME current # 0, current > world.now PROVE FALSE
        OBVIOUS
      <4>2. current \in 1..MaxMonth
        BY <1>3, <3>1, <4>1
      <4>3. world.mail[l][current] = 0
        BY <1>2, <4>1, <4>2 DEF MailRows
      <4>. QED
        BY <1>3, <4>1, <4>3
    <3>. QED
      BY <3>1, <3>2
  <2>2. ASSUME NEW m \in fetch, m # current
        PROVE  m \in needed /\ m < current
    <3>1. m \in needed /\ m <= current
      BY <1>3, <1>4, <2>2
    <3>2. m \in Nat /\ current \in Nat
      BY <1>3, <3>1, MailNumbers DEF MailConstants
    <3>. QED
      BY <2>2, <3>1, <3>2
  <2>3. ASSUME NEW m \in fetch, m # current, NEW n \in 1..MaxMonth, n <= m
        PROVE  n <= disk.marks[l] \/ n \in fetch \/ world.mail[l][n] = 0
    <3>1. m \in Nat /\ n \in Nat /\ current \in Nat /\ disk.marks[l] \in Nat /\ world.mail[l][n] \in Nat
      BY <1>2, <1>3, <1>4, MailNumbers DEF MailConstants
    <3>2. m < current /\ n # current
      BY <2>2, <2>3, <3>1
    <3>3. SUFFICES ASSUME n > disk.marks[l], world.mail[l][n] > 0 PROVE n \in fetch
      BY <3>1
    <3>4. n \in needed
      BY <1>3, <3>3
    <3>. QED
      BY <1>4, <2>3, <3>2, <3>4
  <2>4. \A k \in 1..NumLists : k \notin world.config => next[k] = 0
    BY <1>1, <1>7 DEF MailPlanned
  <2>. QED
    BY <1>1, <1>9, <2>1, <2>2, <2>3, <2>4 DEF MailPlanned
<1>14. MailSeen'
  <2>1. SUFFICES ASSUME "late" \notin faults, run.remaining + Cardinality(left) = 0,
                        NEW k \in world.config, NEW m \in 1..MaxMonth, k < l \/ k = l
                 PROVE  \/ seen[k][m] <= disk.stored[k][m] \/ seen[k][m] <= run.got[k][m]
                        \/ k = l /\ m \in fetch
    BY <1>1, <1>9 DEF MailSeen
  <2>2. run.remaining = 0 /\ left = {}
    BY <1>5, <2>1, MailParts
  <2>3. k \in 1..NumLists /\ k \in Nat /\ l \in Nat
    BY <1>2, MailNumbers
  <2>4. CASE k < l
    <3>1. seen[k] = run.seen[k]
      BY <1>8, <2>3, <2>4
    <3>. QED
      BY <1>1, <2>1, <2>2, <2>4, <3>1 DEF MailSeen
  <2>5. CASE k = l
    <3>1. seen[k][m] = world.mail[l][m] /\ world.mail[l][m] \in Nat /\ disk.marks[l] \in Nat /\ m \in Nat
          /\ disk.stored[l][m] \in Nat
      BY <1>2, <1>8, <2>5, MailNumbers
    <3>2. CASE m <= disk.marks[l]
      BY <1>2, <2>1, <2>5, <3>1, <3>2 DEF MailBehind
    <3>3. CASE world.mail[l][m] = 0
      BY <2>5, <3>1, <3>3
    <3>4. CASE m > disk.marks[l] /\ world.mail[l][m] > 0
      BY <1>3, <1>6, <2>2, <2>5, <3>4
    <3>. QED
      BY <3>1, <3>2, <3>3, <3>4
  <2>. QED
    BY <2>1, <2>4, <2>5
<1>. QED
  BY <1>10, <1>11, <1>12, <1>13, <1>14

LEMMA MailFetchMonth ==
  ASSUME MailConstants, MailInv, Mail!FetchMonth
  PROVE  MailInv'
<1>. USE DEF MailInv
<1>. DEFINE l == run.list
            m == Mail!Min(run.plan)
            got == [run.got EXCEPT ![l] = [run.got[l] EXCEPT ![m] = world.mail[l][m]]]
<1>1. /\ run.pc = "months" /\ run.plan # {} /\ UNCHANGED <<faults, world, disk>>
      /\ run' = [run EXCEPT !.got = got, !.plan = run.plan \ {m}]
  BY DEF Mail!FetchMonth
<1>2. m \in run.plan /\ m \in 1..MaxMonth
  BY <1>1, MailOldest, MailParts
<1>. HIDE DEF m
<1>3. l \in 1..NumLists /\ l \in world.config
  BY <1>1, MailNumbers DEF MailPlanned
<1>4. got \in Archives
  <2>1. world.mail[l][m] \in 0..MaxMail /\ run.got[l] \in [1..MaxMonth -> 0..MaxMail] /\ run.got \in Archives
    <3>1. world.mail \in Archives /\ run.got \in Archives
      BY MailParts
    <3>2. \A a \in Archives : a[l] \in [1..MaxMonth -> 0..MaxMail]
      BY <1>3 DEF Archives
    <3>3. world.mail[l] \in [1..MaxMonth -> 0..MaxMail] /\ run.got[l] \in [1..MaxMonth -> 0..MaxMail]
      BY <3>1, <3>2
    <3>. QED
      BY <1>2, <3>1, <3>3
  <2>2. [run.got[l] EXCEPT ![m] = world.mail[l][m]] \in [1..MaxMonth -> 0..MaxMail]
    BY <1>2, <2>1
  <2>. QED
    BY <1>3, <2>1, <2>2 DEF Archives
<1>5. \A k \in 1..NumLists, n \in 1..MaxMonth :
        got[k][n] = IF k = l /\ n = m THEN world.mail[l][m] ELSE run.got[k][n]
  <2>1. run.got \in Archives
    BY MailParts
  <2>. QED
    BY <1>2, <1>3, <2>1 DEF Archives
<1>. HIDE DEF got
<1>6. run' = [pc |-> "months", asOf |-> run.asOf, list |-> l, plan |-> run.plan \ {m}, fetched |-> run.fetched,
              current |-> run.current, got |-> got, next |-> run.next, remaining |-> run.remaining, seen |-> run.seen]
  BY <1>1, MailParts
<1>7. MailTypes'
  <2>1. run' \in MailRuns
    BY <1>4, <1>6, MailParts DEF MailRuns
  <2>. QED
    BY <1>1, <2>1 DEF MailTypes
<1>8. MailRows'
  <2>1. \A k \in 1..NumLists, n \in 1..MaxMonth : got[k][n] <= world.mail[k][n]
    BY <1>5, MailNumbers DEF MailRows
  <2>. QED
    BY <1>1, <1>6, <2>1 DEF MailRows
<1>9. MailBehind'
  BY <1>1, <1>5, <1>6 DEF MailBehind
<1>10. MailPlanned'
  <2>1. ASSUME "late" \notin faults, NEW n \in run.fetched \ {run.current}, n \notin run.plan \ {m}
        PROVE  got[l][n] = world.mail[l][n]
    <3>1. n \in 1..MaxMonth
      BY MailParts
    <3>2. CASE n = m
      BY <1>3, <1>5, <3>1, <3>2
    <3>3. CASE n # m
      BY <1>1, <1>3, <1>5, <2>1, <3>1, <3>3 DEF MailPlanned
    <3>. QED
      BY <3>2, <3>3
  <2>. QED
    BY <1>1, <1>6, <2>1 DEF MailPlanned
<1>11. MailSeen'
  <2>1. SUFFICES ASSUME "late" \notin faults, run.remaining = 0,
                        NEW k \in world.config, NEW n \in 1..MaxMonth, k < l \/ k = l
                 PROVE  \/ run.seen[k][n] <= disk.stored[k][n] \/ run.seen[k][n] <= got[k][n]
                        \/ k = l /\ n \in run.plan \ {m}
    BY <1>1, <1>6 DEF MailSeen
  <2>2. k \in 1..NumLists
    BY MailNumbers
  <2>3. CASE k = l /\ n = m
    BY <1>2, <1>5, <2>2, <2>3 DEF MailRows
  <2>4. CASE ~ (k = l /\ n = m)
    BY <1>1, <1>5, <2>1, <2>2, <2>4 DEF MailSeen
  <2>. QED
    BY <2>3, <2>4
<1>. QED
  BY <1>7, <1>8, <1>9, <1>10, <1>11

LEMMA MailEndList ==
  ASSUME MailConstants, MailInv, Mail!EndList
  PROVE  MailInv'
<1>. USE DEF MailInv
<1>. DEFINE l == run.list
            done == (run.fetched \ {run.current}) \cup {run.next[l]}
            mark == Mail!Max(done)
            next == [run.next EXCEPT ![l] = mark]
<1>1. /\ run.pc = "months" /\ run.plan = {} /\ UNCHANGED <<faults, world, disk>>
      /\ run' = [run EXCEPT !.pc = "stats", !.list = @ + 1, !.next = next]
  BY DEF Mail!EndList, Mail!NextWatermark
<1>2. l \in 1..NumLists /\ l \in world.config /\ l \in Nat
  BY <1>1, MailNumbers DEF MailPlanned
<1>3. mark \in done /\ \A x \in done : x <= mark
  <2>1. done \in SUBSET (0..MaxMonth) /\ done # {}
    <3>1. run.next[l] \in 0..MaxMonth
      BY <1>2, MailParts DEF MonthOfList
    <3>2. run.fetched \in SUBSET (1..MaxMonth) /\ MaxMonth \in Nat
      BY MailParts DEF MailConstants
    <3>. QED
      BY <3>1, <3>2
  <2>. HIDE DEF done
  <2>. QED
    BY <2>1, MailNewest
<1>4. mark \in 0..MaxMonth
  <2>1. run.next[l] \in 0..MaxMonth
    BY <1>2, MailParts DEF MonthOfList
  <2>2. run.fetched \in SUBSET (1..MaxMonth) /\ MaxMonth \in Nat
    BY MailParts DEF MailConstants
  <2>3. mark = run.next[l] \/ mark \in run.fetched
    BY <1>3
  <2>. HIDE DEF mark
  <2>. QED
    BY <2>1, <2>2, <2>3
<1>5. mark = run.next[l] \/ mark \in run.fetched \ {run.current}
  BY <1>3
<1>. HIDE DEF mark
<1>6. next \in MonthOfList /\ \A k \in 1..NumLists : next[k] = IF k = l THEN mark ELSE run.next[k]
  BY <1>2, <1>4, MailParts DEF MonthOfList
<1>. HIDE DEF next
<1>7. run' = [pc |-> "stats", asOf |-> run.asOf, list |-> l + 1, plan |-> {}, fetched |-> run.fetched,
              current |-> run.current, got |-> run.got, next |-> next, remaining |-> run.remaining, seen |-> run.seen]
  BY <1>1, MailParts
<1>8. MailTypes'
  <2>1. l + 1 \in 1..(NumLists + 1)
    BY <1>2 DEF MailConstants
  <2>2. run' \in MailRuns
    BY <1>6, <1>7, <2>1, MailParts DEF MailRuns
  <2>. QED
    BY <1>1, <2>2 DEF MailTypes
<1>9. MailRows'
  BY <1>1, <1>7 DEF MailRows
<1>10. MailBehind'
  <2>1. ASSUME "late" \notin faults, NEW n \in 1..MaxMonth, n <= mark
        PROVE  n < world.now /\ (run.got[l][n] = world.mail[l][n] \/ n <= disk.marks[l])
    <3>1. CASE mark = run.next[l]
      BY <1>2, <2>1, <3>1 DEF MailBehind
    <3>2. CASE mark \in run.fetched \ {run.current}
      <4>1. mark < run.current /\ run.current <= world.now
        BY <1>1, <3>2 DEF MailPlanned
      <4>2. mark \in Nat /\ n \in Nat /\ run.current \in Nat /\ world.now \in Nat
        BY <1>4, MailNumbers DEF MailConstants
      <4>3. n < world.now /\ n # run.current
        BY <2>1, <4>1, <4>2
      <4>4. n <= disk.marks[l] \/ n \in run.fetched \/ world.mail[l][n] = 0
        BY <1>1, <2>1, <3>2 DEF MailPlanned
      <4>5. n \in run.fetched => run.got[l][n] = world.mail[l][n]
        BY <1>1, <2>1, <4>3 DEF MailPlanned
      <4>6. world.mail[l][n] = 0 => run.got[l][n] = 0
        BY <1>2, MailNumbers DEF MailRows
      <4>. QED
        BY <4>3, <4>4, <4>5, <4>6
    <3>. QED
      BY <1>5, <3>1, <3>2
  <2>. QED
    BY <1>1, <1>6, <1>7, <2>1 DEF MailBehind
<1>11. MailPlanned'
  BY <1>1, <1>2, <1>6, <1>7 DEF MailPlanned
<1>12. MailSeen'
  <2>1. \A k \in world.config : k < l + 1 => k < l \/ k = l
    BY <1>2, MailNumbers
  <2>. QED
    BY <1>1, <1>7, <2>1 DEF MailSeen
<1>. QED
  BY <1>8, <1>9, <1>10, <1>11, <1>12

-----------------------------------------------------------------------------
(* Readers have the more of what two runs have written of a month.         *)
LEMMA MailLater ==
  ASSUME MailConstants, NEW rows \in Archives, NEW more \in Archives
  PROVE  LET later == Mail!Later(rows, more)
         IN  /\ later \in Archives
             /\ \A l \in 1..NumLists, m \in 1..MaxMonth :
                  /\ later[l][m] \in {rows[l][m], more[l][m]}
                  /\ rows[l][m] <= later[l][m] /\ more[l][m] <= later[l][m]
<1>. DEFINE later == Mail!Later(rows, more)
<1>1. /\ later = [l \in 1..NumLists |-> later[l]]
      /\ \A l \in 1..NumLists : later[l] = [m \in 1..MaxMonth |-> Mail!Max({rows[l][m], more[l][m]})]
  BY DEF Mail!Later, Mail!Lists, Mail!Months
<1>. HIDE DEF later
<1>2. ASSUME NEW l \in 1..NumLists, NEW m \in 1..MaxMonth
      PROVE  /\ later[l][m] \in {rows[l][m], more[l][m]}
             /\ rows[l][m] <= later[l][m] /\ more[l][m] <= later[l][m]
             /\ later[l][m] \in 0..MaxMail
  <2>. DEFINE a == rows[l][m]
              b == more[l][m]
  <2>1. a \in 0..MaxMail /\ b \in 0..MaxMail /\ MaxMail \in Nat
    BY DEF Archives, MailConstants
  <2>2. later[l][m] = Mail!Max({a, b})
    BY <1>1
  <2>. HIDE DEF a, b
  <2>3. \E x \in {a, b} : \A y \in {a, b} : x >= y
    BY <2>1
  <2>4. Mail!Max({a, b}) \in {a, b} /\ \A y \in {a, b} : Mail!Max({a, b}) >= y
    BY <2>3 DEF Mail!Max
  <2>5. /\ later[l][m] \in {a, b} /\ a <= later[l][m] /\ b <= later[l][m] /\ later[l][m] \in 0..MaxMail
    BY <2>1, <2>2, <2>4
  <2>. QED
    BY <2>5 DEF a, b
<1>3. later \in Archives
  <2>1. ASSUME NEW l \in 1..NumLists
        PROVE  later[l] \in [1..MaxMonth -> 0..MaxMail]
    BY <1>1, <1>2
  <2>. QED
    BY <1>1, <2>1 DEF Archives
<1>. QED
  BY <1>2, <1>3 DEF later

LEMMA MailWriteMessages ==
  ASSUME MailConstants, MailInv, Mail!WriteMessages
  PROVE  MailInv'
<1>. USE DEF MailInv
<1>. DEFINE rows == Mail!Later(disk.stored, run.got)
<1>1. /\ run.pc = "messages" /\ UNCHANGED <<faults, world>>
      /\ run' = [pc |-> "threads", asOf |-> run.asOf, list |-> run.list, plan |-> run.plan, fetched |-> run.fetched,
                 current |-> run.current, got |-> run.got, next |-> run.next, remaining |-> run.remaining, seen |-> run.seen]
  BY MailParts DEF Mail!WriteMessages, Mail!Step
<1>2. disk' = [stored |-> rows, threads |-> disk.threads, marks |-> disk.marks]
  BY MailParts DEF Mail!WriteMessages
<1>3. /\ rows \in Archives
      /\ \A l \in 1..NumLists, m \in 1..MaxMonth :
           /\ rows[l][m] \in {disk.stored[l][m], run.got[l][m]}
           /\ disk.stored[l][m] <= rows[l][m] /\ run.got[l][m] <= rows[l][m]
  BY MailParts, MailLater
<1>. HIDE DEF rows
<1>4. MailTypes'
  <2>1. run' \in MailRuns
    BY <1>1, MailParts DEF MailRuns
  <2>. QED
    BY <1>1, <1>2, <1>3, <2>1, MailParts DEF MailTypes
<1>5. MailRows'
  <2>1. \A l \in 1..NumLists, m \in 1..MaxMonth : rows[l][m] <= world.mail[l][m]
    BY <1>3 DEF MailRows
  <2>. QED
    BY <1>1, <1>2, <1>3, <2>1 DEF MailRows
<1>6. MailBehind'
  <2>1. ASSUME "late" \notin faults, NEW l \in 1..NumLists, NEW m \in 1..MaxMonth, m <= disk.marks[l]
        PROVE  rows[l][m] = world.mail[l][m]
    <3>1. disk.stored[l][m] = world.mail[l][m] /\ run.got[l][m] <= world.mail[l][m]
      BY <2>1 DEF MailBehind, MailRows
    <3>2. world.mail[l][m] \in Nat /\ run.got[l][m] \in Nat
      BY MailNumbers
    <3>3. rows[l][m] \in {disk.stored[l][m], run.got[l][m]} /\ disk.stored[l][m] <= rows[l][m]
      BY <1>3
    <3>. QED
      BY <3>1, <3>2, <3>3
  <2>. QED
    BY <1>1, <1>2, <2>1 DEF MailBehind
<1>7. MailPlanned'
  BY <1>1 DEF MailPlanned
<1>8. MailSeen'
  <2>1. ASSUME NEW l \in world.config, NEW m \in 1..MaxMonth,
               run.seen[l][m] <= disk.stored[l][m] \/ run.seen[l][m] <= run.got[l][m]
        PROVE  run.seen[l][m] <= rows[l][m]
    <3>1. l \in 1..NumLists
      BY MailNumbers
    <3>2. run.seen[l][m] \in Nat /\ disk.stored[l][m] \in Nat /\ run.got[l][m] \in Nat
      BY <3>1, MailNumbers
    <3>3. /\ rows[l][m] \in {disk.stored[l][m], run.got[l][m]}
          /\ disk.stored[l][m] <= rows[l][m] /\ run.got[l][m] <= rows[l][m]
      BY <1>3, <3>1
    <3>. QED
      BY <2>1, <3>2, <3>3
  <2>. QED
    BY <1>1, <1>2, <2>1 DEF MailSeen
<1>. QED
  BY <1>4, <1>5, <1>6, <1>7, <1>8

LEMMA MailWriteThreads ==
  ASSUME MailConstants, MailInv, Mail!WriteThreads
  PROVE  MailInv'
<1>. USE DEF MailInv
<1>. DEFINE rows == Mail!Later(disk.threads, run.got)
<1>1. /\ run.pc = "threads" /\ UNCHANGED <<faults, world>>
      /\ run' = [pc |-> "watermark", asOf |-> run.asOf, list |-> run.list, plan |-> run.plan, fetched |-> run.fetched,
                 current |-> run.current, got |-> run.got, next |-> run.next, remaining |-> run.remaining, seen |-> run.seen]
  BY MailParts DEF Mail!WriteThreads, Mail!Step
<1>2. disk' = [stored |-> disk.stored, threads |-> rows, marks |-> disk.marks]
  BY MailParts DEF Mail!WriteThreads
<1>3. /\ rows \in Archives
      /\ \A l \in 1..NumLists, m \in 1..MaxMonth :
           /\ rows[l][m] \in {disk.threads[l][m], run.got[l][m]}
           /\ disk.threads[l][m] <= rows[l][m] /\ run.got[l][m] <= rows[l][m]
  BY MailParts, MailLater
<1>. HIDE DEF rows
<1>4. MailTypes'
  <2>1. run' \in MailRuns
    BY <1>1, MailParts DEF MailRuns
  <2>. QED
    BY <1>1, <1>2, <1>3, <2>1, MailParts DEF MailTypes
<1>5. MailRows'
  <2>1. \A l \in 1..NumLists, m \in 1..MaxMonth : rows[l][m] <= world.mail[l][m]
    BY <1>3 DEF MailRows
  <2>. QED
    BY <1>1, <1>2, <1>3, <2>1 DEF MailRows
<1>6. MailBehind'
  <2>1. ASSUME "late" \notin faults, NEW l \in 1..NumLists, NEW m \in 1..MaxMonth, m <= disk.marks[l]
        PROVE  rows[l][m] = world.mail[l][m]
    <3>1. disk.threads[l][m] = world.mail[l][m] /\ run.got[l][m] <= world.mail[l][m]
      BY <2>1 DEF MailBehind, MailRows
    <3>2. world.mail[l][m] \in Nat /\ run.got[l][m] \in Nat
      BY MailNumbers
    <3>3. rows[l][m] \in {disk.threads[l][m], run.got[l][m]} /\ disk.threads[l][m] <= rows[l][m]
      BY <1>3
    <3>. QED
      BY <3>1, <3>2, <3>3
  <2>. QED
    BY <1>1, <1>2, <2>1 DEF MailBehind
<1>7. MailPlanned'
  BY <1>1 DEF MailPlanned
<1>8. MailSeen'
  BY <1>1, <1>2 DEF MailSeen
<1>. QED
  BY <1>4, <1>5, <1>6, <1>7, <1>8

LEMMA MailWriteWatermark ==
  ASSUME MailConstants, MailInv, Mail!WriteWatermark
  PROVE  MailInv'
<1>. USE DEF MailInv
<1>. DEFINE marks == [l \in 1..NumLists |-> IF l \in world.config THEN run.next[l] ELSE 0]
<1>1. /\ run.pc = "watermark" /\ UNCHANGED <<faults, world>>
      /\ run' = [pc |-> "good", asOf |-> run.asOf, list |-> run.list, plan |-> run.plan, fetched |-> run.fetched,
                 current |-> run.current, got |-> run.got, next |-> run.next, remaining |-> run.remaining, seen |-> run.seen]
  BY MailParts DEF Mail!WriteWatermark, Mail!Step
<1>2. disk' = [stored |-> disk.stored, threads |-> disk.threads, marks |-> marks]
  BY MailParts DEF Mail!WriteWatermark, Mail!Lists, Mail!None
<1>3. marks \in MonthOfList
  BY MailParts DEF MonthOfList, MailConstants
<1>4. \A l \in 1..NumLists : marks[l] = run.next[l]
  BY <1>1 DEF MailPlanned
<1>. HIDE DEF marks
<1>5. MailTypes'
  <2>1. run' \in MailRuns
    BY <1>1, MailParts DEF MailRuns
  <2>. QED
    BY <1>1, <1>2, <1>3, <2>1, MailParts DEF MailTypes
<1>6. MailRows'
  BY <1>1, <1>2 DEF MailRows
<1>7. MailBehind'
  <2>1. ASSUME "late" \notin faults, NEW l \in 1..NumLists, NEW m \in 1..MaxMonth, m <= run.next[l]
        PROVE  /\ m < world.now
               /\ disk.stored[l][m] = world.mail[l][m] /\ disk.threads[l][m] = world.mail[l][m]
    <3>1. m < world.now /\ (run.got[l][m] = world.mail[l][m] \/ m <= disk.marks[l])
      BY <2>1 DEF MailBehind
    <3>2. CASE m <= disk.marks[l]
      BY <2>1, <3>1, <3>2 DEF MailBehind
    <3>3. CASE run.got[l][m] = world.mail[l][m]
      <4>1. /\ disk.stored[l][m] \in Nat /\ disk.threads[l][m] \in Nat /\ world.mail[l][m] \in Nat
        BY MailNumbers
      <4>2. /\ run.got[l][m] <= disk.stored[l][m] /\ run.got[l][m] <= disk.threads[l][m]
            /\ disk.stored[l][m] <= world.mail[l][m] /\ disk.threads[l][m] <= world.mail[l][m]
        BY <1>1 DEF MailRows
      <4>. QED
        BY <3>1, <3>3, <4>1, <4>2
    <3>. QED
      BY <3>1, <3>2, <3>3
  <2>. QED
    BY <1>1, <1>2, <1>4, <2>1 DEF MailBehind
<1>8. MailPlanned'
  BY <1>1 DEF MailPlanned
<1>9. MailSeen'
  BY <1>1, <1>2 DEF MailSeen
<1>. QED
  BY <1>5, <1>6, <1>7, <1>8, <1>9

-----------------------------------------------------------------------------
LEMMA MailStep ==
  ASSUME MailConstants, MailInv, [Mail!Next]_<<faults, world, disk, run>>
  PROVE  MailInv'
<1>1. CASE Mail!Run
  BY <1>1, MailResetStep, MailPassStep, MailFetchStats, MailFetchMonth, MailEndList, MailWriteMessages, MailWriteThreads,
     MailWriteWatermark DEF Mail!Run
<1>2. CASE Mail!FailRequest \/ Mail!Kill
  BY <1>2, MailResetStep
<1>3. CASE Mail!NextMonth \/ Mail!Reconfigure \/ \E l \in Mail!Lists, m \in Mail!Months : Mail!Post(l, m)
  BY <1>3, MailWorldActions, MailWorldStep
<1>4. CASE UNCHANGED <<faults, world, disk, run>>
  BY <1>4 DEF MailInv, MailTypes, MailRows, MailBehind, MailPlanned, MailSeen
<1>. QED
  BY <1>1, <1>2, <1>3, <1>4 DEF Mail!Next

LEMMA MailInvariant == MailConstants /\ Mail!Spec => []MailInv
<1>. SUFFICES ASSUME MailConstants PROVE Mail!Spec => []MailInv
  OBVIOUS
<1>1. Mail!Init => MailInv
  BY MailInit
<1>2. MailInv /\ [Mail!Next]_Mail!vars => MailInv'
  BY MailStep DEF Mail!vars
<1>. QED
  BY <1>1, <1>2, PTL DEF Mail!Spec

(* What a list's watermark has passed is stored, message and thread,       *)
(* whatever the cap left out, failed or was cut (_collect_ponymail).       *)
THEOREM BehindIsAlwaysStored ==
  ASSUME MailConstants
  PROVE  Mail!Spec => []Mail!BehindIsStored
<1>1. MailInv => Mail!BehindIsStored
  BY DEF MailInv, MailBehind, Mail!BehindIsStored, Mail!Lists, Mail!Months
<1>. QED
  BY <1>1, MailInvariant, PTL

(* A run that reports no month remaining has stored all that the lists had *)
(* when it asked for their months, with any cap.                           *)
THEOREM CaughtUpHasAll ==
  ASSUME MailConstants
  PROVE  Mail!Spec => []Mail!CaughtUpMeansAll
<1>1. MailInv => Mail!CaughtUpMeansAll
  <2>1. SUFFICES ASSUME MailInv, run.pc = "good", run.remaining = 0, "late" \notin faults,
                        NEW l \in world.config, NEW m \in 1..MaxMonth
                 PROVE  disk.stored[l][m] >= run.seen[l][m]
    BY DEF Mail!CaughtUpMeansAll, Mail!Months
  <2>2. l \in 1..NumLists /\ l \in Nat /\ NumLists \in Nat
    BY <2>1, MailNumbers DEF MailInv, MailConstants
  <2>3. run.list = NumLists + 1
    BY <2>1 DEF MailInv, MailPlanned
  <2>4. run.seen[l][m] <= disk.stored[l][m] \/ run.seen[l][m] <= run.got[l][m]
    BY <2>1, <2>2, <2>3 DEF MailInv, MailSeen
  <2>5. run.got[l][m] <= disk.stored[l][m]
    BY <2>1, <2>2 DEF MailInv, MailRows
  <2>6. run.seen[l][m] \in Nat /\ run.got[l][m] \in Nat /\ disk.stored[l][m] \in Nat
    BY <2>1, <2>2, MailNumbers DEF MailInv
  <2>. QED
    BY <2>4, <2>5, <2>6
<1>. QED
  BY <1>1, MailInvariant, PTL

(* Where no mail comes late, the lists are an at-least-once feed of their  *)
(* messages, although runs write all messages, then all threads, then the  *)
(* watermarks.                                                             *)
THEOREM MailIsAFeed ==
  ASSUME MailConstants
  PROVE  Mail!Spec /\ "late" \notin faults => Mail!Feed!FeedSpec
<1>. DEFINE readable == {x \in Mail!Messages : disk.stored[x[1]][x[2]] >= x[3]}
            behind == {x \in Mail!Messages : x[2] <= disk.marks[x[1]] /\ x[3] <= world.mail[x[1]][x[2]]}
            OnTime == MailInv /\ "late" \notin faults
<1>1. Mail!Init => MailInv
  BY MailInit
<1>2. OnTime /\ [Mail!Next]_Mail!vars => OnTime'
  <2>1. [Mail!Next]_Mail!vars => faults' = faults
    BY DEF Mail!Next, Mail!Run, Mail!vars, Mail!NextMonth, Mail!Post, Mail!Reconfigure, Mail!BeginRun, Mail!SkipList,
       Mail!FetchStats, Mail!FetchMonth, Mail!EndList, Mail!EndCollect, Mail!WriteMessages, Mail!WriteThreads,
       Mail!WriteWatermark, Mail!EndRun, Mail!FailRequest, Mail!Kill
  <2>. QED
    BY <2>1, MailStep DEF Mail!vars
<1>3. OnTime => behind \subseteq readable
  <2>1. SUFFICES ASSUME OnTime, NEW x \in Mail!Messages, x[2] <= disk.marks[x[1]], x[3] <= world.mail[x[1]][x[2]]
                 PROVE  disk.stored[x[1]][x[2]] >= x[3]
    OBVIOUS
  <2>2. x[1] \in 1..NumLists /\ x[2] \in 1..MaxMonth /\ x[3] \in 1..MaxMail
    BY DEF Mail!Messages, Mail!Lists, Mail!Months
  <2>3. disk.stored[x[1]][x[2]] = world.mail[x[1]][x[2]]
    BY <2>1, <2>2 DEF MailInv, MailBehind
  <2>4. world.mail[x[1]][x[2]] \in Nat /\ x[3] \in Nat
    BY <2>1, <2>2, MailNumbers DEF MailInv, MailConstants
  <2>. QED
    BY <2>1, <2>3, <2>4
<1>4. OnTime' => (behind \subseteq readable)'
  BY <1>3, PTL
<1>5. OnTime /\ [Mail!Next]_Mail!vars => readable \subseteq readable'
  <2>1. SUFFICES ASSUME OnTime, [Mail!Next]_Mail!vars PROVE readable \subseteq readable'
    OBVIOUS
  <2>2. CASE Mail!WriteMessages
    <3>1. disk'.stored = Mail!Later(disk.stored, run.got)
      BY <2>1, <2>2, MailParts DEF Mail!WriteMessages, MailInv
    <3>2. ASSUME NEW x \in Mail!Messages, disk.stored[x[1]][x[2]] >= x[3]
          PROVE  disk'.stored[x[1]][x[2]] >= x[3]
      <4>1. x[1] \in 1..NumLists /\ x[2] \in 1..MaxMonth /\ x[3] \in 1..MaxMail
        BY DEF Mail!Messages, Mail!Lists, Mail!Months
      <4>2. disk.stored \in Archives /\ run.got \in Archives
        BY <2>1, MailParts DEF MailInv
      <4>3. disk'.stored \in Archives /\ disk.stored[x[1]][x[2]] <= disk'.stored[x[1]][x[2]]
        BY <3>1, <4>1, <4>2, MailLater
      <4>4. disk.stored[x[1]][x[2]] \in Nat /\ disk'.stored[x[1]][x[2]] \in Nat /\ x[3] \in Nat
        BY <4>1, <4>2, <4>3, MailArchive DEF MailConstants
      <4>. QED
        BY <3>2, <4>3, <4>4
    <3>. QED
      BY <3>2 DEF Mail!Messages, Mail!Lists, Mail!Months
  <2>3. CASE ~ Mail!WriteMessages
    <3>1. disk'.stored = disk.stored
      <4>1. CASE Mail!WriteThreads \/ Mail!WriteWatermark
        BY <2>1, <4>1, MailParts DEF Mail!WriteThreads, Mail!WriteWatermark, MailInv
      <4>2. CASE UNCHANGED disk
        BY <4>2
      <4>. QED
        BY <2>1, <2>3, <4>1, <4>2 DEF Mail!Next, Mail!Run, Mail!vars, Mail!NextMonth, Mail!Post, Mail!Reconfigure, Mail!BeginRun,
           Mail!SkipList, Mail!FetchStats, Mail!FetchMonth, Mail!EndList, Mail!EndCollect, Mail!EndRun, Mail!FailRequest, Mail!Kill
    <3>. QED
      BY <3>1 DEF Mail!Messages, Mail!Lists, Mail!Months
  <2>. QED
    BY <2>2, <2>3
<1>6. OnTime => Mail!Feed!FeedInit
  <2>1. behind \subseteq readable /\ readable \subseteq Mail!Messages => Mail!Feed!FeedInit
    BY DEF Mail!Feed!FeedInit, Mail!Readable, Mail!Behind
  <2>. QED
    BY <1>3, <2>1
<1>7. OnTime /\ OnTime' /\ [Mail!Next]_Mail!vars => [Mail!Feed!Deliver]_(Mail!Feed!feed)
  <2>1. readable \subseteq readable' /\ (behind \subseteq readable)' => Mail!Feed!Deliver
    BY DEF Mail!Feed!Deliver, Mail!Readable, Mail!Behind, Mail!Messages, Mail!Lists, Mail!Months
  <2>. QED
    BY <1>4, <1>5, <2>1
<1>. HIDE DEF OnTime
<1>8. Mail!Init /\ "late" \notin faults => OnTime
  BY <1>1 DEF OnTime
<1>. QED
  BY <1>2, <1>6, <1>7, <1>8, PTL DEF Mail!Spec, Mail!Feed!FeedSpec

-----------------------------------------------------------------------------
(* The labels.                                                             *)

LabelConstants == /\ NumItems \in Nat /\ NumThreads \in Nat
                  /\ \E m \in Modes : \A n \in Modes : m \subseteq n

LabelLine == [item : 0..NumItems, labels : SUBSET UNION Modes]
LabelThread == [pc : {"free", "append", "record"}, item : 0..NumItems, labels : SUBSET UNION Modes]
TornLine == [item |-> 0, labels |-> {}]

LabelTypes ==
  /\ world \in [up : BOOLEAN, mode : SUBSET UNION Modes, records : SUBSET (1..NumItems)]
  /\ disk \in Seq(LabelLine)
  /\ run \in [1..NumThreads -> LabelThread]

(* Sessions without another set of labels all present the same ones.       *)
Presented(labels) == labels \in Modes /\ ("modes" \notin faults => labels = Labels!Gap)

LabelSession ==
  /\ world.up => Presented(world.mode)
  /\ ~ world.up => world.mode = {} /\ world.records = {}

LabelFile == \A k \in 1..Len(disk) : disk[k] = TornLine \/ (disk[k].item \in 1..NumItems /\ Presented(disk[k].labels))

(* A save in hand is of this session; one that is written has its line.    *)
LabelSaves ==
  \A t \in 1..NumThreads :
    /\ run[t].pc # "free" => world.up /\ run[t].item \in 1..NumItems /\ run[t].labels = world.mode
    /\ run[t].pc = "record" => \E k \in 1..Len(disk) : disk[k].item = run[t].item

LabelDone == \A i \in world.records : \E k \in 1..Len(disk) : disk[k].item = i

LabelInv == LabelTypes /\ LabelSession /\ LabelFile /\ LabelSaves /\ LabelDone

LEMMA LabelGap == LabelConstants => Labels!Gap \in Modes
  BY DEF LabelConstants, Labels!Gap

LEMMA LabelParts ==
  ASSUME LabelTypes
  PROVE  /\ world = [up |-> world.up, mode |-> world.mode, records |-> world.records]
         /\ world.up \in BOOLEAN /\ world.mode \in SUBSET UNION Modes /\ world.records \in SUBSET (1..NumItems)
         /\ Len(disk) \in Nat /\ disk \in [1..Len(disk) -> LabelLine]
         /\ \A t \in 1..NumThreads : run[t] = [pc |-> run[t].pc, item |-> run[t].item, labels |-> run[t].labels]
  BY DEF LabelTypes, LabelThread

LEMMA LabelInit == LabelConstants /\ Labels!Init => LabelInv
<1>. SUFFICES ASSUME LabelConstants, Labels!Init PROVE LabelInv
  OBVIOUS
<1>1. /\ world = [up |-> FALSE, mode |-> {}, records |-> {}] /\ disk = << >>
      /\ run = [t \in 1..NumThreads |-> [pc |-> "free", item |-> 0, labels |-> {}]]
  BY DEF Labels!Init, Labels!Down, Labels!Free, Labels!Threads, Labels!None
<1>2. 0 \in 0..NumItems
  BY DEF LabelConstants
<1>3. LabelTypes
  BY <1>1, <1>2 DEF LabelTypes, LabelThread
<1>. QED
  BY <1>1, <1>3 DEF LabelInv, LabelSession, LabelFile, LabelSaves, LabelDone

LEMMA LabelBuild ==
  ASSUME LabelConstants, LabelInv, Labels!BuildAppState
  PROVE  LabelInv'
<1>. USE DEF LabelInv
<1>1. PICK m \in Modes :
        /\ "modes" \notin faults => m = Labels!Gap
        /\ world' = [up |-> TRUE, mode |-> m, records |-> {l.item : l \in {disk[k] : k \in 1..Len(disk)}}]
  BY LabelGap DEF Labels!BuildAppState, Labels!ReadLabelRecords, Labels!Lines
<1>2. ~ world.up /\ UNCHANGED <<faults, disk, run>> /\ TornLine \notin {disk[k] : k \in 1..Len(disk)}
  BY DEF Labels!BuildAppState, Labels!Torn, Labels!Lines, Labels!None, TornLine
<1>3. \A k \in 1..Len(disk) : disk[k].item \in 1..NumItems
  BY <1>2 DEF LabelFile
<1>4. world'.up = TRUE /\ world'.mode = m /\ world'.records = {l.item : l \in {disk[k] : k \in 1..Len(disk)}}
  BY <1>1
<1>5. LabelTypes'
  <2>1. world'.records \in SUBSET (1..NumItems)
    BY <1>3, <1>4
  <2>2. m \in SUBSET UNION Modes
    OBVIOUS
  <2>. QED
    BY <1>1, <1>2, <1>4, <2>1, <2>2 DEF LabelTypes
<1>6. LabelSession' /\ LabelFile'
  BY <1>1, <1>2, <1>4 DEF LabelSession, LabelFile, Presented
<1>7. LabelSaves'
  BY <1>2 DEF LabelSaves
<1>8. LabelDone'
  BY <1>2, <1>4 DEF LabelDone
<1>. QED
  BY <1>5, <1>6, <1>7, <1>8

(* What keeps every line keeps what rests on lines.                        *)
LEMMA LabelKept ==
  ASSUME LabelTypes, NEW line \in LabelLine, disk' = Append(disk, line)
  PROVE  /\ disk' \in Seq(LabelLine) /\ Len(disk') = Len(disk) + 1
         /\ \A k \in 1..Len(disk) : k \in 1..Len(disk') /\ disk'[k] = disk[k]
         /\ Len(disk') \in 1..Len(disk') /\ disk'[Len(disk')] = line
         /\ \A k \in 1..Len(disk') : k \in 1..Len(disk) \/ k = Len(disk')
  BY DEF LabelTypes

LEMMA LabelReceive ==
  ASSUME LabelConstants, LabelInv, NEW t \in 1..NumThreads, Labels!ReceiveSave(t)
  PROVE  LabelInv'
<1>. USE DEF LabelInv
<1>1. PICK item \in 1..NumItems :
        run' = [run EXCEPT ![t] = [pc |-> "append", item |-> item, labels |-> world.mode]]
  BY DEF Labels!ReceiveSave, Labels!ValidateSavePayload, Labels!Items
<1>2. world.up /\ UNCHANGED <<faults, world, disk>>
  BY DEF Labels!ReceiveSave
<1>3. \A u \in 1..NumThreads :
        run'[u] = IF u = t THEN [pc |-> "append", item |-> item, labels |-> world.mode] ELSE run[u]
  BY <1>1 DEF LabelTypes
<1>4. LabelTypes'
  <2>1. [pc |-> "append", item |-> item, labels |-> world.mode] \in LabelThread
    BY LabelParts DEF LabelThread, LabelConstants
  <2>. QED
    BY <1>1, <1>2, <2>1 DEF LabelTypes
<1>5. LabelSaves'
  BY <1>2, <1>3 DEF LabelSaves
<1>. QED
  BY <1>2, <1>4, <1>5 DEF LabelSession, LabelFile, LabelDone, Presented

LEMMA LabelAppend ==
  ASSUME LabelConstants, LabelInv, NEW t \in 1..NumThreads, Labels!AppendLabelRecord(t)
  PROVE  LabelInv'
<1>. USE DEF LabelInv
<1>. DEFINE line == [item |-> run[t].item, labels |-> run[t].labels]
<1>1. /\ run[t].pc = "append" /\ disk' = Append(disk, line) /\ UNCHANGED <<faults, world>>
      /\ run' = [run EXCEPT ![t] = [pc |-> "record", item |-> run[t].item, labels |-> run[t].labels]]
  <2>1. /\ run[t].pc = "append" /\ disk' = Append(disk, line) /\ UNCHANGED <<faults, world>>
        /\ run' = [run EXCEPT ![t] = [run[t] EXCEPT !.pc = "record"]]
    BY DEF Labels!AppendLabelRecord
  <2>2. run[t] = [pc |-> run[t].pc, item |-> run[t].item, labels |-> run[t].labels]
    BY LabelParts
  <2>3. [run[t] EXCEPT !.pc = "record"] = [pc |-> "record", item |-> run[t].item, labels |-> run[t].labels]
    BY <2>2
  <2>. QED
    BY <2>1, <2>3
<1>2. line \in LabelLine
  BY DEF LabelTypes, LabelLine, LabelThread
<1>3. world.up /\ run[t].item \in 1..NumItems /\ Presented(run[t].labels)
  BY <1>1 DEF LabelSaves, LabelSession
<1>4. \A u \in 1..NumThreads :
        run'[u] = IF u = t THEN [pc |-> "record", item |-> run[t].item, labels |-> run[t].labels] ELSE run[u]
  BY <1>1 DEF LabelTypes
<1>5. line.item = run[t].item /\ line.labels = run[t].labels
  OBVIOUS
<1>. HIDE DEF line
<1>6. /\ disk' \in Seq(LabelLine)
      /\ \A k \in 1..Len(disk) : k \in 1..Len(disk') /\ disk'[k] = disk[k]
      /\ Len(disk') \in 1..Len(disk') /\ disk'[Len(disk')] = line
      /\ \A k \in 1..Len(disk') : k \in 1..Len(disk) \/ k = Len(disk')
  BY <1>1, <1>2, LabelKept
<1>7. LabelTypes'
  <2>1. [pc |-> "record", item |-> run[t].item, labels |-> run[t].labels] \in LabelThread
    BY DEF LabelTypes, LabelThread
  <2>. QED
    BY <1>1, <1>6, <2>1 DEF LabelTypes
<1>8. LabelFile'
  <2>1. ASSUME NEW k \in 1..Len(disk')
        PROVE  disk'[k] = TornLine \/ (disk'[k].item \in 1..NumItems /\ Presented(disk'[k].labels))
    <3>1. CASE k \in 1..Len(disk)
      BY <1>6, <3>1 DEF LabelFile
    <3>2. CASE k = Len(disk')
      BY <1>3, <1>5, <1>6, <3>2
    <3>. QED
      BY <1>6, <3>1, <3>2
  <2>. QED
    BY <1>1, <2>1 DEF LabelFile, Presented
<1>9. LabelSaves'
  <2>1. ASSUME NEW u \in 1..NumThreads, run'[u].pc = "record"
        PROVE  \E k \in 1..Len(disk') : disk'[k].item = run'[u].item
    <3>1. CASE u = t
      BY <1>4, <1>5, <1>6, <3>1
    <3>2. CASE u # t
      <4>1. PICK k \in 1..Len(disk) : disk[k].item = run[u].item
        BY <1>4, <2>1, <3>2 DEF LabelSaves
      <4>. QED
        BY <1>4, <1>6, <3>2, <4>1
    <3>. QED
      BY <3>1, <3>2
  <2>2. ASSUME NEW u \in 1..NumThreads, run'[u].pc # "free"
        PROVE  world.up /\ run'[u].item \in 1..NumItems /\ run'[u].labels = world.mode
    BY <1>1, <1>3, <1>4, <2>2 DEF LabelSaves
  <2>. QED
    BY <1>1, <2>1, <2>2 DEF LabelSaves
<1>10. LabelDone'
  BY <1>1, <1>6 DEF LabelDone
<1>11. LabelSession'
  BY <1>1 DEF LabelSession, Presented
<1>. QED
  BY <1>7, <1>8, <1>9, <1>10, <1>11

LEMMA LabelRecord ==
  ASSUME LabelConstants, LabelInv, NEW t \in 1..NumThreads, Labels!RecordSave(t)
  PROVE  LabelInv'
<1>. USE DEF LabelInv
<1>1. /\ run[t].pc = "record" /\ UNCHANGED <<faults, disk>>
      /\ world' = [up |-> world.up, mode |-> world.mode, records |-> world.records \cup {run[t].item}]
      /\ run' = [run EXCEPT ![t] = [pc |-> "free", item |-> 0, labels |-> {}]]
  BY LabelParts DEF Labels!RecordSave, Labels!Free, Labels!None
<1>2. world.up /\ run[t].item \in 1..NumItems
  BY <1>1 DEF LabelSaves
<1>3. \A u \in 1..NumThreads : run'[u] = IF u = t THEN [pc |-> "free", item |-> 0, labels |-> {}] ELSE run[u]
  BY <1>1 DEF LabelTypes
<1>4. world'.up = world.up /\ world'.mode = world.mode /\ world'.records = world.records \cup {run[t].item}
  BY <1>1
<1>5. LabelTypes'
  <2>1. [pc |-> "free", item |-> 0, labels |-> {}] \in LabelThread
    BY DEF LabelThread, LabelConstants
  <2>. QED
    BY <1>1, <1>2, <2>1 DEF LabelTypes
<1>6. LabelSaves'
  BY <1>1, <1>3, <1>4 DEF LabelSaves
<1>7. LabelDone'
  BY <1>1, <1>4 DEF LabelDone, LabelSaves
<1>8. LabelSession' /\ LabelFile'
  BY <1>1, <1>2, <1>4 DEF LabelSession, LabelFile, Presented
<1>. QED
  BY <1>5, <1>6, <1>7, <1>8

LEMMA LabelStop ==
  ASSUME LabelConstants, LabelInv, Labels!Stop
  PROVE  LabelInv'
<1>. USE DEF LabelInv
<1>1. /\ world' = [up |-> FALSE, mode |-> {}, records |-> {}] /\ UNCHANGED faults
      /\ run' = [t \in 1..NumThreads |-> [pc |-> "free", item |-> 0, labels |-> {}]]
      /\ disk' = disk \/ disk' = Append(disk, TornLine)
  BY DEF Labels!Stop, Labels!Down, Labels!Free, Labels!Threads, Labels!Torn, Labels!None, TornLine
<1>2. TornLine \in LabelLine /\ [pc |-> "free", item |-> 0, labels |-> {}] \in LabelThread
  BY DEF TornLine, LabelLine, LabelThread, LabelConstants
<1>3. disk' \in Seq(LabelLine) /\ \A k \in 1..Len(disk') : disk'[k] = TornLine \/ (k \in 1..Len(disk) /\ disk'[k] = disk[k])
  <2>1. CASE disk' = disk
    BY <2>1 DEF LabelTypes
  <2>2. CASE disk' = Append(disk, TornLine)
    BY <1>2, <2>2, LabelKept
  <2>. QED
    BY <1>1, <2>1, <2>2
<1>4. LabelTypes'
  BY <1>1, <1>2, <1>3 DEF LabelTypes
<1>5. LabelFile'
  BY <1>1, <1>3 DEF LabelFile, Presented
<1>. QED
  BY <1>1, <1>4, <1>5 DEF LabelSession, LabelSaves, LabelDone

LEMMA LabelRepair ==
  ASSUME LabelConstants, LabelInv, Labels!Repair
  PROVE  LabelInv'
<1>. USE DEF LabelInv
<1>1. ~ world.up /\ UNCHANGED <<faults, world, run>>
  BY DEF Labels!Repair
<1>2. PICK j \in 1..Len(disk) : disk' = SubSeq(disk, 1, j - 1) \o SubSeq(disk, j + 1, Len(disk))
  BY DEF Labels!Repair
<1>3. disk \in Seq(LabelLine) /\ Len(disk) \in Nat /\ j \in Int /\ 1 <= j /\ j <= Len(disk)
  BY DEF LabelTypes
<1>. DEFINE head == SubSeq(disk, 1, j - 1)
            tail == SubSeq(disk, j + 1, Len(disk))
<1>4. /\ head \in Seq(LabelLine) /\ Len(head) = j - 1
      /\ \A k \in 1..(j - 1) : head[k] = disk[k]
  BY <1>3
<1>5. /\ tail \in Seq(LabelLine) /\ Len(tail) = Len(disk) - j
      /\ \A k \in 1..(Len(disk) - j) : tail[k] = disk[k + j]
  BY <1>3
<1>6. disk' = head \o tail
  BY <1>2
<1>. HIDE DEF head, tail
<1>7. disk' \in Seq(LabelLine) /\ Len(disk') = Len(disk) - 1
  BY <1>3, <1>4, <1>5, <1>6
<1>8. ASSUME NEW k \in 1..Len(disk')
      PROVE  \E n \in 1..Len(disk) : disk'[k] = disk[n]
  <2>1. CASE k <= j - 1
    <3>1. disk'[k] = head[k]
      BY <1>3, <1>4, <1>5, <1>6, <1>7, <2>1
    <3>2. k \in 1..(j - 1) /\ k \in 1..Len(disk)
      BY <1>3, <1>7, <2>1
    <3>. QED
      BY <1>4, <3>1, <3>2
  <2>2. CASE k > j - 1
    <3>1. k - (j - 1) \in 1..(Len(disk) - j) /\ k + 1 \in 1..Len(disk) /\ (k - (j - 1)) + j = k + 1
      BY <1>3, <1>7, <2>2
    <3>2. disk'[k] = tail[k - (j - 1)]
      BY <1>3, <1>4, <1>5, <1>6, <1>7, <2>2, <3>1
    <3>. QED
      BY <1>5, <3>1, <3>2
  <2>. QED
    BY <1>3, <1>7, <2>1, <2>2
<1>9. LabelTypes'
  BY <1>1, <1>7 DEF LabelTypes
<1>10. LabelFile'
  BY <1>1, <1>8 DEF LabelFile, Presented
<1>. QED
  BY <1>1, <1>9, <1>10 DEF LabelSession, LabelSaves, LabelDone, Presented

LEMMA LabelInvariant == LabelConstants /\ Labels!Spec => []LabelInv
<1>. SUFFICES ASSUME LabelConstants PROVE Labels!Spec => []LabelInv
  OBVIOUS
<1>1. Labels!Init => LabelInv
  BY LabelInit
<1>2. ASSUME LabelInv, [Labels!Next]_Labels!vars
      PROVE  LabelInv'
  <2>1. CASE Labels!Next
    BY <1>2, <2>1, LabelBuild, LabelReceive, LabelAppend, LabelRecord, LabelStop, LabelRepair
    DEF Labels!Next, Labels!Serve, Labels!Rate, Labels!Threads
  <2>2. CASE UNCHANGED Labels!vars
    BY <1>2, <2>2 DEF Labels!vars, LabelInv, LabelTypes, LabelSession, LabelFile, LabelSaves, LabelDone, Presented
  <2>. QED
    BY <1>2, <2>1, <2>2
<1>. QED
  BY <1>1, <1>2, PTL DEF Labels!Spec

(* What the page counts as done has its line in the file, although saves   *)
(* run side by side and the server is stopped between a line and its       *)
(* record, or within a line (label/server.py, label/store.py).             *)
THEOREM DoneIsAlwaysSaved ==
  ASSUME LabelConstants
  PROVE  Labels!Spec => []Labels!DoneIsSaved
<1>1. LabelInv => Labels!DoneIsSaved
  BY DEF LabelInv, LabelDone, Labels!DoneIsSaved, Labels!ReadLabelRecords, Labels!Lines
<1>. QED
  BY <1>1, LabelInvariant, PTL

(* A session that says it is complete has every presented label of every   *)
(* item, as long as the sessions of a file present the same.               *)
THEOREM CompleteIsAlwaysLabeled ==
  ASSUME LabelConstants
  PROVE  Labels!Spec => []Labels!CompleteIsLabeled
<1>1. LabelInv => Labels!CompleteIsLabeled
  <2>. DEFINE rest == ((1..NumItems) \ world.records) \cup {NumItems + 1}
  <2>1. SUFFICES ASSUME LabelInv, world.up, Labels!Complete, "modes" \notin faults, NEW i \in 1..NumItems
                 PROVE  \E k \in 1..Len(disk) : disk[k] = [item |-> i, labels |-> world.mode]
    BY DEF Labels!CompleteIsLabeled, Labels!Items, Labels!Lines
  <2>2. NumItems \in Nat
    BY DEF LabelConstants
  <2>3. rest \in SUBSET Nat /\ rest # {}
    BY <2>2
  <2>4. Labels!Min(rest) > NumItems
    BY <2>1 DEF Labels!Complete, Labels!NextItem, Labels!Items
  <2>5. i \in world.records
    <3>1. SUFFICES ASSUME i \in rest PROVE FALSE
      OBVIOUS
    <3>. HIDE DEF rest
    <3>2. \E m \in rest : \A x \in rest : m <= x
      BY <2>3, LeastNumber
    <3>3. Labels!Min(rest) \in rest /\ Labels!Min(rest) <= i
      BY <3>1, <3>2 DEF Labels!Min
    <3>4. Labels!Min(rest) \in Nat
      BY <2>3, <3>3
    <3>5. i \in Nat /\ i <= NumItems
      BY <2>2
    <3>. QED
      BY <2>2, <2>4, <3>3, <3>4, <3>5
  <2>6. PICK k \in 1..Len(disk) : disk[k].item = i
    BY <2>1, <2>5 DEF LabelInv, LabelDone
  <2>7. disk[k] # TornLine
    BY <2>2, <2>6 DEF TornLine
  <2>8. disk[k].labels = Labels!Gap /\ world.mode = Labels!Gap
    BY <2>1, <2>7 DEF LabelInv, LabelFile, LabelSession, Presented
  <2>9. disk[k] \in LabelLine
    BY <2>1, LabelParts DEF LabelInv
  <2>. QED
    BY <2>6, <2>8, <2>9 DEF LabelLine
<1>. QED
  BY <1>1, LabelInvariant, PTL
-----------------------------------------------------------------------------
(* The issues of GitHub.                                                   *)

IssuesOf(r) == DOMAIN AuthorOf[r]

IssueConstants ==
  /\ NumRepos \in Nat /\ PageSize \in Nat /\ Allowances \subseteq Nat
  /\ \A r \in 1..NumRepos : \E n \in Nat \ {0} : IssuesOf(r) = 1..n

(* Something of each issue of each repository.                             *)
IssueTables(X) ==
  {f \in [1..NumRepos -> UNION {[IssuesOf(r) -> X] : r \in 1..NumRepos}] :
     \A r \in 1..NumRepos : f[r] \in [IssuesOf(r) -> X]}

IssueRuns == [pc : {"idle", "collect", "comments", "mark", "good"}, repo : 1..(NumRepos + 1), cursor : [1..NumRepos -> Nat],
              issues : IssueTables(Nat), comments : IssueTables(SUBSET Nat),
              outcome : [1..NumRepos -> {"none", "ok", "rate_limited", "failed", "skipped"}],
              left : Nat, before : IssueTables(Nat)]

IssueTypes ==
  /\ world \in [updated : IssueTables(Nat), comments : IssueTables(Seq(Commenters))]
  /\ disk \in [issues : IssueTables(Nat), comments : IssueTables(SUBSET Nat), marks : [1..NumRepos -> Nat],
               good : {"none", "ok", "partial"}]
  /\ run \in IssueRuns

(* Versions have come from updates, and cursors from versions; a table     *)
(* that has been written holds what was fetched.                           *)
IssueRows ==
  /\ \E b \in Nat : \A r \in 1..NumRepos : \A i \in IssuesOf(r) : world.updated[r][i] <= b
  /\ \A r \in 1..NumRepos :
       /\ \E i \in IssuesOf(r) : disk.marks[r] <= world.updated[r][i]
       /\ \E i \in IssuesOf(r) : run.cursor[r] <= world.updated[r][i]
       /\ \A i \in IssuesOf(r) :
            /\ disk.issues[r][i] <= world.updated[r][i] /\ run.issues[r][i] <= world.updated[r][i]
            /\ run.before[r][i] <= world.updated[r][i]
            /\ disk.comments[r][i] \subseteq Issues!Said(r, i) /\ run.comments[r][i] \subseteq Issues!Said(r, i)
            /\ run.pc \in {"comments", "mark", "good"} => run.issues[r][i] <= disk.issues[r][i]
            /\ run.pc \in {"mark", "good"} => run.comments[r][i] \subseteq disk.comments[r][i]

(* An issue as it is now, on disk or with the run.                         *)
IssueStored(r, i) == /\ AuthorOf[r][i] \notin Bots => disk.issues[r][i] = world.updated[r][i]
                     /\ Issues!Said(r, i) \subseteq disk.comments[r][i]
IssueInHand(r, i) == /\ AuthorOf[r][i] \notin Bots => run.issues[r][i] = world.updated[r][i]
                     /\ Issues!Said(r, i) \subseteq run.comments[r][i]

IssueBehind ==
  \A r \in 1..NumRepos : \A i \in IssuesOf(r) : world.updated[r][i] > 0 =>
    /\ world.updated[r][i] <= disk.marks[r] => IssueStored(r, i)
    /\ world.updated[r][i] <= run.cursor[r] => world.updated[r][i] <= disk.marks[r] \/ IssueInHand(r, i)

(* A repository that went well is stored or in hand as the run found it.   *)
IssueWell ==
  \A r \in 1..NumRepos : run.outcome[r] = "ok" =>
    \A i \in IssuesOf(r) : AuthorOf[r][i] \notin Bots =>
      run.before[r][i] <= disk.issues[r][i] \/ run.before[r][i] <= run.issues[r][i]

IssueInv == IssueTypes /\ IssueRows /\ IssueBehind /\ IssueWell

LEMMA IssueSome == IssueConstants => \A r \in 1..NumRepos : 1 \in IssuesOf(r) /\ IsFiniteSet(IssuesOf(r))
<1>. SUFFICES ASSUME IssueConstants, NEW r \in 1..NumRepos PROVE 1 \in IssuesOf(r) /\ IsFiniteSet(IssuesOf(r))
  OBVIOUS
<1>1. PICK n \in Nat \ {0} : IssuesOf(r) = 1..n
  BY DEF IssueConstants
<1>2. 1 \in 1..n
  BY <1>1
<1>. QED
  BY <1>1, <1>2, FS_Interval

LEMMA IssueEntry ==
  ASSUME NEW X, NEW f \in IssueTables(X), NEW r \in 1..NumRepos
  PROVE  f[r] \in [IssuesOf(r) -> X] /\ \A i \in IssuesOf(r) : f[r][i] \in X
  BY DEF IssueTables

LEMMA IssueTable ==
  ASSUME NEW X, NEW f, DOMAIN f = 1..NumRepos, f = [r \in 1..NumRepos |-> f[r]],
         \A r \in 1..NumRepos : f[r] \in [IssuesOf(r) -> X]
  PROVE  f \in IssueTables(X)
  BY DEF IssueTables

LEMMA IssueChanged ==
  ASSUME NEW X, NEW f \in IssueTables(X), NEW r \in 1..NumRepos, NEW g \in [IssuesOf(r) -> X]
  PROVE  /\ [f EXCEPT ![r] = g] \in IssueTables(X)
         /\ \A q \in 1..NumRepos : [f EXCEPT ![r] = g][q] = IF q = r THEN g ELSE f[q]
<1>. DEFINE h == [f EXCEPT ![r] = g]
<1>1. DOMAIN f = 1..NumRepos /\ \A q \in 1..NumRepos : f[q] \in [IssuesOf(q) -> X]
  BY DEF IssueTables
<1>2. DOMAIN h = 1..NumRepos /\ h = [q \in 1..NumRepos |-> h[q]] /\ \A q \in 1..NumRepos : h[q] = IF q = r THEN g ELSE f[q]
  BY <1>1
<1>3. \A q \in 1..NumRepos : h[q] \in [IssuesOf(q) -> X]
  BY <1>1, <1>2
<1>. HIDE DEF h
<1>4. h \in IssueTables(X)
  BY <1>2, <1>3, IssueTable
<1>. QED
  BY <1>2, <1>4 DEF h

LEMMA IssueParts ==
  ASSUME IssueTypes
  PROVE  /\ run = [pc |-> run.pc, repo |-> run.repo, cursor |-> run.cursor, issues |-> run.issues, comments |-> run.comments,
                   outcome |-> run.outcome, left |-> run.left, before |-> run.before]
         /\ disk = [issues |-> disk.issues, comments |-> disk.comments, marks |-> disk.marks, good |-> disk.good]
         /\ world = [updated |-> world.updated, comments |-> world.comments]
         /\ run.pc \in {"idle", "collect", "comments", "mark", "good"} /\ run.repo \in 1..(NumRepos + 1)
         /\ run.cursor \in [1..NumRepos -> Nat] /\ run.issues \in IssueTables(Nat)
         /\ run.comments \in IssueTables(SUBSET Nat) /\ run.left \in Nat /\ run.before \in IssueTables(Nat)
         /\ run.outcome \in [1..NumRepos -> {"none", "ok", "rate_limited", "failed", "skipped"}]
         /\ disk.issues \in IssueTables(Nat) /\ disk.comments \in IssueTables(SUBSET Nat)
         /\ disk.marks \in [1..NumRepos -> Nat] /\ disk.good \in {"none", "ok", "partial"}
         /\ world.updated \in IssueTables(Nat) /\ world.comments \in IssueTables(Seq(Commenters))
  BY DEF IssueTypes, IssueRuns

LEMMA IssueNumbers ==
  ASSUME IssueTypes, NEW r \in 1..NumRepos
  PROVE  /\ run.cursor[r] \in Nat /\ disk.marks[r] \in Nat
         /\ \A i \in IssuesOf(r) :
              /\ world.updated[r][i] \in Nat /\ disk.issues[r][i] \in Nat /\ run.issues[r][i] \in Nat
              /\ run.before[r][i] \in Nat
<1>1. \A f \in IssueTables(Nat) : \A i \in IssuesOf(r) : f[r][i] \in Nat
  BY IssueEntry
<1>. QED
  BY <1>1, IssueParts

(* Some numbers up to n have a highest one.                                *)
LEMMA IssueHighest ==
  ASSUME NEW n \in Nat, NEW T \in SUBSET (0..n), T # {}
  PROVE  Issues!Max(T) \in T /\ \A x \in T : Issues!Max(T) >= x
<1>1. \E m \in T : \A x \in T : m >= x
  <2>1. CASE T \ {0} = {}
    <3>1. T = {0}
      BY <2>1
    <3>2. 0 >= 0
      OBVIOUS
    <3>. QED
      BY <3>1, <3>2
  <2>2. CASE T \ {0} # {}
    <3>1. T \ {0} \in SUBSET (1..n)
      OBVIOUS
    <3>2. PICK m \in T \ {0} : \A x \in T \ {0} : x <= m
      BY <2>2, <3>1, GreatestNumber
    <3>3. m \in Nat /\ \A x \in T : x \in Int
      BY <3>1
    <3>. QED
      BY <3>2, <3>3
  <2>. QED
    BY <2>1, <2>2
<1>. QED
  BY <1>1 DEF Issues!Max

LEMMA IssueInit == IssueConstants /\ Issues!Init => IssueInv
<1>. SUFFICES ASSUME IssueConstants, Issues!Init PROVE IssueInv
  OBVIOUS
<1>. DEFINE none == [r \in 1..NumRepos |-> [i \in IssuesOf(r) |-> 0]]
            mute == [r \in 1..NumRepos |-> [i \in IssuesOf(r) |-> << >>]]
            unsaid == [r \in 1..NumRepos |-> [i \in IssuesOf(r) |-> {}]]
            start == [r \in 1..NumRepos |-> 0]
            unknown == [r \in 1..NumRepos |-> "none"]
<1>1. /\ world = [updated |-> none, comments |-> mute]
      /\ disk = [issues |-> none, comments |-> unsaid, marks |-> start, good |-> "none"]
      /\ run = [pc |-> "idle", repo |-> 1, cursor |-> start, issues |-> none, comments |-> unsaid, outcome |-> unknown,
                left |-> 0, before |-> none]
  BY DEF Issues!Init, Issues!Idle, Issues!PerRepo, Issues!PerIssue, Issues!Repos, Issues!Issues, IssuesOf
<1>2. /\ none \in IssueTables(Nat) /\ mute \in IssueTables(Seq(Commenters)) /\ unsaid \in IssueTables(SUBSET Nat)
  <2>1. \A r \in 1..NumRepos :
          /\ none[r] \in [IssuesOf(r) -> Nat] /\ mute[r] \in [IssuesOf(r) -> Seq(Commenters)]
          /\ unsaid[r] \in [IssuesOf(r) -> SUBSET Nat]
    OBVIOUS
  <2>. QED
    BY <2>1, IssueTable
<1>3. \A r \in 1..NumRepos : start[r] = 0 /\ unknown[r] = "none"
        /\ \A i \in IssuesOf(r) : none[r][i] = 0 /\ unsaid[r][i] = {}
  OBVIOUS
<1>4. \A r \in 1..NumRepos : \E i \in IssuesOf(r) : TRUE
  BY IssueSome
<1>5. start \in [1..NumRepos -> Nat] /\ unknown \in [1..NumRepos -> {"none", "ok", "rate_limited", "failed", "skipped"}]
      /\ 1 \in 1..(NumRepos + 1)
  BY DEF IssueConstants
<1>. HIDE DEF none, mute, unsaid, start, unknown
<1>6. IssueTypes
  BY <1>1, <1>2, <1>5 DEF IssueTypes, IssueRuns
<1>7. IssueRows
  <2>1. 0 \in Nat /\ 0 <= 0
    OBVIOUS
  <2>. QED
    BY <1>1, <1>3, <1>4, <2>1 DEF IssueRows
<1>8. IssueBehind /\ IssueWell
  BY <1>1, <1>3 DEF IssueBehind, IssueWell
<1>. QED
  BY <1>6, <1>7, <1>8 DEF IssueInv

-----------------------------------------------------------------------------
(* An issue is updated: it is newer than all others, and than any cursor.  *)
IssueMoves(r, i) ==
  /\ UNCHANGED <<faults, disk, run>>
  /\ world' \in [updated : IssueTables(Nat), comments : IssueTables(Seq(Commenters))]
  /\ \A q \in 1..NumRepos : \A j \in IssuesOf(q) :
       /\ Issues!Said(q, j) \subseteq Issues!Said(q, j)'
       /\ q # r \/ j # i => world'.updated[q][j] = world.updated[q][j] /\ Issues!Said(q, j)' = Issues!Said(q, j)
  /\ \A j \in IssuesOf(r) : world.updated[r][j] < world'.updated[r][i]

LEMMA IssueNow ==
  ASSUME IssueConstants, IssueInv, NEW r \in 1..NumRepos
  PROVE  Issues!Now(r) \in Nat /\ \A j \in IssuesOf(r) : world.updated[r][j] <= Issues!Now(r)
<1>. USE DEF IssueInv
<1>. DEFINE T == {world.updated[r][j] : j \in IssuesOf(r)}
<1>1. PICK b \in Nat : \A j \in IssuesOf(r) : world.updated[r][j] <= b
  BY DEF IssueRows
<1>2. \A j \in IssuesOf(r) : world.updated[r][j] \in 0..b
  BY <1>1, IssueNumbers
<1>3. T \in SUBSET (0..b) /\ T # {}
  BY <1>2, IssueSome
<1>4. Issues!Now(r) = Issues!Max(T)
  BY DEF Issues!Now, Issues!Issues, IssuesOf
<1>5. \A j \in IssuesOf(r) : world.updated[r][j] \in T
  OBVIOUS
<1>. HIDE DEF T
<1>6. Issues!Max(T) \in T /\ \A x \in T : Issues!Max(T) >= x
  BY <1>3, IssueHighest
<1>7. \A x \in T : x \in Nat
  BY <1>3
<1>. QED
  BY <1>4, <1>5, <1>6, <1>7

LEMMA IssueWorldActions ==
  ASSUME IssueConstants, IssueInv, NEW r \in 1..NumRepos, NEW i \in IssuesOf(r),
         Issues!Update(r, i) \/ \E login \in Commenters : Issues!Comment(r, i, login)
  PROVE  IssueMoves(r, i)
<1>. USE DEF IssueInv
<1>. DEFINE new == Issues!Now(r) + 1
            row == [world.updated[r] EXCEPT ![i] = new]
            updated == [world.updated EXCEPT ![r] = row]
<1>1. new \in Nat /\ \A j \in IssuesOf(r) : world.updated[r][j] < new
  BY IssueNow, IssueNumbers
<1>. HIDE DEF new
<1>2. row \in [IssuesOf(r) -> Nat] /\ row[i] = new /\ \A j \in IssuesOf(r) : j # i => row[j] = world.updated[r][j]
  BY <1>1, IssueParts, IssueEntry
<1>. HIDE DEF row
<1>3. updated \in IssueTables(Nat) /\ \A q \in 1..NumRepos : updated[q] = IF q = r THEN row ELSE world.updated[q]
  BY <1>2, IssueParts, IssueChanged
<1>. HIDE DEF updated
<1>4. PICK comments \in IssueTables(Seq(Commenters)) :
        /\ world' = [updated |-> updated, comments |-> comments]
        /\ \A q \in 1..NumRepos : \A j \in IssuesOf(q) : q # r \/ j # i => comments[q][j] = world.comments[q][j]
        /\ comments[r][i] = world.comments[r][i] \/ \E login \in Commenters : comments[r][i] = Append(world.comments[r][i], login)
  <2>1. CASE Issues!Update(r, i)
    <3>1. world' = [world EXCEPT !.updated = updated]
      BY <2>1 DEF Issues!Update, updated, row, new
    <3>. QED
      BY <3>1, IssueParts
  <2>2. CASE \E login \in Commenters : Issues!Comment(r, i, login)
    <3>1. PICK login \in Commenters : Issues!Comment(r, i, login)
      BY <2>2
    <3>. DEFINE said == [world.comments[r] EXCEPT ![i] = Append(world.comments[r][i], login)]
                comments == [world.comments EXCEPT ![r] = said]
    <3>2. world' = [world EXCEPT !.updated = updated, !.comments = comments]
      BY <3>1 DEF Issues!Comment, updated, row, new
    <3>3. world.comments[r] \in [IssuesOf(r) -> Seq(Commenters)] /\ world.comments[r][i] \in Seq(Commenters)
      BY IssueParts, IssueEntry
    <3>4. Append(world.comments[r][i], login) \in Seq(Commenters)
      BY <3>3
    <3>5. said \in [IssuesOf(r) -> Seq(Commenters)] /\ said[i] = Append(world.comments[r][i], login)
          /\ \A j \in IssuesOf(r) : j # i => said[j] = world.comments[r][j]
      BY <3>3, <3>4
    <3>. HIDE DEF said
    <3>6. comments \in IssueTables(Seq(Commenters)) /\ \A q \in 1..NumRepos : comments[q] = IF q = r THEN said ELSE world.comments[q]
      BY <3>5, IssueParts, IssueChanged
    <3>. HIDE DEF comments
    <3>7. world' = [updated |-> updated, comments |-> comments]
      BY <3>2, IssueParts
    <3>. QED
      BY <3>5, <3>6, <3>7
  <2>. QED
    BY <2>1, <2>2
<1>5. UNCHANGED <<faults, disk, run>>
  BY DEF Issues!Update, Issues!Comment
<1>6. ASSUME NEW q \in 1..NumRepos, NEW j \in IssuesOf(q)
      PROVE  /\ Issues!Said(q, j) \subseteq Issues!Said(q, j)'
             /\ q # r \/ j # i => world'.updated[q][j] = world.updated[q][j] /\ Issues!Said(q, j)' = Issues!Said(q, j)
  <2>1. CASE q # r \/ j # i
    <3>1. world'.comments[q][j] = world.comments[q][j] /\ world'.updated[q][j] = world.updated[q][j]
      BY <1>2, <1>3, <1>4, <2>1
    <3>. QED
      BY <3>1 DEF Issues!Said
  <2>2. CASE q = r /\ j = i
    <3>1. world.comments[q][j] \in Seq(Commenters)
      BY IssueParts, IssueEntry
    <3>2. CASE world'.comments[q][j] = world.comments[q][j]
      BY <2>2, <3>2 DEF Issues!Said
    <3>3. CASE \E login \in Commenters : world'.comments[q][j] = Append(world.comments[q][j], login)
      <4>1. \A k \in DOMAIN world.comments[q][j] :
              k \in DOMAIN world'.comments[q][j] /\ world'.comments[q][j][k] = world.comments[q][j][k]
        BY <3>1, <3>3
      <4>. QED
        BY <2>2, <4>1 DEF Issues!Said
    <3>. QED
      BY <1>4, <2>2, <3>2, <3>3
  <2>. QED
    BY <2>1, <2>2
<1>7. world'.updated[r][i] = new
  BY <1>2, <1>3, <1>4
<1>8. world' \in [updated : IssueTables(Nat), comments : IssueTables(Seq(Commenters))]
  BY <1>3, <1>4
<1>. QED
  BY <1>1, <1>5, <1>6, <1>7, <1>8 DEF IssueMoves

LEMMA IssueWorldStep ==
  ASSUME IssueConstants, IssueInv, NEW r \in 1..NumRepos, NEW i \in IssuesOf(r), IssueMoves(r, i)
  PROVE  IssueInv'
<1>. USE DEF IssueInv
<1>1. /\ UNCHANGED <<faults, disk, run>>
      /\ world' \in [updated : IssueTables(Nat), comments : IssueTables(Seq(Commenters))]
  BY DEF IssueMoves
<1>2. IssueTypes'
  BY <1>1 DEF IssueTypes
<1>3. \A q \in 1..NumRepos : \A j \in IssuesOf(q) : world'.updated[q][j] \in Nat
  BY <1>1, IssueEntry
<1>4. ASSUME NEW q \in 1..NumRepos, NEW j \in IssuesOf(q)
      PROVE  world.updated[q][j] <= world'.updated[q][j]
  <2>1. world.updated[q][j] \in Nat /\ world'.updated[q][j] \in Nat
    BY <1>3, IssueNumbers
  <2>2. q = r /\ j = i => world.updated[q][j] < world'.updated[q][j]
    BY DEF IssueMoves
  <2>3. ~ (q = r /\ j = i) => world'.updated[q][j] = world.updated[q][j]
    BY DEF IssueMoves
  <2>. QED
    BY <2>1, <2>2, <2>3
<1>5. IssueRows'
  <2>1. PICK b \in Nat : \A q \in 1..NumRepos : \A j \in IssuesOf(q) : world.updated[q][j] <= b
    BY DEF IssueRows
  <2>2. \E c \in Nat : \A q \in 1..NumRepos : \A j \in IssuesOf(q) : world'.updated[q][j] <= c
    <3>. DEFINE c == b + world'.updated[r][i]
    <3>1. c \in Nat
      BY <1>3, <2>1
    <3>2. ASSUME NEW q \in 1..NumRepos, NEW j \in IssuesOf(q)
          PROVE  world'.updated[q][j] <= c
      <4>1. world'.updated[r][i] \in Nat /\ world.updated[q][j] \in Nat /\ world.updated[q][j] <= b
        BY <1>3, <2>1, IssueNumbers
      <4>2. (q = r /\ j = i) \/ world'.updated[q][j] = world.updated[q][j]
        BY DEF IssueMoves
      <4>. QED
        BY <4>1, <4>2
    <3>. QED
      BY <3>1, <3>2
  <2>3. ASSUME NEW q \in 1..NumRepos, NEW j \in IssuesOf(q)
        PROVE  /\ disk.issues[q][j] <= world'.updated[q][j] /\ run.issues[q][j] <= world'.updated[q][j]
               /\ run.before[q][j] <= world'.updated[q][j]
               /\ disk.marks[q] <= world.updated[q][j] => disk.marks[q] <= world'.updated[q][j]
               /\ run.cursor[q] <= world.updated[q][j] => run.cursor[q] <= world'.updated[q][j]
    <3>1. world.updated[q][j] <= world'.updated[q][j] /\ world'.updated[q][j] \in Nat
      BY <1>3, <1>4
    <3>2. /\ world.updated[q][j] \in Nat /\ disk.issues[q][j] \in Nat /\ run.issues[q][j] \in Nat
          /\ run.before[q][j] \in Nat /\ disk.marks[q] \in Nat /\ run.cursor[q] \in Nat
      BY IssueNumbers
    <3>. QED
      BY <3>1, <3>2 DEF IssueRows
  <2>4. \A q \in 1..NumRepos : /\ \E j \in IssuesOf(q) : disk.marks[q] <= world'.updated[q][j]
                               /\ \E j \in IssuesOf(q) : run.cursor[q] <= world'.updated[q][j]
    BY <2>3 DEF IssueRows
  <2>5. \A q \in 1..NumRepos : \A j \in IssuesOf(q) :
          disk.comments[q][j] \subseteq Issues!Said(q, j)' /\ run.comments[q][j] \subseteq Issues!Said(q, j)'
    BY DEF IssueRows, IssueMoves
  <2>. QED
    BY <1>1, <2>2, <2>3, <2>4, <2>5 DEF IssueRows
<1>6. IssueBehind'
  <2>1. ~ (world'.updated[r][i] <= disk.marks[r]) /\ ~ (world'.updated[r][i] <= run.cursor[r])
    <3>1. PICK j \in IssuesOf(r) : disk.marks[r] <= world.updated[r][j]
      BY DEF IssueRows
    <3>2. PICK k \in IssuesOf(r) : run.cursor[r] <= world.updated[r][k]
      BY DEF IssueRows
    <3>3. world.updated[r][j] < world'.updated[r][i] /\ world.updated[r][k] < world'.updated[r][i]
      BY DEF IssueMoves
    <3>4. /\ world.updated[r][j] \in Nat /\ world.updated[r][k] \in Nat /\ world'.updated[r][i] \in Nat
          /\ disk.marks[r] \in Nat /\ run.cursor[r] \in Nat
      BY <1>3, IssueNumbers
    <3>. QED
      BY <3>1, <3>2, <3>3, <3>4
  <2>2. ASSUME NEW q \in 1..NumRepos, NEW j \in IssuesOf(q), world'.updated[q][j] > 0
        PROVE  /\ world'.updated[q][j] <= disk.marks[q] => IssueStored(q, j)'
               /\ world'.updated[q][j] <= run.cursor[q] => world'.updated[q][j] <= disk.marks[q] \/ IssueInHand(q, j)'
    <3>1. CASE q = r /\ j = i
      BY <2>1, <3>1
    <3>2. CASE q # r \/ j # i
      <4>1. world'.updated[q][j] = world.updated[q][j] /\ Issues!Said(q, j)' = Issues!Said(q, j)
        BY <3>2 DEF IssueMoves
      <4>2. (IssueStored(q, j) => IssueStored(q, j)') /\ (IssueInHand(q, j) => IssueInHand(q, j)')
        BY <1>1, <4>1 DEF IssueStored, IssueInHand
      <4>. QED
        BY <2>2, <4>1, <4>2 DEF IssueBehind
    <3>. QED
      BY <3>1, <3>2
  <2>. QED
    BY <1>1, <2>2 DEF IssueBehind
<1>7. IssueWell'
  BY <1>1 DEF IssueWell
<1>. QED
  BY <1>2, <1>5, <1>6, <1>7
-----------------------------------------------------------------------------
(* A night that begins, and one that ends or is cut.                       *)
LEMMA IssueBeginRun ==
  ASSUME IssueConstants, IssueInv, Issues!BeginRun
  PROVE  IssueInv'
<1>. USE DEF IssueInv
<1>. DEFINE none == [r \in 1..NumRepos |-> [i \in IssuesOf(r) |-> 0]]
            unsaid == [r \in 1..NumRepos |-> [i \in IssuesOf(r) |-> {}]]
            unknown == [r \in 1..NumRepos |-> "none"]
<1>1. UNCHANGED <<faults, world, disk>>
  BY DEF Issues!BeginRun
<1>2. PICK left \in Nat :
        run' = [pc |-> "collect", repo |-> 1, cursor |-> disk.marks, issues |-> none, comments |-> unsaid,
                outcome |-> unknown, left |-> left, before |-> world.updated]
  BY DEF Issues!BeginRun, Issues!Idle, Issues!PerRepo, Issues!PerIssue, Issues!Repos, Issues!Issues, IssuesOf, IssueConstants
<1>3. none \in IssueTables(Nat) /\ unsaid \in IssueTables(SUBSET Nat)
  <2>1. \A r \in 1..NumRepos : none[r] \in [IssuesOf(r) -> Nat] /\ unsaid[r] \in [IssuesOf(r) -> SUBSET Nat]
    OBVIOUS
  <2>. QED
    BY <2>1, IssueTable
<1>4. \A r \in 1..NumRepos : unknown[r] = "none" /\ \A i \in IssuesOf(r) : none[r][i] = 0 /\ unsaid[r][i] = {}
  OBVIOUS
<1>5. 1 \in 1..(NumRepos + 1) /\ unknown \in [1..NumRepos -> {"none", "ok", "rate_limited", "failed", "skipped"}]
  BY DEF IssueConstants
<1>. HIDE DEF none, unsaid, unknown
<1>6. IssueTypes'
  <2>1. run' \in IssueRuns
    BY <1>2, <1>3, <1>5, IssueParts DEF IssueRuns
  <2>. QED
    BY <1>1, <2>1 DEF IssueTypes
<1>7. \A r \in 1..NumRepos : \A i \in IssuesOf(r) : 0 <= world.updated[r][i] /\ world.updated[r][i] <= world.updated[r][i]
  BY IssueNumbers
<1>8. IssueRows'
  <2>1. \A r \in 1..NumRepos : \A i \in IssuesOf(r) : Issues!Said(r, i)' = Issues!Said(r, i)
    BY <1>1 DEF Issues!Said
  <2>. QED
    BY <1>1, <1>2, <1>4, <1>7, <2>1 DEF IssueRows
<1>9. IssueBehind'
  <2>1. \A r \in 1..NumRepos : \A i \in IssuesOf(r) : IssueStored(r, i) => IssueStored(r, i)'
    BY <1>1 DEF IssueStored, Issues!Said
  <2>. QED
    BY <1>1, <1>2, <2>1 DEF IssueBehind
<1>10. IssueWell'
  BY <1>2, <1>4 DEF IssueWell
<1>. QED
  BY <1>6, <1>8, <1>9, <1>10

LEMMA IssueResetStep ==
  ASSUME IssueConstants, IssueInv, Issues!RecordLastGood \/ Issues!EscapeCollect \/ Issues!Kill
  PROVE  IssueInv'
<1>. USE DEF IssueInv
<1>. DEFINE none == [r \in 1..NumRepos |-> [i \in IssuesOf(r) |-> 0]]
            unsaid == [r \in 1..NumRepos |-> [i \in IssuesOf(r) |-> {}]]
            start == [r \in 1..NumRepos |-> 0]
            unknown == [r \in 1..NumRepos |-> "none"]
<1>1. UNCHANGED <<faults, world>>
  BY DEF Issues!RecordLastGood, Issues!EscapeCollect, Issues!Kill
<1>2. run' = [pc |-> "idle", repo |-> 1, cursor |-> start, issues |-> none, comments |-> unsaid, outcome |-> unknown,
              left |-> 0, before |-> none]
  BY DEF Issues!RecordLastGood, Issues!EscapeCollect, Issues!Kill, Issues!Idle, Issues!PerRepo, Issues!PerIssue, Issues!Repos,
     Issues!Issues, IssuesOf
<1>3. PICK good \in {"none", "ok", "partial"} :
        disk' = [issues |-> disk.issues, comments |-> disk.comments, marks |-> disk.marks, good |-> good]
  <2>1. Issues!Status \in {"ok", "failed", "partial"}
    BY DEF Issues!Status
  <2>2. CASE Issues!RecordLastGood
    <3>1. disk' = [disk EXCEPT !.good = IF Issues!Status = "failed" THEN disk.good ELSE Issues!Status]
      BY <2>2 DEF Issues!RecordLastGood
    <3>. QED
      BY <2>1, <3>1, IssueParts
  <2>3. CASE Issues!EscapeCollect \/ Issues!Kill
    BY <2>3, IssueParts DEF Issues!EscapeCollect, Issues!Kill
  <2>. QED
    BY <2>2, <2>3
<1>4. none \in IssueTables(Nat) /\ unsaid \in IssueTables(SUBSET Nat)
  <2>1. \A r \in 1..NumRepos : none[r] \in [IssuesOf(r) -> Nat] /\ unsaid[r] \in [IssuesOf(r) -> SUBSET Nat]
    OBVIOUS
  <2>. QED
    BY <2>1, IssueTable
<1>5. \A r \in 1..NumRepos : start[r] = 0 /\ unknown[r] = "none"
        /\ \A i \in IssuesOf(r) : none[r][i] = 0 /\ unsaid[r][i] = {}
  OBVIOUS
<1>6. /\ 1 \in 1..(NumRepos + 1) /\ start \in [1..NumRepos -> Nat]
      /\ unknown \in [1..NumRepos -> {"none", "ok", "rate_limited", "failed", "skipped"}]
  BY DEF IssueConstants
<1>. HIDE DEF none, unsaid, start, unknown
<1>7. IssueTypes'
  <2>1. run' \in IssueRuns
    BY <1>2, <1>4, <1>6 DEF IssueRuns
  <2>2. disk' \in [issues : IssueTables(Nat), comments : IssueTables(SUBSET Nat), marks : [1..NumRepos -> Nat],
                   good : {"none", "ok", "partial"}]
    BY <1>3, IssueParts
  <2>. QED
    BY <1>1, <2>1, <2>2 DEF IssueTypes
<1>8. \A r \in 1..NumRepos : 1 \in IssuesOf(r) /\ \A i \in IssuesOf(r) : 0 <= world.updated[r][i]
  BY IssueSome, IssueNumbers
<1>9. IssueRows'
  <2>1. \A r \in 1..NumRepos : \A i \in IssuesOf(r) : Issues!Said(r, i)' = Issues!Said(r, i)
    BY <1>1 DEF Issues!Said
  <2>. QED
    BY <1>1, <1>2, <1>3, <1>5, <1>8, <2>1 DEF IssueRows
<1>10. IssueBehind'
  <2>1. \A r \in 1..NumRepos : \A i \in IssuesOf(r) : IssueStored(r, i) => IssueStored(r, i)'
    BY <1>1, <1>3 DEF IssueStored, Issues!Said
  <2>2. \A r \in 1..NumRepos : \A i \in IssuesOf(r) : world.updated[r][i] > 0 => ~ (world.updated[r][i] <= 0)
    BY IssueNumbers
  <2>. QED
    BY <1>1, <1>2, <1>3, <1>5, <2>1, <2>2 DEF IssueBehind
<1>11. IssueWell'
  BY <1>2, <1>5 DEF IssueWell
<1>. QED
  BY <1>7, <1>9, <1>10, <1>11

(* A repository passed over, or given up: its page is not read.            *)
LEMMA IssueEnd ==
  ASSUME IssueConstants, IssueInv, Issues!SkipRepo \/ Issues!StopRepo
  PROVE  IssueInv'
<1>. USE DEF IssueInv
<1>1. run.pc = "collect" /\ run.repo \in 1..NumRepos /\ UNCHANGED <<faults, world, disk>>
  BY DEF Issues!SkipRepo, Issues!StopRepo, Issues!Collecting, Issues!Repos
<1>2. PICK status \in {"skipped", "failed", "rate_limited"} :
        run' = [run EXCEPT !.repo = @ + 1, !.outcome[run.repo] = status]
  BY DEF Issues!SkipRepo, Issues!StopRepo, Issues!End
<1>. DEFINE outcome == [run.outcome EXCEPT ![run.repo] = status]
<1>3. run' = [pc |-> "collect", repo |-> run.repo + 1, cursor |-> run.cursor, issues |-> run.issues, comments |-> run.comments,
              outcome |-> outcome, left |-> run.left, before |-> run.before]
  BY <1>1, <1>2, IssueParts
<1>4. /\ outcome \in [1..NumRepos -> {"none", "ok", "rate_limited", "failed", "skipped"}]
      /\ \A r \in 1..NumRepos : outcome[r] = "ok" => run.outcome[r] = "ok"
  BY <1>1, IssueParts
<1>. HIDE DEF outcome
<1>5. run.repo + 1 \in 1..(NumRepos + 1)
  BY <1>1 DEF IssueConstants
<1>6. IssueTypes'
  <2>1. run' \in IssueRuns
    BY <1>3, <1>4, <1>5, IssueParts DEF IssueRuns
  <2>. QED
    BY <1>1, <2>1 DEF IssueTypes
<1>7. \A r \in 1..NumRepos : \A i \in IssuesOf(r) :
        Issues!Said(r, i)' = Issues!Said(r, i) /\ IssueStored(r, i)' = IssueStored(r, i) /\ IssueInHand(r, i)' = IssueInHand(r, i)
  BY <1>1, <1>3 DEF IssueStored, IssueInHand, Issues!Said
<1>8. IssueRows'
  BY <1>1, <1>3, <1>7 DEF IssueRows
<1>9. IssueBehind'
  BY <1>1, <1>3, <1>7 DEF IssueBehind
<1>10. IssueWell'
  BY <1>1, <1>3, <1>4 DEF IssueWell
<1>. QED
  BY <1>6, <1>8, <1>9, <1>10

(* A page has all issues after the cursor it began at, up to where it ends. *)
LEMMA IssuePage ==
  ASSUME IssueConstants, IssueInv, NEW r \in 1..NumRepos, NEW c \in Nat,
         \E i \in IssuesOf(r) : c <= world.updated[r][i]
  PROVE  LET page == Issues!Page(r, c)
             end  == Issues!EndCursor(r, c)
         IN  /\ page \subseteq IssuesOf(r) /\ end \in Nat /\ c <= end
             /\ \E i \in IssuesOf(r) : end <= world.updated[r][i]
             /\ \A i \in IssuesOf(r) : world.updated[r][i] <= end => world.updated[r][i] <= c \/ i \in page
<1>. USE DEF IssueInv
<1>. DEFINE after == {i \in IssuesOf(r) : world.updated[r][i] > c}
            before(i) == {j \in after : world.updated[r][j] < world.updated[r][i]}
            page == {i \in after : Cardinality(before(i)) < PageSize}
            ends == {c} \cup {world.updated[r][i] : i \in page}
            end == Issues!Max(ends)
<1>1. Issues!Page(r, c) = page /\ Issues!EndCursor(r, c) = end
  <2>1. \A S : Issues!Cardinality(S) = Cardinality(S)
    BY DEF Issues!Cardinality, Cardinality
  <2>2. Issues!After(r, c) = after
    BY DEF Issues!After, Issues!Issues, IssuesOf
  <2>3. Issues!Page(r, c) = page
    BY <2>1, <2>2 DEF Issues!Page
  <2>. QED
    BY <2>3 DEF Issues!EndCursor
<1>2. \A i \in IssuesOf(r) : world.updated[r][i] \in Nat
  BY IssueNumbers
<1>3. ASSUME NEW i \in page, NEW j \in after, world.updated[r][j] <= world.updated[r][i]
      PROVE  j \in page
  <2>1. before(j) \subseteq before(i)
    <3>1. ASSUME NEW k \in after, world.updated[r][k] < world.updated[r][j]
          PROVE  world.updated[r][k] < world.updated[r][i]
      BY <1>2, <1>3, <3>1
    <3>. QED
      BY <3>1
  <2>2. IsFiniteSet(before(i))
    BY IssueSome, FS_Subset
  <2>3. IsFiniteSet(before(j)) /\ Cardinality(before(j)) <= Cardinality(before(i))
    BY <2>1, <2>2, FS_Subset
  <2>4. Cardinality(before(j)) \in Nat /\ Cardinality(before(i)) \in Nat /\ PageSize \in Nat
    BY <2>2, <2>3, FS_CardinalityType DEF IssueConstants
  <2>5. Cardinality(before(i)) < PageSize
    BY <1>3
  <2>. HIDE DEF before
  <2>6. Cardinality(before(j)) < PageSize
    BY <2>3, <2>4, <2>5
  <2>. QED
    BY <2>6
<1>4. page \subseteq after /\ after \subseteq IssuesOf(r)
  OBVIOUS
<1>5. \A i \in IssuesOf(r) : i \in after \/ world.updated[r][i] <= c
  BY <1>2
<1>. HIDE DEF after, page
<1>6. PICK b \in Nat : \A i \in IssuesOf(r) : world.updated[r][i] <= b
  BY DEF IssueRows
<1>7. ends \in SUBSET (0..b) /\ ends # {} /\ c \in ends
  <2>1. c \in 0..b
    BY <1>2, <1>6
  <2>2. \A i \in IssuesOf(r) : world.updated[r][i] \in 0..b
    BY <1>2, <1>6
  <2>. QED
    BY <1>4, <2>1, <2>2
<1>8. \A x \in ends : x = c \/ \E i \in page : x = world.updated[r][i]
  OBVIOUS
<1>. HIDE DEF ends
<1>9. end \in ends /\ \A x \in ends : end >= x
  BY <1>6, <1>7, IssueHighest
<1>. HIDE DEF end
<1>10. end \in Nat /\ c <= end
  BY <1>6, <1>7, <1>9
<1>11. \E i \in IssuesOf(r) : end <= world.updated[r][i]
  <2>1. CASE end = c
    BY <2>1
  <2>2. CASE end # c
    <3>1. PICK i \in page : end = world.updated[r][i]
      BY <1>8, <1>9, <2>2
    <3>. QED
      BY <1>4, <1>10, <3>1
  <2>. QED
    BY <2>1, <2>2
<1>12. ASSUME NEW i \in IssuesOf(r), world.updated[r][i] <= end
       PROVE  world.updated[r][i] <= c \/ i \in page
  <2>1. CASE end = c
    BY <1>12, <2>1
  <2>2. CASE end # c
    <3>1. PICK k \in page : end = world.updated[r][k]
      BY <1>8, <1>9, <2>2
    <3>. QED
      BY <1>3, <1>5, <1>12, <3>1
  <2>. QED
    BY <2>1, <2>2
<1>. QED
  BY <1>1, <1>4, <1>10, <1>11, <1>12

(* The page's issues are as they are now, and nothing is left behind it.   *)
LEMMA IssueFetchPage ==
  ASSUME IssueConstants, IssueInv, Issues!FetchPage
  PROVE  IssueInv'
<1>. USE DEF IssueInv
<1>. DEFINE r == run.repo
            page == Issues!Page(r, run.cursor[r])
            end == Issues!EndCursor(r, run.cursor[r])
            verdict == Issues!Verdict(r, end)
            rows == [i \in IssuesOf(r) |-> IF i \in page THEN Issues!IssueRow(r, i) ELSE run.issues[r][i]]
            said == [i \in IssuesOf(r) |-> IF i \in page THEN run.comments[r][i] \cup Issues!Said(r, i) ELSE run.comments[r][i]]
            cursor == [run.cursor EXCEPT ![r] = end]
            issues == [run.issues EXCEPT ![r] = rows]
            comments == [run.comments EXCEPT ![r] = said]
<1>1. run.pc = "collect" /\ r \in 1..NumRepos /\ UNCHANGED <<faults, world, disk>>
  BY DEF Issues!FetchPage, Issues!Collecting, Issues!Repos
<1>2. run' = [(IF verdict = "more" THEN run ELSE Issues!End(verdict)) EXCEPT
                !.cursor = [(IF verdict = "more" THEN run ELSE Issues!End(verdict)).cursor EXCEPT ![r] = end],
                !.left = IF (IF verdict = "more" THEN run ELSE Issues!End(verdict)).left = 0 THEN 0
                         ELSE (IF verdict = "more" THEN run ELSE Issues!End(verdict)).left - 1,
                !.issues = [(IF verdict = "more" THEN run ELSE Issues!End(verdict)).issues EXCEPT
                             ![r] = [i \in IssuesOf(r) |-> IF i \in page THEN Issues!IssueRow(r, i)
                                       ELSE (IF verdict = "more" THEN run ELSE Issues!End(verdict)).issues[r][i]]],
                !.comments = [(IF verdict = "more" THEN run ELSE Issues!End(verdict)).comments EXCEPT
                               ![r] = [i \in IssuesOf(r) |-> IF i \in page
                                         THEN (IF verdict = "more" THEN run ELSE Issues!End(verdict)).comments[r][i]
                                                \cup Issues!CommentRows(r, i)
                                         ELSE (IF verdict = "more" THEN run ELSE Issues!End(verdict)).comments[r][i]]]]
  BY DEF Issues!FetchPage, Issues!Issues, IssuesOf
<1>3. \A i : Issues!CommentRows(r, i) = Issues!Said(r, i)
  BY DEF Issues!CommentRows, Issues!Said, Issues!Human
<1>4. verdict \in {"ok", "rate_limited", "more"}
      /\ (verdict = "ok" => \A i \in IssuesOf(r) : ~ (world.updated[r][i] > end))
  BY DEF Issues!Verdict, Issues!After, Issues!Issues, IssuesOf
<1>5. /\ page \subseteq IssuesOf(r) /\ end \in Nat /\ run.cursor[r] <= end
      /\ \E i \in IssuesOf(r) : end <= world.updated[r][i]
      /\ \A i \in IssuesOf(r) : world.updated[r][i] <= end => world.updated[r][i] <= run.cursor[r] \/ i \in page
  <2>1. run.cursor[r] \in Nat /\ \E i \in IssuesOf(r) : run.cursor[r] <= world.updated[r][i]
    BY <1>1, IssueNumbers DEF IssueRows
  <2>. QED
    BY <1>1, <2>1, IssuePage
<1>6. \A i \in IssuesOf(r) : Issues!IssueRow(r, i) = IF AuthorOf[r][i] \notin Bots THEN world.updated[r][i] ELSE 0
  BY DEF Issues!IssueRow, Issues!Human
<1>. HIDE DEF page, end, verdict
<1>7. PICK repo \in 1..(NumRepos + 1), left \in Nat,
           outcome \in [1..NumRepos -> {"none", "ok", "rate_limited", "failed", "skipped"}] :
        /\ run' = [pc |-> "collect", repo |-> repo, cursor |-> cursor, issues |-> issues, comments |-> comments,
                   outcome |-> outcome, left |-> left, before |-> run.before]
        /\ \A q \in 1..NumRepos : outcome[q] = "ok" => run.outcome[q] = "ok" \/ (q = r /\ verdict = "ok")
  <2>1. (IF run.left = 0 THEN 0 ELSE run.left - 1) \in Nat
    BY IssueParts
  <2>2. CASE verdict = "more"
    <3>1. run' = [run EXCEPT !.cursor = cursor, !.left = IF run.left = 0 THEN 0 ELSE run.left - 1, !.issues = issues,
                             !.comments = comments]
      BY <1>2, <1>3, <2>2
    <3>2. run' = [pc |-> "collect", repo |-> run.repo, cursor |-> cursor, issues |-> issues, comments |-> comments,
                  outcome |-> run.outcome, left |-> IF run.left = 0 THEN 0 ELSE run.left - 1, before |-> run.before]
      BY <1>1, <3>1, IssueParts
    <3>. HIDE DEF cursor, issues, comments
    <3>. QED
      BY <2>1, <3>2, IssueParts
  <2>3. CASE verdict # "more"
    <3>. DEFINE outcome == [run.outcome EXCEPT ![r] = verdict]
                ended == [pc |-> run.pc, repo |-> r + 1, cursor |-> run.cursor, issues |-> run.issues,
                          comments |-> run.comments, outcome |-> outcome, left |-> run.left, before |-> run.before]
    <3>1. Issues!End(verdict) = ended
      <4>1. Issues!End(verdict) = [run EXCEPT !.repo = r + 1, !.outcome = outcome]
        BY DEF Issues!End
      <4>. QED
        BY <4>1, IssueParts
    <3>2. outcome \in [1..NumRepos -> {"none", "ok", "rate_limited", "failed", "skipped"}]
          /\ \A q \in 1..NumRepos : outcome[q] = "ok" => run.outcome[q] = "ok" \/ (q = r /\ verdict = "ok")
      BY <1>1, <1>4, <2>3, IssueParts
    <3>3. r + 1 \in 1..(NumRepos + 1)
      BY <1>1 DEF IssueConstants
    <3>. HIDE DEF outcome
    <3>4. run' = [pc |-> "collect", repo |-> r + 1, cursor |-> cursor, issues |-> issues, comments |-> comments,
                  outcome |-> outcome, left |-> IF run.left = 0 THEN 0 ELSE run.left - 1, before |-> run.before]
      <4>1. /\ ended.cursor = run.cursor /\ ended.left = run.left /\ ended.issues = run.issues
            /\ ended.comments = run.comments
        OBVIOUS
      <4>2. run' = [ended EXCEPT !.cursor = cursor, !.left = IF run.left = 0 THEN 0 ELSE run.left - 1, !.issues = issues,
                                 !.comments = comments]
        <5>1. (IF verdict = "more" THEN run ELSE Issues!End(verdict)) = ended
          BY <2>3, <3>1
        <5>. HIDE DEF ended, rows
        <5>2. rows = [i \in IssuesOf(r) |-> IF i \in page THEN Issues!IssueRow(r, i) ELSE ended.issues[r][i]]
          BY <4>1 DEF rows
        <5>3. said = [i \in IssuesOf(r) |-> IF i \in page THEN ended.comments[r][i] \cup Issues!CommentRows(r, i)
                                            ELSE ended.comments[r][i]]
          BY <1>3, <4>1
        <5>4. run' = [ended EXCEPT !.cursor = [ended.cursor EXCEPT ![r] = end],
                                   !.left = IF ended.left = 0 THEN 0 ELSE ended.left - 1,
                                   !.issues = [ended.issues EXCEPT ![r] = rows],
                                   !.comments = [ended.comments EXCEPT ![r] = said]]
          <6>. HIDE DEF said
          <6>. QED
            BY <1>2, <5>1, <5>2, <5>3, Zenon
        <5>. QED
          BY <4>1, <5>4
      <4>. HIDE DEF cursor, issues, comments
      <4>. QED
        BY <1>1, <4>2
    <3>. HIDE DEF cursor, issues, comments, ended
    <3>. QED
      BY <2>1, <3>2, <3>3, <3>4
  <2>. QED
    BY <2>2, <2>3
<1>8. rows \in [IssuesOf(r) -> Nat] /\ \A i \in IssuesOf(r) :
        rows[i] = IF i \in page THEN IF AuthorOf[r][i] \notin Bots THEN world.updated[r][i] ELSE 0 ELSE run.issues[r][i]
  BY <1>1, <1>6, IssueNumbers
<1>9. said \in [IssuesOf(r) -> SUBSET Nat] /\ \A i \in IssuesOf(r) :
        said[i] = IF i \in page THEN run.comments[r][i] \cup Issues!Said(r, i) ELSE run.comments[r][i]
  <2>1. \A i \in IssuesOf(r) : run.comments[r][i] \in SUBSET Nat
    BY <1>1, IssueParts, IssueEntry
  <2>2. \A i \in IssuesOf(r) : Issues!Said(r, i) \in SUBSET Nat
    <3>1. \A i \in IssuesOf(r) : world.comments[r][i] \in Seq(Commenters)
      BY <1>1, IssueParts, IssueEntry
    <3>2. \A s \in Seq(Commenters) : DOMAIN s \subseteq Nat
      OBVIOUS
    <3>. QED
      BY <3>1, <3>2 DEF Issues!Said
  <2>. QED
    BY <2>1, <2>2
<1>. HIDE DEF rows, said
<1>10. cursor \in [1..NumRepos -> Nat] /\ \A q \in 1..NumRepos : cursor[q] = IF q = r THEN end ELSE run.cursor[q]
  BY <1>1, <1>5, IssueParts
<1>11. issues \in IssueTables(Nat) /\ \A q \in 1..NumRepos : issues[q] = IF q = r THEN rows ELSE run.issues[q]
  BY <1>1, <1>8, IssueParts, IssueChanged
<1>12. comments \in IssueTables(SUBSET Nat) /\ \A q \in 1..NumRepos : comments[q] = IF q = r THEN said ELSE run.comments[q]
  BY <1>1, <1>9, IssueParts, IssueChanged
<1>. HIDE DEF cursor, issues, comments
<1>13. IssueTypes'
  <2>1. run' \in IssueRuns
    BY <1>7, <1>10, <1>11, <1>12, IssueParts DEF IssueRuns
  <2>. QED
    BY <1>1, <2>1 DEF IssueTypes
<1>14. \A q \in 1..NumRepos : \A i \in IssuesOf(q) : Issues!Said(q, i)' = Issues!Said(q, i) /\ IssueStored(q, i)' = IssueStored(q, i)
  BY <1>1 DEF IssueStored, Issues!Said
<1>15. IssueRows'
  <2>1. ASSUME NEW q \in 1..NumRepos, NEW i \in IssuesOf(q)
        PROVE  issues[q][i] <= world.updated[q][i] /\ comments[q][i] \subseteq Issues!Said(q, i)
    <3>1. world.updated[q][i] \in Nat /\ run.issues[q][i] <= world.updated[q][i] /\ run.comments[q][i] \subseteq Issues!Said(q, i)
      BY IssueNumbers DEF IssueRows
    <3>2. CASE q = r /\ i \in page
      BY <1>8, <1>9, <1>11, <1>12, <3>1, <3>2
    <3>3. CASE ~ (q = r /\ i \in page)
      <4>1. issues[q][i] = run.issues[q][i] /\ comments[q][i] = run.comments[q][i]
        BY <1>8, <1>9, <1>11, <1>12, <3>3
      <4>. QED
        BY <3>1, <4>1
    <3>. QED
      BY <3>2, <3>3
  <2>2. \A q \in 1..NumRepos : \E i \in IssuesOf(q) : cursor[q] <= world.updated[q][i]
    BY <1>5, <1>10 DEF IssueRows
  <2>3. /\ \E b \in Nat : \A q \in 1..NumRepos : \A i \in IssuesOf(q) : world.updated[q][i] <= b
        /\ \A q \in 1..NumRepos :
             /\ \E i \in IssuesOf(q) : disk.marks[q] <= world.updated[q][i]
             /\ \A i \in IssuesOf(q) :
                  /\ disk.issues[q][i] <= world.updated[q][i] /\ run.before[q][i] <= world.updated[q][i]
                  /\ disk.comments[q][i] \subseteq Issues!Said(q, i)
    BY DEF IssueRows
  <2>4. /\ run'.pc = "collect" /\ run'.cursor = cursor /\ run'.issues = issues /\ run'.comments = comments
        /\ run'.before = run.before
    BY <1>7
  <2>5. world' = world /\ disk' = disk
    BY <1>1
  <2>6. ASSUME NEW q \in 1..NumRepos, NEW i \in IssuesOf(q)
        PROVE  /\ disk'.issues[q][i] <= world'.updated[q][i] /\ run'.issues[q][i] <= world'.updated[q][i]
               /\ run'.before[q][i] <= world'.updated[q][i]
               /\ disk'.comments[q][i] \subseteq Issues!Said(q, i)' /\ run'.comments[q][i] \subseteq Issues!Said(q, i)'
    BY <1>14, <2>1, <2>3, <2>4, <2>5
  <2>7. \A q \in 1..NumRepos : /\ \E i \in IssuesOf(q) : disk'.marks[q] <= world'.updated[q][i]
                               /\ \E i \in IssuesOf(q) : run'.cursor[q] <= world'.updated[q][i]
    BY <2>2, <2>3, <2>4, <2>5
  <2>8. \E b \in Nat : \A q \in 1..NumRepos : \A i \in IssuesOf(q) : world'.updated[q][i] <= b
    BY <2>3, <2>5
  <2>9. run'.pc \notin {"comments", "mark", "good"}
    BY <2>4
  <2>. QED
    BY <2>6, <2>7, <2>8, <2>9 DEF IssueRows
<1>16. IssueBehind'
  <2>1. ASSUME NEW q \in 1..NumRepos, NEW i \in IssuesOf(q), world.updated[q][i] > 0, world.updated[q][i] <= cursor[q]
        PROVE  world.updated[q][i] <= disk.marks[q] \/ IssueInHand(q, i)'
    <3>1. IssueInHand(q, i)' = (/\ AuthorOf[q][i] \notin Bots => issues[q][i] = world.updated[q][i]
                                /\ Issues!Said(q, i) \subseteq comments[q][i])
      BY <1>1, <1>7, <1>14 DEF IssueInHand
    <3>2. CASE q = r /\ i \in page
      BY <1>8, <1>9, <1>11, <1>12, <3>1, <3>2
    <3>3. CASE ~ (q = r /\ i \in page)
      <4>1. issues[q][i] = run.issues[q][i] /\ comments[q][i] = run.comments[q][i]
        BY <1>8, <1>9, <1>11, <1>12, <3>3
      <4>2. world.updated[q][i] <= run.cursor[q]
        BY <1>5, <1>10, <2>1, <3>3
      <4>3. world.updated[q][i] <= disk.marks[q] \/ IssueInHand(q, i)
        BY <2>1, <4>2 DEF IssueBehind
      <4>. QED
        BY <3>1, <4>1, <4>3 DEF IssueInHand
    <3>. QED
      BY <3>2, <3>3
  <2>. QED
    BY <1>1, <1>7, <1>14, <2>1 DEF IssueBehind
<1>17. IssueWell'
  <2>1. ASSUME NEW q \in 1..NumRepos, NEW i \in IssuesOf(q), AuthorOf[q][i] \notin Bots
        PROVE  run.issues[q][i] <= issues[q][i]
    <3>1. world.updated[q][i] \in Nat /\ run.issues[q][i] \in Nat /\ run.issues[q][i] <= world.updated[q][i]
      BY IssueNumbers DEF IssueRows
    <3>. QED
      BY <1>8, <1>11, <2>1, <3>1
  <2>2. ASSUME NEW q \in 1..NumRepos, NEW i \in IssuesOf(q), AuthorOf[q][i] \notin Bots,
               run.outcome[q] = "ok" \/ (q = r /\ verdict = "ok")
        PROVE  run.before[q][i] <= disk.issues[q][i] \/ run.before[q][i] <= issues[q][i]
    <3>1. /\ world.updated[q][i] \in Nat /\ run.before[q][i] \in Nat /\ disk.issues[q][i] \in Nat /\ run.issues[q][i] \in Nat
          /\ issues[q][i] \in Nat
      BY <1>11, IssueNumbers, IssueEntry
    <3>2. CASE run.outcome[q] = "ok"
      <4>1. run.before[q][i] <= disk.issues[q][i] \/ run.before[q][i] <= run.issues[q][i]
        BY <2>2, <3>2 DEF IssueWell
      <4>. QED
        BY <2>1, <2>2, <3>1, <4>1
    <3>3. CASE q = r /\ verdict = "ok"
      <4>1. world.updated[q][i] <= cursor[q]
        BY <1>4, <1>5, <1>10, <3>1, <3>3
      <4>2. run.before[q][i] <= world.updated[q][i]
        BY DEF IssueRows
      <4>3. CASE world.updated[q][i] = 0
        BY <3>1, <4>2, <4>3
      <4>4. CASE world.updated[q][i] > 0
        <5>1. world.updated[q][i] <= disk.marks[q] => disk.issues[q][i] = world.updated[q][i]
          BY <2>2, <4>4 DEF IssueBehind, IssueStored
        <5>2. IssueInHand(q, i)' => issues[q][i] = world.updated[q][i]
          BY <1>1, <1>7, <2>2 DEF IssueInHand
        <5>3. world.updated[q][i] <= disk.marks[q] \/ IssueInHand(q, i)'
          BY <1>1, <1>7, <1>16, <4>1, <4>4 DEF IssueBehind
        <5>. QED
          BY <4>2, <5>1, <5>2, <5>3
      <4>. QED
        BY <3>1, <4>3, <4>4
    <3>. QED
      BY <2>2, <3>2, <3>3
  <2>. QED
    BY <1>1, <1>7, <2>2 DEF IssueWell
<1>. QED
  BY <1>13, <1>15, <1>16, <1>17
-----------------------------------------------------------------------------
(* Readers have the newer of what two nights have written of an issue.     *)
LEMMA IssueWriteIssues ==
  ASSUME IssueConstants, IssueInv, Issues!WriteIssues
  PROVE  /\ IssueInv'
         /\ \A r \in 1..NumRepos : \A i \in IssuesOf(r) : disk.issues[r][i] <= disk'.issues[r][i]
<1>. USE DEF IssueInv
<1>. DEFINE rows == [r \in 1..NumRepos |-> [i \in IssuesOf(r) |-> Issues!Max({disk.issues[r][i], run.issues[r][i]})]]
<1>1. run.pc = "collect" /\ UNCHANGED <<faults, world>>
  BY DEF Issues!WriteIssues, Issues!Step
<1>2. run' = [pc |-> "comments", repo |-> run.repo, cursor |-> run.cursor, issues |-> run.issues, comments |-> run.comments,
              outcome |-> run.outcome, left |-> run.left, before |-> run.before]
  BY IssueParts DEF Issues!WriteIssues, Issues!Step
<1>3. disk' = [issues |-> rows, comments |-> disk.comments, marks |-> disk.marks, good |-> disk.good]
  <2>1. disk' = [disk EXCEPT !.issues = rows]
    BY DEF Issues!WriteIssues, Issues!Repos, Issues!Issues, IssuesOf
  <2>. HIDE DEF rows
  <2>. QED
    BY <2>1, IssueParts
<1>4. ASSUME NEW r \in 1..NumRepos, NEW i \in IssuesOf(r)
      PROVE  /\ rows[r][i] \in Nat /\ rows[r][i] \in {disk.issues[r][i], run.issues[r][i]}
             /\ disk.issues[r][i] <= rows[r][i] /\ run.issues[r][i] <= rows[r][i]
  <2>. DEFINE a == disk.issues[r][i]
              b == run.issues[r][i]
  <2>1. a \in Nat /\ b \in Nat
    BY IssueNumbers
  <2>2. rows[r][i] = Issues!Max({a, b})
    OBVIOUS
  <2>. HIDE DEF a, b, rows
  <2>3. \E x \in {a, b} : \A y \in {a, b} : x >= y
    BY <2>1
  <2>4. Issues!Max({a, b}) \in {a, b} /\ \A y \in {a, b} : Issues!Max({a, b}) >= y
    BY <2>3 DEF Issues!Max
  <2>5. rows[r][i] \in Nat /\ rows[r][i] \in {a, b} /\ a <= rows[r][i] /\ b <= rows[r][i]
    BY <2>1, <2>2, <2>4
  <2>. QED
    BY <2>5 DEF a, b
<1>5. rows \in IssueTables(Nat)
  <2>1. DOMAIN rows = 1..NumRepos /\ rows = [r \in 1..NumRepos |-> rows[r]]
    OBVIOUS
  <2>2. \A r \in 1..NumRepos : rows[r] \in [IssuesOf(r) -> Nat]
    BY <1>4
  <2>. HIDE DEF rows
  <2>. QED
    BY <2>1, <2>2, IssueTable
<1>. HIDE DEF rows
<1>6. IssueTypes'
  <2>1. run' \in IssueRuns
    BY <1>2, IssueParts DEF IssueRuns
  <2>2. disk' \in [issues : IssueTables(Nat), comments : IssueTables(SUBSET Nat), marks : [1..NumRepos -> Nat],
                   good : {"none", "ok", "partial"}]
    BY <1>3, <1>5, IssueParts
  <2>. QED
    BY <1>1, <2>1, <2>2 DEF IssueTypes
<1>7. \A r \in 1..NumRepos : \A i \in IssuesOf(r) : Issues!Said(r, i)' = Issues!Said(r, i)
  BY <1>1 DEF Issues!Said
<1>8. \A r \in 1..NumRepos : \A i \in IssuesOf(r) : rows[r][i] <= world.updated[r][i]
  BY <1>4 DEF IssueRows
<1>9. IssueRows'
  <2>1. /\ \E b \in Nat : \A r \in 1..NumRepos : \A i \in IssuesOf(r) : world.updated[r][i] <= b
        /\ \A r \in 1..NumRepos :
             /\ \E i \in IssuesOf(r) : disk.marks[r] <= world.updated[r][i]
             /\ \E i \in IssuesOf(r) : run.cursor[r] <= world.updated[r][i]
             /\ \A i \in IssuesOf(r) :
                  /\ run.issues[r][i] <= world.updated[r][i] /\ run.before[r][i] <= world.updated[r][i]
                  /\ disk.comments[r][i] \subseteq Issues!Said(r, i) /\ run.comments[r][i] \subseteq Issues!Said(r, i)
    BY DEF IssueRows
  <2>. QED
    BY <1>1, <1>2, <1>3, <1>4, <1>7, <1>8, <2>1 DEF IssueRows
<1>10. IssueBehind'
  <2>1. ASSUME NEW r \in 1..NumRepos, NEW i \in IssuesOf(r), IssueStored(r, i)
        PROVE  IssueStored(r, i)'
    <3>1. AuthorOf[r][i] \notin Bots => rows[r][i] = world.updated[r][i]
      <4>1. AuthorOf[r][i] \notin Bots => disk.issues[r][i] = world.updated[r][i]
        BY <2>1 DEF IssueStored
      <4>2. rows[r][i] \in Nat /\ disk.issues[r][i] <= rows[r][i] /\ rows[r][i] <= world.updated[r][i]
        BY <1>4, <1>8
      <4>3. disk.issues[r][i] \in Nat /\ world.updated[r][i] \in Nat
        BY IssueNumbers
      <4>. QED
        BY <4>1, <4>2, <4>3
    <3>. QED
      BY <1>1, <1>3, <1>7, <2>1, <3>1 DEF IssueStored
  <2>2. \A r \in 1..NumRepos : \A i \in IssuesOf(r) : IssueInHand(r, i) => IssueInHand(r, i)'
    BY <1>1, <1>2, <1>7 DEF IssueInHand
  <2>. QED
    BY <1>1, <1>2, <1>3, <2>1, <2>2 DEF IssueBehind
<1>11. IssueWell'
  <2>1. ASSUME NEW r \in 1..NumRepos, NEW i \in IssuesOf(r), run.before[r][i] <= disk.issues[r][i]
        PROVE  run.before[r][i] <= rows[r][i]
    <3>1. run.before[r][i] \in Nat /\ disk.issues[r][i] \in Nat
      BY IssueNumbers
    <3>. QED
      BY <1>4, <2>1, <3>1
  <2>. QED
    BY <1>2, <1>3, <2>1 DEF IssueWell
<1>12. \A r \in 1..NumRepos : \A i \in IssuesOf(r) : disk.issues[r][i] <= disk'.issues[r][i]
  BY <1>3, <1>4
<1>. QED
  BY <1>6, <1>9, <1>10, <1>11, <1>12

LEMMA IssueWriteComments ==
  ASSUME IssueConstants, IssueInv, Issues!WriteComments
  PROVE  IssueInv' /\ disk'.issues = disk.issues
<1>. USE DEF IssueInv
<1>. DEFINE rows == [r \in 1..NumRepos |-> [i \in IssuesOf(r) |-> disk.comments[r][i] \cup run.comments[r][i]]]
<1>1. run.pc = "comments" /\ UNCHANGED <<faults, world>>
  BY DEF Issues!WriteComments, Issues!Step
<1>2. run' = [pc |-> "mark", repo |-> run.repo, cursor |-> run.cursor, issues |-> run.issues, comments |-> run.comments,
              outcome |-> run.outcome, left |-> run.left, before |-> run.before]
  BY IssueParts DEF Issues!WriteComments, Issues!Step
<1>3. disk' = [issues |-> disk.issues, comments |-> rows, marks |-> disk.marks, good |-> disk.good]
  <2>1. disk' = [disk EXCEPT !.comments = rows]
    BY DEF Issues!WriteComments, Issues!Repos, Issues!Issues, IssuesOf
  <2>. HIDE DEF rows
  <2>. QED
    BY <2>1, IssueParts
<1>4. \A r \in 1..NumRepos : \A i \in IssuesOf(r) : rows[r][i] = disk.comments[r][i] \cup run.comments[r][i]
  OBVIOUS
<1>5. rows \in IssueTables(SUBSET Nat)
  <2>1. DOMAIN rows = 1..NumRepos /\ rows = [r \in 1..NumRepos |-> rows[r]]
    OBVIOUS
  <2>2. \A r \in 1..NumRepos : \A i \in IssuesOf(r) : disk.comments[r][i] \in SUBSET Nat /\ run.comments[r][i] \in SUBSET Nat
    BY IssueParts, IssueEntry
  <2>3. \A r \in 1..NumRepos : rows[r] \in [IssuesOf(r) -> SUBSET Nat]
    BY <2>2
  <2>. HIDE DEF rows
  <2>. QED
    BY <2>1, <2>3, IssueTable
<1>. HIDE DEF rows
<1>6. IssueTypes'
  <2>1. run' \in IssueRuns
    BY <1>2, IssueParts DEF IssueRuns
  <2>2. disk' \in [issues : IssueTables(Nat), comments : IssueTables(SUBSET Nat), marks : [1..NumRepos -> Nat],
                   good : {"none", "ok", "partial"}]
    BY <1>3, <1>5, IssueParts
  <2>. QED
    BY <1>1, <2>1, <2>2 DEF IssueTypes
<1>7. \A r \in 1..NumRepos : \A i \in IssuesOf(r) : Issues!Said(r, i)' = Issues!Said(r, i)
  BY <1>1 DEF Issues!Said
<1>8. IssueRows'
  BY <1>1, <1>2, <1>3, <1>4, <1>7 DEF IssueRows
<1>9. IssueBehind'
  <2>1. \A r \in 1..NumRepos : \A i \in IssuesOf(r) : (IssueStored(r, i) => IssueStored(r, i)') /\ (IssueInHand(r, i) => IssueInHand(r, i)')
    BY <1>1, <1>2, <1>3, <1>4, <1>7 DEF IssueStored, IssueInHand
  <2>. QED
    BY <1>1, <1>2, <1>3, <2>1 DEF IssueBehind
<1>10. IssueWell'
  BY <1>2, <1>3 DEF IssueWell
<1>. QED
  BY <1>3, <1>6, <1>8, <1>9, <1>10

(* The watermark takes the cursors, and vouches for what is on disk now.   *)
LEMMA IssueWriteMarks ==
  ASSUME IssueConstants, IssueInv, Issues!WriteMarks
  PROVE  IssueInv' /\ disk'.issues = disk.issues
<1>. USE DEF IssueInv
<1>1. run.pc = "mark" /\ UNCHANGED <<faults, world>>
  BY DEF Issues!WriteMarks, Issues!Step
<1>2. run' = [pc |-> "good", repo |-> run.repo, cursor |-> run.cursor, issues |-> run.issues, comments |-> run.comments,
              outcome |-> run.outcome, left |-> run.left, before |-> run.before]
  BY IssueParts DEF Issues!WriteMarks, Issues!Step
<1>3. disk' = [issues |-> disk.issues, comments |-> disk.comments, marks |-> run.cursor, good |-> disk.good]
  BY IssueParts DEF Issues!WriteMarks
<1>4. IssueTypes'
  <2>1. run' \in IssueRuns
    BY <1>2, IssueParts DEF IssueRuns
  <2>2. disk' \in [issues : IssueTables(Nat), comments : IssueTables(SUBSET Nat), marks : [1..NumRepos -> Nat],
                   good : {"none", "ok", "partial"}]
    BY <1>3, IssueParts
  <2>. QED
    BY <1>1, <2>1, <2>2 DEF IssueTypes
<1>5. \A r \in 1..NumRepos : \A i \in IssuesOf(r) : Issues!Said(r, i)' = Issues!Said(r, i)
  BY <1>1 DEF Issues!Said
<1>6. IssueRows'
  BY <1>1, <1>2, <1>3, <1>5 DEF IssueRows
<1>7. IssueBehind'
  <2>1. ASSUME NEW r \in 1..NumRepos, NEW i \in IssuesOf(r), IssueInHand(r, i)
        PROVE  IssueStored(r, i)
    <3>1. /\ disk.issues[r][i] <= world.updated[r][i] /\ run.issues[r][i] <= disk.issues[r][i]
          /\ run.comments[r][i] \subseteq disk.comments[r][i]
      BY <1>1 DEF IssueRows
    <3>2. disk.issues[r][i] \in Nat /\ world.updated[r][i] \in Nat /\ run.issues[r][i] \in Nat
      BY IssueNumbers
    <3>. QED
      BY <2>1, <3>1, <3>2 DEF IssueStored, IssueInHand
  <2>2. ASSUME NEW r \in 1..NumRepos, NEW i \in IssuesOf(r), world.updated[r][i] > 0, world.updated[r][i] <= run.cursor[r]
        PROVE  IssueStored(r, i)
    BY <2>1, <2>2 DEF IssueBehind
  <2>3. \A r \in 1..NumRepos : \A i \in IssuesOf(r) : IssueStored(r, i)' = IssueStored(r, i)
    BY <1>1, <1>3, <1>5 DEF IssueStored
  <2>. QED
    BY <1>1, <1>2, <1>3, <2>2, <2>3 DEF IssueBehind
<1>8. IssueWell'
  BY <1>2, <1>3 DEF IssueWell
<1>. QED
  BY <1>3, <1>4, <1>6, <1>7, <1>8

-----------------------------------------------------------------------------
(* No step takes a version of an issue back.                               *)
LEMMA IssueStep ==
  ASSUME IssueConstants, IssueInv, [Issues!Next]_(Issues!vars)
  PROVE  /\ IssueInv'
         /\ \A r \in 1..NumRepos : \A i \in IssuesOf(r) : disk.issues[r][i] <= disk'.issues[r][i]
<1>1. \A r \in 1..NumRepos : \A i \in IssuesOf(r) : disk.issues[r][i] <= disk.issues[r][i]
  BY IssueNumbers DEF IssueInv
<1>2. CASE Issues!BeginRun \/ Issues!SkipRepo \/ Issues!StopRepo \/ Issues!FetchPage
  <2>1. disk' = disk
    BY <1>2 DEF Issues!BeginRun, Issues!SkipRepo, Issues!StopRepo, Issues!FetchPage
  <2>. QED
    BY <1>1, <1>2, <2>1, IssueBeginRun, IssueEnd, IssueFetchPage
<1>3. CASE Issues!RecordLastGood \/ Issues!EscapeCollect \/ Issues!Kill
  <2>1. disk'.issues = disk.issues
    <3>1. CASE Issues!RecordLastGood
      <4>1. PICK good : disk' = [disk EXCEPT !.good = good]
        BY <3>1 DEF Issues!RecordLastGood
      <4>. QED
        BY <4>1, IssueParts DEF IssueInv
    <3>2. CASE Issues!EscapeCollect \/ Issues!Kill
      BY <3>2 DEF Issues!EscapeCollect, Issues!Kill
    <3>. QED
      BY <1>3, <3>1, <3>2
  <2>. QED
    BY <1>1, <1>3, <2>1, IssueResetStep
<1>4. CASE Issues!WriteIssues
  BY <1>4, IssueWriteIssues
<1>5. CASE Issues!WriteComments \/ Issues!WriteMarks
  <2>1. IssueInv' /\ disk'.issues = disk.issues
    BY <1>5, IssueWriteComments, IssueWriteMarks
  <2>. QED
    BY <1>1, <2>1
<1>6. CASE \E r \in Issues!Repos : \E i \in Issues!Issues(r) :
             Issues!Update(r, i) \/ \E login \in Commenters : Issues!Comment(r, i, login)
  <2>1. PICK r \in 1..NumRepos : \E i \in IssuesOf(r) :
                 Issues!Update(r, i) \/ \E login \in Commenters : Issues!Comment(r, i, login)
    BY <1>6 DEF Issues!Repos, Issues!Issues, IssuesOf
  <2>2. PICK i \in IssuesOf(r) : Issues!Update(r, i) \/ \E login \in Commenters : Issues!Comment(r, i, login)
    BY <2>1
  <2>3. IssueMoves(r, i)
    BY <2>2, IssueWorldActions
  <2>. QED
    BY <1>1, <2>3, IssueWorldStep DEF IssueMoves
<1>7. CASE UNCHANGED Issues!vars
  <2>1. UNCHANGED <<faults, world, disk, run>>
    BY <1>7 DEF Issues!vars
  <2>2. IssueInv'
    <3>1. \A r \in 1..NumRepos : \A i \in IssuesOf(r) :
            Issues!Said(r, i)' = Issues!Said(r, i) /\ IssueStored(r, i)' = IssueStored(r, i) /\ IssueInHand(r, i)' = IssueInHand(r, i)
      BY <2>1 DEF IssueStored, IssueInHand, Issues!Said
    <3>2. IssueTypes' /\ IssueWell'
      BY <2>1 DEF IssueInv, IssueTypes, IssueWell
    <3>3. IssueRows'
      BY <2>1, <3>1 DEF IssueInv, IssueRows
    <3>4. IssueBehind'
      BY <2>1, <3>1 DEF IssueInv, IssueBehind
    <3>. QED
      BY <3>2, <3>3, <3>4 DEF IssueInv
  <2>. QED
    BY <1>1, <2>1, <2>2
<1>. QED
  BY <1>2, <1>3, <1>4, <1>5, <1>6, <1>7 DEF Issues!Next, Issues!Night

LEMMA IssueInvariant == IssueConstants /\ Issues!Spec => []IssueInv
<1>. SUFFICES ASSUME IssueConstants PROVE Issues!Spec => []IssueInv
  OBVIOUS
<1>1. Issues!Init => IssueInv
  BY IssueInit
<1>2. IssueInv /\ [Issues!Next]_(Issues!vars) => IssueInv'
  BY IssueStep
<1>. QED
  BY <1>1, <1>2, PTL DEF Issues!Spec

(* What a repository's cursor has passed is stored, the issue of a person  *)
(* and what people said on any, although issues are updated and commented  *)
(* on between the pages and nights are cut between the three writes        *)
(* (_collect_github_issues).                                               *)
THEOREM IssuesBehindAreStored ==
  ASSUME IssueConstants
  PROVE  Issues!Spec => []Issues!BehindIsStored
<1>1. IssueInv => Issues!BehindIsStored
  <2>1. SUFFICES ASSUME IssueInv, NEW r \in 1..NumRepos, NEW i \in IssuesOf(r), world.updated[r][i] \in 1..disk.marks[r]
                 PROVE  /\ AuthorOf[r][i] \notin Bots => disk.issues[r][i] = world.updated[r][i]
                        /\ disk.comments[r][i] = Issues!Said(r, i)
    BY DEF Issues!BehindIsStored, Issues!Repos, Issues!Issues, IssuesOf
  <2>2. world.updated[r][i] > 0 /\ world.updated[r][i] <= disk.marks[r]
    BY <2>1, IssueNumbers DEF IssueInv
  <2>3. IssueStored(r, i) /\ disk.comments[r][i] \subseteq Issues!Said(r, i)
    BY <2>1, <2>2 DEF IssueInv, IssueBehind, IssueRows
  <2>. QED
    BY <2>3 DEF IssueStored
<1>. QED
  BY <1>1, IssueInvariant, PTL

(* A night that reports ok has stored each person's issue as it was when   *)
(* the night began, or newer, in every repository.                         *)
THEOREM IssuesOkIsCollected ==
  ASSUME IssueConstants
  PROVE  Issues!Spec => []Issues!OkMeansCollected
<1>1. IssueInv => Issues!OkMeansCollected
  <2>1. SUFFICES ASSUME IssueInv, run.pc = "good", Issues!Status = "ok",
                        NEW r \in 1..NumRepos, NEW i \in IssuesOf(r), AuthorOf[r][i] \notin Bots
                 PROVE  disk.issues[r][i] >= run.before[r][i]
    BY DEF Issues!OkMeansCollected, Issues!Repos, Issues!Issues, IssuesOf
  <2>2. run.outcome[r] = "ok"
    BY <2>1 DEF Issues!Status, Issues!Repos
  <2>3. run.before[r][i] <= disk.issues[r][i] \/ run.before[r][i] <= run.issues[r][i]
    BY <2>1, <2>2 DEF IssueInv, IssueWell
  <2>4. run.issues[r][i] <= disk.issues[r][i]
    BY <2>1 DEF IssueInv, IssueRows
  <2>5. run.before[r][i] \in Nat /\ disk.issues[r][i] \in Nat /\ run.issues[r][i] \in Nat
    BY <2>1, IssueNumbers DEF IssueInv
  <2>. QED
    BY <2>3, <2>4, <2>5
<1>. QED
  BY <1>1, IssueInvariant, PTL

(* The issues of GitHub are an at-least-once feed of the versions of       *)
(* people's issues.                                                        *)
THEOREM IssuesAreAFeed ==
  ASSUME IssueConstants, MaxUpdates \in Nat
  PROVE  Issues!Spec => Issues!Feed!FeedSpec
<1>. DEFINE delivered == {v \in Issues!Versions : disk.issues[v[1]][v[2]] >= v[3]}
            settled == {v \in Issues!Versions : v[3] <= world.updated[v[1]][v[2]]
                                                  /\ world.updated[v[1]][v[2]] <= disk.marks[v[1]]}
<1>1. Issues!Init => IssueInv
  BY IssueInit
<1>2. \A v \in Issues!Versions :
        v[1] \in 1..NumRepos /\ v[2] \in IssuesOf(v[1]) /\ v[3] \in Nat /\ v[3] > 0 /\ AuthorOf[v[1]][v[2]] \notin Bots
  <2>1. \A n \in (0..MaxUpdates) \ {0} : n \in Nat /\ n > 0
    OBVIOUS
  <2>. QED
    BY <2>1 DEF Issues!Versions, Issues!Repos, Issues!Issues, IssuesOf, Issues!Times
<1>3. IssueInv => settled \subseteq delivered
  <2>1. SUFFICES ASSUME IssueInv, NEW v \in Issues!Versions, v[3] <= world.updated[v[1]][v[2]],
                        world.updated[v[1]][v[2]] <= disk.marks[v[1]]
                 PROVE  disk.issues[v[1]][v[2]] >= v[3]
    OBVIOUS
  <2>2. v[1] \in 1..NumRepos /\ v[2] \in IssuesOf(v[1]) /\ v[3] \in Nat /\ v[3] > 0 /\ AuthorOf[v[1]][v[2]] \notin Bots
    BY <1>2
  <2>3. world.updated[v[1]][v[2]] \in Nat
    BY <2>1, <2>2, IssueNumbers DEF IssueInv
  <2>4. world.updated[v[1]][v[2]] > 0
    BY <2>1, <2>2, <2>3
  <2>5. disk.issues[v[1]][v[2]] = world.updated[v[1]][v[2]]
    BY <2>1, <2>2, <2>4 DEF IssueInv, IssueBehind, IssueStored
  <2>. QED
    BY <2>1, <2>2, <2>3, <2>5
<1>4. IssueInv' => (settled \subseteq delivered)'
  BY <1>3, PTL
<1>5. IssueInv /\ [Issues!Next]_(Issues!vars) => IssueInv' /\ delivered \subseteq delivered'
  <2>1. SUFFICES ASSUME IssueInv, [Issues!Next]_(Issues!vars)
                 PROVE  IssueInv' /\ delivered \subseteq delivered'
    OBVIOUS
  <2>2. IssueInv' /\ \A r \in 1..NumRepos : \A i \in IssuesOf(r) : disk.issues[r][i] <= disk'.issues[r][i]
    BY <2>1, IssueStep
  <2>3. ASSUME NEW v \in Issues!Versions, disk.issues[v[1]][v[2]] >= v[3]
        PROVE  disk'.issues[v[1]][v[2]] >= v[3]
    <3>1. v[1] \in 1..NumRepos /\ v[2] \in IssuesOf(v[1]) /\ v[3] \in Nat
      BY <1>2
    <3>2. disk.issues[v[1]][v[2]] \in Nat /\ disk.issues[v[1]][v[2]] <= disk'.issues[v[1]][v[2]]
      BY <2>1, <2>2, <3>1, IssueNumbers DEF IssueInv
    <3>3. disk'.issues \in IssueTables(Nat)
      BY <2>2 DEF IssueInv, IssueTypes
    <3>4. disk'.issues[v[1]][v[2]] \in Nat
      BY <3>1, <3>3, IssueEntry
    <3>. QED
      BY <2>3, <3>1, <3>2, <3>4
  <2>4. Issues!Versions' = Issues!Versions
    BY DEF Issues!Versions, Issues!Repos, Issues!Issues, Issues!Times
  <2>. QED
    BY <2>2, <2>3, <2>4
<1>6. IssueInv => Issues!Feed!FeedInit
  <2>1. settled \subseteq delivered /\ delivered \subseteq Issues!Versions => Issues!Feed!FeedInit
    BY DEF Issues!Feed!FeedInit
  <2>. QED
    BY <1>3, <2>1
<1>7. IssueInv /\ IssueInv' /\ [Issues!Next]_(Issues!vars) => [Issues!Feed!Deliver]_(Issues!Feed!feed)
  <2>1. delivered \subseteq delivered' /\ (settled \subseteq delivered)' => Issues!Feed!Deliver
    BY DEF Issues!Feed!Deliver, Issues!Versions, Issues!Repos, Issues!Issues, Issues!Times
  <2>. QED
    BY <1>4, <1>5, <2>1
<1>. QED
  BY <1>1, <1>5, <1>6, <1>7, PTL DEF Issues!Spec, Issues!Feed!FeedSpec

=============================================================================
