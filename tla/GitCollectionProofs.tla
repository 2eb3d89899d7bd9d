------------------------ MODULE GitCollectionProofs ------------------------
(***************************************************************************)
(* Proofs about GitCollection for every branch length, parser history,     *)
(* fault budget and fault kind.                                            *)
(***************************************************************************)
EXTENDS GitCollection, TLAPS

-----------------------------------------------------------------------------
(* The inductive invariant: what the locals of _collect_git mean while the *)
(* night is between its first partition and its last marker.               *)

ToWatermark     == {"contribution_event", "file_change_event", "review_event",
                    "watermark"}
ToFileWatermark == ToWatermark \cup {"file_watermark"}
AfterWatermark  == {"file_watermark", "last_good", "check_parser", "reparse",
                    "marker"}

(* The walks start where the watermarks still stand. *)
WalkFromWatermark ==
  /\ pc \in ToWatermark => walk.from = data.watermark
  /\ pc \in ToFileWatermark => walk.fileFrom = data.fileWatermark

(* Once its partition is written, a table holds everything up to the ref. *)
WrittenUpToRef ==
  /\ pc \in (ToWatermark \cup AfterWatermark) \ {"contribution_event"}
       => Behind(walk.to) \subseteq Collected(data.contributions)
  /\ pc \in {"review_event", "watermark", "file_watermark"}
       => Behind(walk.to) \subseteq Collected(data.fileChanges)

(* The clone does not move under the walk, and the watermark ends on it. *)
RefIsStable ==
  /\ pc \in ToWatermark \cup AfterWatermark => ResolveRef(workdir) = walk.to
  /\ pc \in AfterWatermark => data.watermark = walk.to

(* Commits of S that the deployed parser credits are credited by it. *)
CreditedNow(S) == S \cap Credited[parser] \subseteq Collected(data.reviews[parser])

CreditsUpToRef ==
  /\ pc \in {"watermark"} \cup AfterWatermark => CreditedNow(Walked(walk.from, walk.to))
  /\ pc = "marker" => CreditedNow(Behind(walk.to))

MarkersBehindParser == data.marker <= parser /\ branch.marker <= parser

GitInv == /\ TypeOK
          /\ NothingLost /\ FileHistoryKept /\ LastGoodTrustworthy
          /\ WalkFromWatermark /\ WrittenUpToRef

CreditInv == /\ RefIsStable /\ CreditsUpToRef /\ MarkersBehindParser
             /\ CorrectionsReplace

-----------------------------------------------------------------------------
(* Lemmas about the operators of the model.                                *)

(* write_partition only adds rows, and adds one for every commit of S. *)
LEMMA AppendedRows ==
  ASSUME NEW rows \in Rows, NEW S
  PROVE  /\ Appended(rows, S) \in Rows
         /\ Collected(rows) \subseteq Collected(Appended(rows, S))
         /\ S \cap Commits \subseteq Collected(Appended(rows, S))
<1>1. \A c \in Commits : rows[c] \in 0..MaxCopies
  BY DEF Rows
<1>2. MaxCopies \in Nat /\ MaxCopies > 0
  BY GitAssumption
<1>3. \A c \in Commits :
        /\ Appended(rows, S)[c] \in 0..MaxCopies
        /\ rows[c] > 0 => Appended(rows, S)[c] > 0
        /\ c \in S => Appended(rows, S)[c] > 0
  BY <1>1, <1>2 DEF Appended
<1>4. Appended(rows, S) \in Rows
  BY <1>3 DEF Appended, Rows
<1>. QED
  BY <1>3, <1>4 DEF Collected

(* A walk from an old position to a ref reaches all there is behind it. *)
LEMMA WalkReaches ==
  ASSUME NEW from \in Position, NEW to \in Position
  PROVE  /\ Behind(to) \subseteq Behind(from) \cup Walked(from, to)
         /\ Walked(from, to) \subseteq Commits
         /\ Behind(to) \subseteq Commits
         /\ from = 0 => Walked(from, to) = Behind(to)
BY GitAssumption DEF Behind, Walked, Position, Commits

LEMMA ResolvedRef ==
  ASSUME NEW clone \in Clone
  PROVE  ResolveRef(clone) \in Position
BY DEF ResolveRef, Clone

LEMMA CloneTyped ==
  ASSUME NEW clone \in Clone, upstream \in Commits
  PROVE  CloneOrFetch(clone) \in Clone
BY GitAssumption DEF CloneOrFetch, Clone, NoClone, Position, Commits

LEMMA EmptyHistory == Behind(0) = {}
BY DEF Behind, Walked

-----------------------------------------------------------------------------
(* The first state.                                                        *)

LEMMA LegacyStoreTyped ==
  ASSUME NEW n \in Position
  PROVE  LegacyStore(n) \in Store
<1>1. \A S : OneRowEach(S) \in Rows
  BY GitAssumption DEF OneRowEach, Rows
<1>. QED
  BY <1>1, GitAssumption DEF LegacyStore, Store, Position

LEMMA LegacyStoreCovered ==
  ASSUME NEW n \in Position
  PROVE  LET store == LegacyStore(n)
         IN  /\ Behind(store.watermark) \subseteq Collected(store.contributions)
             /\ Behind(store.fileWatermark) \subseteq Collected(store.fileChanges)
             /\ Behind(store.lastGood) \subseteq Collected(store.contributions)
<1>1. Behind(n) \subseteq Collected(OneRowEach(Walked(0, n)))
  BY WalkReaches DEF Behind, Collected, OneRowEach
<1>. QED
  BY <1>1, EmptyHistory DEF LegacyStore

LEMMA InitGitInv == Init => GitInv
<1>. SUFFICES ASSUME Init PROVE GitInv
  OBVIOUS
<1>1. PICK n \in 0..upstream : data = LegacyStore(n)
  BY DEF Init
<1>2. n \in Position
  BY <1>1, GitAssumption DEF Init, Commits, Position
<1>3. TypeOK
  BY <1>1, <1>2, LegacyStoreTyped, GitAssumption
  DEF Init, TypeOK, Clone, NoClone, Position, Walks
<1>4. NothingLost /\ FileHistoryKept /\ LastGoodTrustworthy
  BY <1>1, <1>2, LegacyStoreCovered
  DEF Init, NothingLost, FileHistoryKept, LastGoodTrustworthy, Stores
<1>5. WalkFromWatermark /\ WrittenUpToRef
  BY DEF Init, WalkFromWatermark, WrittenUpToRef, ToWatermark,
         ToFileWatermark, AfterWatermark
<1>. QED
  BY <1>3, <1>4, <1>5 DEF GitInv

-----------------------------------------------------------------------------
(* Every step keeps the invariant.                                         *)

LEMMA NextTypeOK == TypeOK /\ [Next]_vars => TypeOK'
<1>. SUFFICES ASSUME TypeOK, [Next]_vars
              PROVE  TypeOK'
  OBVIOUS
<1>. USE DEF TypeOK
<1>0. /\ data.contributions \in Rows /\ data.fileChanges \in Rows
      /\ data.reviews \in [Parsers -> Rows] /\ data.reviews[parser] \in Rows
      /\ data.watermark \in Position /\ data.fileWatermark \in Position
      /\ walk.to \in Position /\ ResolveRef(workdir) \in Position
      /\ parser \in 0..MaxParser
  BY ResolvedRef, GitAssumption DEF Store, Walks, Parsers
<1>1. CASE Push
  BY <1>1, GitAssumption DEF Push, Commits
<1>2. CASE ReleaseParser
  BY <1>2, GitAssumption DEF ReleaseParser, Parsers
<1>3. CASE EvictCache
  BY <1>3, GitAssumption DEF EvictCache, Fault, Clone, NoClone, Position
<1>4. CASE BeginNight
  BY <1>4, GitAssumption
  DEF BeginNight, Fault, Goto, Clone, NoClone, Position, Collecting
<1>5. CASE Acquire
  BY <1>5, CloneTyped DEF Acquire, Goto, Collecting
<1>6. CASE Walk
  BY <1>6, <1>0 DEF Walk, Goto, Collecting, Walks
<1>7. CASE WriteContributions
  <2>1. data' \in Store
    BY <1>7, <1>0, AppendedRows DEF WriteContributions, Store
  <2>. QED
    BY <1>7, <2>1 DEF WriteContributions, Goto, Collecting
<1>8. CASE WriteFileChanges
  <2>1. data' \in Store
    BY <1>8, <1>0, AppendedRows DEF WriteFileChanges, Store
  <2>. QED
    BY <1>8, <2>1 DEF WriteFileChanges, Goto, Collecting
<1>9. CASE WriteReviews
  <2>1. data' \in Store
    BY <1>9, <1>0, AppendedRows DEF WriteReviews, Store
  <2>. QED
    BY <1>9, <2>1 DEF WriteReviews, Goto, Collecting
<1>10. CASE AdvanceWatermark
  BY <1>10, <1>0 DEF AdvanceWatermark, Goto, Collecting, Store
<1>11. CASE AdvanceFileWatermark
  BY <1>11, <1>0 DEF AdvanceFileWatermark, Goto, Collecting, Store
<1>12. CASE RecordLastGood
  BY <1>12, <1>0 DEF RecordLastGood, Goto, Collecting, Store
<1>13. CASE SkipReparse
  BY <1>13, <1>0 DEF SkipReparse, Goto, Collecting, Store
<1>14. CASE StartReparse
  BY <1>14 DEF StartReparse, Goto, Collecting
<1>15. CASE WriteReparse
  <2>1. data' \in Store
    BY <1>15, <1>0, AppendedRows DEF WriteReparse, Store
  <2>. QED
    BY <1>15, <2>1 DEF WriteReparse, Goto, Collecting
<1>16. CASE WriteMarker
  BY <1>16, <1>0 DEF WriteMarker, Goto, Collecting, Store
<1>17. CASE Publish
  BY <1>17, GitAssumption DEF Publish, Goto, Clone, NoClone, Position
<1>18. CASE \E kind \in DOMAIN Strikes : Interrupt(kind)
  BY <1>18, GitAssumption DEF Interrupt, Fault
<1>19. CASE LoseJob
  BY <1>19, GitAssumption DEF LoseJob, Fault, Clone, NoClone, Position
<1>20. CASE UNCHANGED vars
  BY <1>20 DEF vars
<1>. QED
  BY <1>1, <1>2, <1>3, <1>4, <1>5, <1>6, <1>7, <1>8, <1>9, <1>10, <1>11,
     <1>12, <1>13, <1>14, <1>15, <1>16, <1>17, <1>18, <1>19, <1>20
  DEF Next, Night

(* TypeOK is an invariant: every watermark names a commit of the branch,   *)
(* every night is at a step of the workflow, whatever the bounds are.      *)
THEOREM TypeCorrect == Spec => []TypeOK
<1>1. Init => TypeOK
  BY InitGitInv DEF GitInv
<1>. QED
  BY <1>1, NextTypeOK, PTL DEF Spec

-----------------------------------------------------------------------------
(* The safety half of the invariant.                                       *)

Covered(store) ==
  /\ Behind(store.watermark) \subseteq Collected(store.contributions)
  /\ Behind(store.fileWatermark) \subseteq Collected(store.fileChanges)
  /\ Behind(store.lastGood) \subseteq Collected(store.contributions)

LEMMA CoveredStores ==
  (NothingLost /\ FileHistoryKept /\ LastGoodTrustworthy)
    <=> (Covered(data) /\ Covered(branch))
BY DEF NothingLost, FileHistoryKept, LastGoodTrustworthy, Stores, Covered

(* A step that leaves the store and the walk alone keeps the invariant if   *)
(* it moves to a step of the workflow where the walk still means the same.  *)
LEMMA NextGitInv == GitInv /\ [Next]_vars => GitInv'
<1>. SUFFICES ASSUME GitInv, [Next]_vars
              PROVE  GitInv'
  OBVIOUS
<1>0. /\ TypeOK
      /\ Covered(data) /\ Covered(branch)
      /\ WalkFromWatermark
      /\ WrittenUpToRef
  BY CoveredStores DEF GitInv
<1>t. TypeOK'
  BY <1>0, NextTypeOK
<1>f. /\ data.contributions \in Rows /\ data.fileChanges \in Rows
      /\ data \in Store /\ walk \in Walks
      /\ data.watermark \in Position /\ data.fileWatermark \in Position
      /\ walk.from \in Position /\ walk.fileFrom \in Position
      /\ walk.to \in Position
  BY <1>0 DEF TypeOK, Store, Walks
<1>s. SUFFICES Covered(data)' /\ Covered(branch)'
               /\ WalkFromWatermark' /\ WrittenUpToRef'
  BY <1>t, CoveredStores, PTL DEF GitInv
<1>. USE DEF ToWatermark, ToFileWatermark, AfterWatermark
<1>1. CASE /\ data' = data /\ branch' = branch /\ walk' = walk
           /\ pc' \in {pc, "idle", "finished", "acquire", "walk"}
  BY <1>1, <1>0
  DEF Covered, WalkFromWatermark, WrittenUpToRef
<1>2. CASE BeginNight \/ LoseJob
  BY <1>2, <1>0
  DEF BeginNight, LoseJob, Goto, Covered, WalkFromWatermark, WrittenUpToRef
<1>3. CASE Publish
  BY <1>3, <1>0
  DEF Publish, Goto, Covered, WalkFromWatermark, WrittenUpToRef
<1>4. CASE Walk
  BY <1>4, <1>0
  DEF Walk, Goto, Covered, WalkFromWatermark, WrittenUpToRef
<1>5. CASE WriteContributions
  <2>. DEFINE S == Walked(walk.from, walk.to)
  <2>1. /\ data'.contributions = Appended(data.contributions, S)
        /\ data'.fileChanges = data.fileChanges
        /\ data'.watermark = data.watermark
        /\ data'.fileWatermark = data.fileWatermark
        /\ data'.lastGood = data.lastGood
    BY <1>5, <1>f DEF WriteContributions, Store
  <2>2. /\ Collected(data.contributions) \subseteq Collected(data'.contributions)
        /\ S \subseteq Collected(data'.contributions)
    BY <2>1, <1>f, AppendedRows, WalkReaches
  <2>3. Behind(walk.to) \subseteq Collected(data'.contributions)
    <3>1. Behind(data.watermark) \subseteq Collected(data.contributions)
      BY <1>0 DEF Covered
    <3>2. walk.from = data.watermark
      BY <1>5, <1>0 DEF WriteContributions, Goto, WalkFromWatermark
    <3>. QED
      BY <2>2, <3>1, <3>2, <1>f, WalkReaches
  <2>4. Covered(data')
    BY <2>1, <2>2, <1>0 DEF Covered
  <2>. QED
    BY <1>5, <2>1, <2>3, <2>4, <1>0
    DEF WriteContributions, Goto, Covered, WalkFromWatermark, WrittenUpToRef
<1>6. CASE WriteFileChanges
  <2>. DEFINE S == Walked(walk.fileFrom, walk.to)
  <2>1. /\ data'.fileChanges = Appended(data.fileChanges, S)
        /\ data'.contributions = data.contributions
        /\ data'.watermark = data.watermark
        /\ data'.fileWatermark = data.fileWatermark
        /\ data'.lastGood = data.lastGood
    BY <1>6, <1>f DEF WriteFileChanges, Store
  <2>2. /\ Collected(data.fileChanges) \subseteq Collected(data'.fileChanges)
        /\ S \subseteq Collected(data'.fileChanges)
    BY <2>1, <1>f, AppendedRows, WalkReaches
  <2>3. Behind(walk.to) \subseteq Collected(data'.fileChanges)
    <3>1. Behind(data.fileWatermark) \subseteq Collected(data.fileChanges)
      BY <1>0 DEF Covered
    <3>2. walk.fileFrom = data.fileWatermark
      BY <1>6, <1>0 DEF WriteFileChanges, Goto, WalkFromWatermark
    <3>. QED
      BY <2>2, <3>1, <3>2, <1>f, WalkReaches
  <2>4. Covered(data')
    BY <2>1, <2>2, <1>0 DEF Covered
  <2>. QED
    BY <1>6, <2>1, <2>3, <2>4, <1>0
    DEF WriteFileChanges, Goto, Covered, WalkFromWatermark, WrittenUpToRef
<1>7. ASSUME \/ Goto("review_event", "watermark")
             \/ Goto("check_parser", "finished")
             \/ Goto("check_parser", "reparse")
             \/ Goto("reparse", "marker")
             \/ Goto("marker", "finished"),
             branch' = branch, walk' = walk,
             /\ data'.contributions = data.contributions
             /\ data'.fileChanges = data.fileChanges
             /\ data'.watermark = data.watermark
             /\ data'.fileWatermark = data.fileWatermark
             /\ data'.lastGood = data.lastGood
      PROVE  Covered(data)' /\ Covered(branch)'
             /\ WalkFromWatermark' /\ WrittenUpToRef'
  BY <1>7, <1>0 DEF Goto, Covered, WalkFromWatermark, WrittenUpToRef
<1>8. CASE WriteReviews
  BY <1>8, <1>7, <1>f DEF WriteReviews, Store
<1>9. CASE SkipReparse
  BY <1>9, <1>7, <1>f DEF SkipReparse, Store
<1>10. CASE StartReparse
  BY <1>10, <1>7, <1>f DEF StartReparse, Store
<1>11. CASE WriteReparse
  BY <1>11, <1>7, <1>f DEF WriteReparse, Store
<1>12. CASE WriteMarker
  BY <1>12, <1>7, <1>f DEF WriteMarker, Store
<1>13. CASE AdvanceWatermark
  <2>1. /\ data'.contributions = data.contributions
        /\ data'.fileChanges = data.fileChanges
        /\ data'.watermark = walk.to
        /\ data'.fileWatermark = data.fileWatermark
        /\ data'.lastGood = data.lastGood
    BY <1>13, <1>f DEF AdvanceWatermark, Store
  <2>. QED
    BY <1>13, <2>1, <1>0
    DEF AdvanceWatermark, Goto, Covered, WalkFromWatermark, WrittenUpToRef
<1>14. CASE AdvanceFileWatermark
  <2>1. /\ data'.contributions = data.contributions
        /\ data'.fileChanges = data.fileChanges
        /\ data'.watermark = data.watermark
        /\ data'.fileWatermark = walk.to
        /\ data'.lastGood = data.lastGood
    BY <1>14, <1>f DEF AdvanceFileWatermark, Store
  <2>. QED
    BY <1>14, <2>1, <1>0
    DEF AdvanceFileWatermark, Goto, Covered, WalkFromWatermark, WrittenUpToRef
<1>15. CASE RecordLastGood
  <2>1. /\ data'.contributions = data.contributions
        /\ data'.fileChanges = data.fileChanges
        /\ data'.watermark = data.watermark
        /\ data'.fileWatermark = data.fileWatermark
        /\ data'.lastGood = walk.to
    BY <1>15, <1>f DEF RecordLastGood, Store
  <2>. QED
    BY <1>15, <2>1, <1>0
    DEF RecordLastGood, Goto, Covered, WalkFromWatermark, WrittenUpToRef
<1>16. CASE Push \/ ReleaseParser \/ EvictCache \/ UNCHANGED vars
  BY <1>16, <1>1 DEF Push, ReleaseParser, EvictCache, vars
<1>17. CASE Acquire
  BY <1>17, <1>1 DEF Acquire, Goto
<1>18. CASE \E kind \in DOMAIN Strikes : Interrupt(kind)
  BY <1>18, <1>1 DEF Interrupt
<1>. QED
  BY <1>2, <1>3, <1>4, <1>5, <1>6, <1>8, <1>9, <1>10, <1>11, <1>12, <1>13,
     <1>14, <1>15, <1>16, <1>17, <1>18 DEF Next, Night

(* No interruption at any step of any night, no lost job and no cache      *)
(* accident makes a watermark claim a commit whose row is missing, in      *)
(* contribution_event or in file_change_event, and the last good run's     *)
(* commits are in the store.                                               *)
THEOREM WatermarksAreCovered ==
  Spec => []WatermarksCovered
<1>1. GitInv => WatermarksCovered
  BY DEF GitInv, WatermarksCovered
<1>. QED
  BY <1>1, InitGitInv, NextGitInv, PTL DEF Spec

-----------------------------------------------------------------------------
(* The reviewer credits.                                                   *)

CorrectedIn(store) ==
  \A c \in Behind(store.watermark) :
    (store.marker > 0 /\ \A v \in Parsers : v >= store.marker => c \in Credited[v])
      => \E v \in Parsers : v >= store.marker /\ store.reviews[v][c] > 0

LEMMA CorrectedStores ==
  CorrectionsReplace <=> (CorrectedIn(data) /\ CorrectedIn(branch))
BY DEF CorrectionsReplace, CorrectedIn, Stores

LEMMA InitCreditInv == Init => CreditInv
<1>. SUFFICES ASSUME Init PROVE CreditInv
  OBVIOUS
<1>1. data.marker = 0 /\ branch.marker = 0
  BY DEF Init, LegacyStore
<1>2. CorrectionsReplace
  BY <1>1, CorrectedStores DEF CorrectedIn
<1>3. MarkersBehindParser
  BY <1>1, GitAssumption DEF Init, MarkersBehindParser, Parsers
<1>. QED
  BY <1>2, <1>3
  DEF Init, CreditInv, RefIsStable, CreditsUpToRef, ToWatermark, AfterWatermark

(* A partition of review_event written at the deployed parser's version     *)
(* takes no credit away and adds those of the commits walked.               *)
LEMMA MoreCredits ==
  ASSUME TypeOK, NEW S \in SUBSET Commits,
         data' = [data EXCEPT !.reviews[parser] =
                    Appended(@, S \cap Credited[parser])]
  PROVE  /\ data'.watermark = data.watermark
         /\ data'.marker = data.marker
         /\ \A v \in Parsers, c \in Commits :
              data.reviews[v][c] > 0 => data'.reviews[v][c] > 0
         /\ \A c \in S \cap Credited[parser] : data'.reviews[parser][c] > 0
<1>1. /\ data \in Store /\ parser \in Parsers
      /\ data.reviews \in [Parsers -> Rows] /\ data.reviews[parser] \in Rows
  BY DEF TypeOK, Store
<1>2. /\ data'.reviews[parser] =
           Appended(data.reviews[parser], S \cap Credited[parser])
      /\ \A v \in Parsers : v # parser => data'.reviews[v] = data.reviews[v]
      /\ data'.watermark = data.watermark /\ data'.marker = data.marker
  BY <1>1 DEF Store
<1>3. /\ Collected(data.reviews[parser]) \subseteq Collected(data'.reviews[parser])
      /\ S \cap Credited[parser] \subseteq Collected(data'.reviews[parser])
  BY <1>1, <1>2, AppendedRows
<1>. QED
  BY <1>1, <1>2, <1>3 DEF Collected

LEMMA NextCreditInv == GitInv /\ CreditInv /\ [Next]_vars => CreditInv'
<1>. SUFFICES ASSUME GitInv, CreditInv, [Next]_vars
              PROVE  CreditInv'
  OBVIOUS
<1>0. /\ TypeOK /\ WalkFromWatermark
      /\ RefIsStable /\ CreditsUpToRef /\ MarkersBehindParser
      /\ CorrectedIn(data) /\ CorrectedIn(branch)
  BY CorrectedStores DEF GitInv, CreditInv
<1>f. /\ data \in Store /\ branch \in Store /\ walk \in Walks
      /\ parser \in Parsers /\ parser \in Nat
      /\ data.marker \in Nat /\ branch.marker \in Nat
      /\ walk.from \in Position /\ walk.to \in Position
      /\ data.watermark \in Position
  BY <1>0, GitAssumption DEF TypeOK, Store, Walks, Parsers
<1>s. SUFFICES /\ RefIsStable' /\ CreditsUpToRef' /\ MarkersBehindParser'
               /\ CorrectedIn(data)' /\ CorrectedIn(branch)'
  BY CorrectedStores, PTL DEF CreditInv
<1>. USE DEF ToWatermark, AfterWatermark, CreditedNow
<1>1. ASSUME data' = data, branch' = branch, parser' = parser,
             pc' \in {"idle", "finished", "acquire", "walk"}
      PROVE  /\ RefIsStable' /\ CreditsUpToRef' /\ MarkersBehindParser'
             /\ CorrectedIn(data)' /\ CorrectedIn(branch)'
  BY <1>0, <1>1
  DEF RefIsStable, CreditsUpToRef, MarkersBehindParser, CorrectedIn
<1>2. CASE Push \/ EvictCache \/ UNCHANGED vars
  BY <1>0, <1>2
  DEF Push, EvictCache, vars, RefIsStable, CreditsUpToRef,
      MarkersBehindParser, CorrectedIn
<1>3. CASE ReleaseParser
  BY <1>0, <1>3, <1>f
  DEF ReleaseParser, RefIsStable, CreditsUpToRef, MarkersBehindParser,
      CorrectedIn
<1>4. CASE BeginNight \/ LoseJob
  BY <1>0, <1>4
  DEF BeginNight, LoseJob, Goto, RefIsStable, CreditsUpToRef,
      MarkersBehindParser, CorrectedIn
<1>5. CASE Publish
  BY <1>0, <1>5
  DEF Publish, Goto, RefIsStable, CreditsUpToRef, MarkersBehindParser,
      CorrectedIn
<1>6. CASE Acquire \/ \E kind \in DOMAIN Strikes : Interrupt(kind)
  BY <1>1, <1>6 DEF Acquire, Interrupt, Goto
<1>7. CASE Walk
  BY <1>0, <1>7
  DEF Walk, Goto, RefIsStable, CreditsUpToRef, MarkersBehindParser,
      CorrectedIn
<1>8. ASSUME \/ Goto("contribution_event", "file_change_event")
             \/ Goto("file_change_event", "review_event")
             \/ Goto("file_watermark", "last_good")
             \/ Goto("last_good", "check_parser")
             \/ Goto("check_parser", "reparse"),
             parser' = parser, branch' = branch, walk' = walk,
             workdir' = workdir,
             /\ data'.reviews = data.reviews
             /\ data'.watermark = data.watermark
             /\ data'.marker = data.marker
      PROVE  /\ RefIsStable' /\ CreditsUpToRef' /\ MarkersBehindParser'
             /\ CorrectedIn(data)' /\ CorrectedIn(branch)'
  BY <1>0, <1>8
  DEF Goto, RefIsStable, CreditsUpToRef, MarkersBehindParser, CorrectedIn
<1>9. CASE WriteContributions
  BY <1>8, <1>9, <1>f DEF WriteContributions, Store
<1>10. CASE WriteFileChanges
  BY <1>8, <1>10, <1>f DEF WriteFileChanges, Store
<1>11. CASE AdvanceFileWatermark
  BY <1>8, <1>11, <1>f DEF AdvanceFileWatermark, Store
<1>12. CASE RecordLastGood
  BY <1>8, <1>12, <1>f DEF RecordLastGood, Store
<1>13. CASE StartReparse
  BY <1>8, <1>13, <1>f DEF StartReparse
<1>14. CASE WriteReviews
  <2>. DEFINE S == Walked(walk.from, walk.to)
  <2>1. /\ data'.watermark = data.watermark
        /\ data'.marker = data.marker
        /\ \A v \in Parsers, c \in Commits :
             data.reviews[v][c] > 0 => data'.reviews[v][c] > 0
        /\ \A c \in S \cap Credited[parser] : data'.reviews[parser][c] > 0
    <3>1. S \in SUBSET Commits
      BY <1>f, WalkReaches
    <3>. QED
      BY <3>1, <1>0, <1>14, MoreCredits DEF WriteReviews
  <2>2. S \subseteq Commits /\ Behind(data.watermark) \subseteq Commits
    BY <1>f, WalkReaches
  <2>3. CorrectedIn(data')
    BY <2>1, <2>2, <1>0 DEF CorrectedIn
  <2>4. CreditsUpToRef'
    BY <1>14, <2>1, <2>2
    DEF WriteReviews, Goto, CreditsUpToRef, Collected
  <2>. QED
    BY <1>14, <2>1, <2>3, <2>4, <1>0
    DEF WriteReviews, Goto, RefIsStable, MarkersBehindParser, CorrectedIn
<1>15. CASE AdvanceWatermark
  <2>1. /\ data'.watermark = walk.to
        /\ data'.marker = data.marker
        /\ data'.reviews = data.reviews
    BY <1>15, <1>f DEF AdvanceWatermark, Store
  <2>2. walk.from = data.watermark
    BY <1>15, <1>0 DEF AdvanceWatermark, Goto, WalkFromWatermark
  <2>3. CreditedNow(Walked(walk.from, walk.to))
    BY <1>15, <1>0 DEF AdvanceWatermark, Goto, CreditsUpToRef
  <2>4. CorrectedIn(data')
    <3>. SUFFICES ASSUME NEW c \in Behind(walk.to), data.marker > 0,
                         \A v \in Parsers : v >= data.marker => c \in Credited[v]
                  PROVE  \E v \in Parsers :
                           v >= data.marker /\ data.reviews[v][c] > 0
      BY <2>1 DEF CorrectedIn
    <3>1. CASE c \in Behind(data.watermark)
      BY <3>1, <1>0 DEF CorrectedIn
    <3>2. CASE c \in Walked(walk.from, walk.to)
      <4>1. parser >= data.marker
        BY <1>0, <1>f DEF MarkersBehindParser
      <4>. QED
        BY <4>1, <3>2, <2>3, <1>f DEF Collected
    <3>. QED
      BY <3>1, <3>2, <2>2, <1>f, WalkReaches
  <2>. QED
    BY <1>15, <2>1, <2>4, <1>0
    DEF AdvanceWatermark, Goto, RefIsStable, CreditsUpToRef,
        MarkersBehindParser, CorrectedIn
<1>16. CASE WriteReparse
  <2>. DEFINE S == Behind(walk.to)
  <2>1. data' = [data EXCEPT !.reviews[parser] =
                   Appended(@, S \cap Credited[parser])]
    BY <1>16, <1>0 DEF WriteReparse, Goto, RefIsStable, Behind
  <2>2. S \subseteq Commits /\ Behind(data.watermark) \subseteq Commits
        /\ Walked(walk.from, walk.to) \subseteq Commits
    BY <1>f, WalkReaches
  <2>3. /\ data'.watermark = data.watermark
        /\ data'.marker = data.marker
        /\ \A v \in Parsers, c \in Commits :
             data.reviews[v][c] > 0 => data'.reviews[v][c] > 0
        /\ \A c \in S \cap Credited[parser] : data'.reviews[parser][c] > 0
    BY <2>1, <2>2, <1>0, MoreCredits
  <2>4. CorrectedIn(data')
    BY <2>2, <2>3, <1>0 DEF CorrectedIn
  <2>5. CreditsUpToRef'
    BY <1>16, <2>2, <2>3, <1>0, <1>f
    DEF WriteReparse, Goto, CreditsUpToRef, Collected
  <2>. QED
    BY <1>16, <2>3, <2>4, <2>5, <1>0
    DEF WriteReparse, Goto, RefIsStable, MarkersBehindParser, CorrectedIn
<1>17. ASSUME \/ Goto("check_parser", "finished") \/ Goto("marker", "finished"),
              parser' = parser, branch' = branch,
              data' = [data EXCEPT !.marker = parser],
              \/ data.marker = parser
              \/ CreditedNow(Behind(walk.to)) /\ data.watermark = walk.to
       PROVE  /\ RefIsStable' /\ CreditsUpToRef' /\ MarkersBehindParser'
              /\ CorrectedIn(data)' /\ CorrectedIn(branch)'
  <2>1. /\ data'.watermark = data.watermark
        /\ data'.marker = parser
        /\ data'.reviews = data.reviews
    BY <1>17, <1>f DEF Store
  <2>2. CorrectedIn(data')
    <3>1. CASE data.marker = parser
      BY <3>1, <2>1, <1>0 DEF CorrectedIn
    <3>2. CASE CreditedNow(Behind(walk.to)) /\ data.watermark = walk.to
      BY <3>2, <2>1, <1>f DEF CorrectedIn, Collected
    <3>. QED
      BY <3>1, <3>2, <1>17
  <2>. QED
    BY <1>17, <2>1, <2>2, <1>0, <1>f
    DEF Goto, RefIsStable, CreditsUpToRef, MarkersBehindParser, CorrectedIn
<1>18. CASE SkipReparse
  <2>1. CASE data.marker = parser
    BY <1>18, <1>17, <2>1 DEF SkipReparse
  <2>2. CASE walk.from = 0
    <3>1. CreditedNow(Behind(walk.to)) /\ data.watermark = walk.to
      BY <1>18, <2>2, <1>0, <1>f, WalkReaches
      DEF SkipReparse, Goto, RefIsStable, CreditsUpToRef
    <3>. QED
      BY <1>18, <1>17, <3>1 DEF SkipReparse
  <2>. QED
    BY <1>18, <2>1, <2>2 DEF SkipReparse
<1>19. CASE WriteMarker
  <2>1. CreditedNow(Behind(walk.to)) /\ data.watermark = walk.to
    BY <1>19, <1>0 DEF WriteMarker, Goto, RefIsStable, CreditsUpToRef
  <2>. QED
    BY <1>19, <1>17, <2>1 DEF WriteMarker
<1>. QED
  BY <1>2, <1>3, <1>4, <1>5, <1>6, <1>7, <1>9, <1>10, <1>11, <1>12, <1>13,
     <1>14, <1>15, <1>16, <1>18, <1>19 DEF Next, Night

(* Whatever is interrupted and however often the parser changes, once the  *)
(* marker names a parser version every commit behind the watermark is read *)
(* at that version or a later one.                                         *)
THEOREM CorrectionsAlwaysReplace == Spec => []CorrectionsReplace
<1>1. Init => GitInv /\ CreditInv
  BY InitGitInv, InitCreditInv
<1>2. (GitInv /\ CreditInv) /\ [Next]_vars => (GitInv /\ CreditInv)'
  BY NextGitInv, NextCreditInv
<1>3. CreditInv => CorrectionsReplace
  BY DEF CreditInv
<1>. QED
  BY <1>1, <1>2, <1>3, PTL DEF Spec

-----------------------------------------------------------------------------
(* Collecting once.                                                        *)

NothingCut == env.faults \cap {"write_error", "timeout", "cache_miss"} = {}

(* One row at most of each commit, and none beyond the position. *)
OnceUpTo(rows, position) ==
  \A c \in Commits : rows[c] <= 1 /\ (rows[c] > 0 => c <= position)

(* Between a table's partition and its watermark it reaches to the ref. *)
ContributionsOnce ==
  /\ OnceUpTo(branch.contributions, branch.watermark)
  /\ OnceUpTo(data.contributions,
              IF pc \in {"file_change_event", "review_event", "watermark"}
                THEN walk.to ELSE data.watermark)

FileChangesOnce ==
  /\ OnceUpTo(branch.fileChanges, branch.fileWatermark)
  /\ OnceUpTo(data.fileChanges,
              IF pc \in {"review_event", "watermark", "file_watermark"}
                THEN walk.to ELSE data.fileWatermark)

NotBehind(position, store) ==
  store.watermark <= position /\ store.fileWatermark <= position

(* A clone's local branch, which its walks go to, is not behind what was    *)
(* collected: it never moves, and a newer clone replaces only an evicted    *)
(* one.                                                                     *)
UsableClone(clone) ==
  /\ clone.local <= upstream /\ clone.remote <= upstream
  /\ (clone # NoClone /\ env.defaultIsHead) =>
        clone.local > 0 /\ NotBehind(clone.local, data) /\ NotBehind(clone.local, branch)
  /\ ~env.defaultIsHead => clone.local = 0

ClonesUsable ==
  /\ NotBehind(upstream, data) /\ NotBehind(upstream, branch)
  /\ UsableClone(cache) /\ UsableClone(workdir)
  /\ (pc # "idle" /\ cache # NoClone) =>
        workdir # NoClone /\ (env.defaultIsHead => workdir.local = cache.local)

RefNotBehind ==
  pc \in {"walk"} \cup ToWatermark \cup AfterWatermark =>
    workdir # NoClone /\ NotBehind(ResolveRef(workdir), data)

OnceInv == NothingCut =>
             /\ ClonesUsable /\ RefNotBehind
             /\ ContributionsOnce /\ FileChangesOnce

(* Walking from where the rows end adds one row of each commit walked. *)
LEMMA OnceAppended ==
  ASSUME NEW rows \in Rows, NEW from \in Position, NEW to \in Position,
         OnceUpTo(rows, from), from <= to
  PROVE  OnceUpTo(Appended(rows, Walked(from, to)), to)
<1>. SUFFICES ASSUME NEW c \in Commits
              PROVE  /\ Appended(rows, Walked(from, to))[c] <= 1
                     /\ Appended(rows, Walked(from, to))[c] > 0 => c <= to
  BY DEF OnceUpTo
<1>1. rows[c] \in 0..MaxCopies /\ c \in Nat /\ from \in Nat /\ to \in Nat
      /\ MaxCopies \in Nat
  BY GitAssumption DEF Rows, Commits, Position
<1>2. rows[c] <= 1 /\ (rows[c] > 0 => c <= from)
  BY DEF OnceUpTo
<1>3. CASE c \in Walked(from, to)
  <2>1. from < c /\ c <= to
    BY <1>1, <1>3 DEF Walked
  <2>2. rows[c] = 0
    BY <1>1, <1>2, <2>1
  <2>. QED
    BY <1>1, <1>3, <2>1, <2>2 DEF Appended
<1>4. CASE c \notin Walked(from, to)
  BY <1>1, <1>2, <1>4 DEF Appended
<1>. QED
  BY <1>3, <1>4

LEMMA InitOnceInv == Init => OnceInv
<1>. SUFFICES ASSUME Init
              PROVE  /\ ClonesUsable /\ RefNotBehind
                     /\ ContributionsOnce /\ FileChangesOnce
  BY DEF OnceInv
<1>1. PICK n \in 0..upstream : data = LegacyStore(n)
  BY DEF Init
<1>2. /\ pc = "idle" /\ branch = data /\ cache = NoClone /\ workdir = NoClone
      /\ upstream \in Nat /\ n \in Nat /\ n <= upstream
  BY <1>1, GitAssumption DEF Init, Commits
<1>3. /\ data.watermark = n /\ data.fileWatermark = 0
      /\ data.contributions = OneRowEach(Walked(0, n))
      /\ data.fileChanges = OneRowEach({})
  BY <1>1 DEF LegacyStore
<1>4. ClonesUsable /\ RefNotBehind
  BY <1>2, <1>3
  DEF ClonesUsable, RefNotBehind, NotBehind, UsableClone, NoClone, ToWatermark,
      AfterWatermark
<1>5. OnceUpTo(OneRowEach(Walked(0, n)), n) /\ OnceUpTo(OneRowEach({}), 0)
  BY <1>2 DEF OnceUpTo, OneRowEach, Walked, Commits
<1>. QED
  BY <1>2, <1>3, <1>4, <1>5 DEF ContributionsOnce, FileChangesOnce

(* Where an interruption strikes while nothing is cut. *)
LEMMA GentleInterrupt ==
  ASSUME NothingCut, NEW kind \in DOMAIN Strikes, Interrupt(kind)
  PROVE  /\ pc \in {"acquire", "walk", "reparse", "marker"} /\ pc' = "finished"
         /\ UNCHANGED <<upstream, cache, workdir, parser, data, branch, walk, env>>
BY DEF NothingCut, Strikes, Interrupt, Fault

LEMMA NextClones ==
  ASSUME GitInv, CreditInv, OnceInv, [Next]_vars, NothingCut, NothingCut'
  PROVE  ClonesUsable' /\ RefNotBehind'
<1>0. /\ ClonesUsable /\ RefNotBehind /\ RefIsStable
  BY DEF OnceInv, CreditInv
<1>f. /\ data \in Store /\ branch \in Store /\ walk \in Walks
      /\ cache \in Clone /\ workdir \in Clone
      /\ upstream \in Commits /\ upstream \in Nat /\ upstream > 0
      /\ data.watermark \in Nat /\ data.fileWatermark \in Nat
      /\ branch.watermark \in Nat /\ branch.fileWatermark \in Nat
      /\ cache.local \in Nat /\ cache.remote \in Nat
      /\ workdir.local \in Nat /\ workdir.remote \in Nat
      /\ walk.to \in Nat
  BY GitAssumption DEF GitInv, TypeOK, Store, Clone, Walks, Position, Commits
<1>. USE DEF ToWatermark, AfterWatermark, NotBehind
<1>1. ASSUME upstream' \in Nat, upstream' >= upstream, cache' \in {cache, NoClone},
             workdir' = workdir, env' = env, branch' = branch,
             data'.watermark = data.watermark, data'.fileWatermark = data.fileWatermark,
             pc # "idle" \/ pc' = "idle",
             \/ pc' \in {pc, "idle", "finished"}
             \/ pc \in {"walk"} \cup ToWatermark \cup AfterWatermark
      PROVE  ClonesUsable' /\ RefNotBehind'
  <2>1. UsableClone(cache)' /\ UsableClone(workdir)'
    BY <1>0, <1>1, <1>f DEF ClonesUsable, UsableClone, NoClone
  <2>2. ClonesUsable'
    BY <1>0, <1>1, <1>f, <2>1 DEF ClonesUsable
  <2>. QED
    BY <1>0, <1>1, <2>2 DEF RefNotBehind, ResolveRef
<1>2. CASE Push \/ ReleaseParser \/ EvictCache \/ UNCHANGED vars
  BY <1>1, <1>2, <1>f DEF Push, ReleaseParser, EvictCache, vars
<1>3. CASE BeginNight
  <2>1. /\ data' = branch /\ workdir' = cache /\ pc' = "acquire"
        /\ UNCHANGED <<upstream, cache, branch, env>>
    BY <1>3 DEF BeginNight, Goto, Fault, NothingCut
  <2>. QED
    BY <1>0, <2>1 DEF ClonesUsable, UsableClone, RefNotBehind
<1>4. CASE Acquire
  <2>1. /\ pc = "acquire" /\ pc' = "walk" /\ workdir' = CloneOrFetch(workdir)
        /\ UNCHANGED <<upstream, cache, data, branch, env>>
    BY <1>4 DEF Acquire, Goto
  <2>2. /\ workdir'.remote = upstream
        /\ IF env.defaultIsHead
             THEN workdir'.local = IF workdir = NoClone THEN upstream ELSE workdir.local
             ELSE workdir'.local = 0
    BY <1>0, <1>f, <2>1 DEF CloneOrFetch, ClonesUsable, UsableClone, Clone
  <2>3. workdir' # NoClone
    BY <1>f, <2>2 DEF NoClone
  <2>4. UsableClone(cache)' /\ UsableClone(workdir)'
    BY <1>0, <1>f, <2>1, <2>2 DEF ClonesUsable, UsableClone
  <2>5. ClonesUsable'
    BY <1>0, <1>f, <2>1, <2>2, <2>3, <2>4 DEF ClonesUsable
  <2>6. NotBehind(ResolveRef(workdir), data)'
    BY <1>0, <1>f, <2>1, <2>2, <2>3, <2>4 DEF ClonesUsable, UsableClone, ResolveRef
  <2>. QED
    BY <2>3, <2>5, <2>6 DEF RefNotBehind
<1>5. CASE Walk \/ WriteContributions \/ WriteFileChanges \/ WriteReviews
           \/ RecordLastGood \/ SkipReparse \/ StartReparse \/ WriteReparse
           \/ WriteMarker
  <2>1. /\ data'.watermark = data.watermark
        /\ data'.fileWatermark = data.fileWatermark
        /\ UNCHANGED <<upstream, cache, workdir, branch, env>>
        /\ pc \in {"walk"} \cup ToWatermark \cup AfterWatermark
    BY <1>5, <1>f
    DEF Walk, WriteContributions, WriteFileChanges, WriteReviews, RecordLastGood,
        SkipReparse, StartReparse, WriteReparse, WriteMarker, Goto, Store
  <2>. QED
    BY <1>1, <1>f, <2>1
<1>6. CASE AdvanceWatermark \/ AdvanceFileWatermark
  <2>1. /\ data'.watermark \in {data.watermark, walk.to}
        /\ data'.fileWatermark \in {data.fileWatermark, walk.to}
        /\ UNCHANGED <<upstream, cache, workdir, branch, env>>
        /\ pc \in {"watermark", "file_watermark"}
    BY <1>6, <1>f DEF AdvanceWatermark, AdvanceFileWatermark, Goto, Store
  <2>2. walk.to = ResolveRef(workdir) /\ workdir # NoClone
        /\ NotBehind(ResolveRef(workdir), data)
    BY <1>0, <2>1 DEF RefIsStable, RefNotBehind
  <2>3. NotBehind(ResolveRef(workdir), data)' /\ walk.to <= upstream
    BY <1>0, <1>f, <2>1, <2>2 DEF ResolveRef, ClonesUsable, UsableClone
  <2>4. env.defaultIsHead => walk.to = workdir.local
    BY <1>0, <2>2 DEF ResolveRef, ClonesUsable, UsableClone
  <2>5. UsableClone(workdir)'
    BY <1>0, <1>f, <2>1, <2>2, <2>4 DEF ClonesUsable, UsableClone
  <2>6. UsableClone(cache)'
    BY <1>0, <1>f, <2>1, <2>2, <2>4 DEF ClonesUsable, UsableClone
  <2>7. ClonesUsable'
    BY <1>0, <1>f, <2>1, <2>2, <2>3, <2>5, <2>6 DEF ClonesUsable
  <2>. QED
    BY <2>1, <2>2, <2>3, <2>7 DEF RefNotBehind
<1>7. CASE Publish
  <2>1. /\ branch' = data /\ data' = data /\ cache' \in {cache, workdir}
        /\ workdir' = NoClone /\ pc' = "idle" /\ UNCHANGED <<upstream, env>>
    BY <1>7 DEF Publish, Goto
  <2>2. UsableClone(cache)' /\ UsableClone(workdir)'
    BY <1>0, <1>f, <2>1 DEF ClonesUsable, UsableClone, NoClone
  <2>. QED
    BY <1>0, <2>1, <2>2 DEF ClonesUsable, RefNotBehind
<1>8. CASE \E kind \in DOMAIN Strikes : Interrupt(kind)
  BY <1>1, <1>8, <1>f, GentleInterrupt
<1>9. CASE LoseJob
  <2>1. /\ branch' = branch /\ data' = branch /\ cache' = cache
        /\ workdir' = NoClone /\ pc' = "idle" /\ UNCHANGED <<upstream, env>>
    BY <1>9 DEF LoseJob
  <2>2. UsableClone(cache)' /\ UsableClone(workdir)'
    BY <1>0, <1>f, <2>1 DEF ClonesUsable, UsableClone, NoClone
  <2>. QED
    BY <1>0, <2>1, <2>2 DEF ClonesUsable, RefNotBehind
<1>. QED
  BY <1>2, <1>3, <1>4, <1>5, <1>6, <1>7, <1>8, <1>9 DEF Next, Night

LEMMA NextContributionsOnce ==
  ASSUME GitInv, CreditInv, OnceInv, [Next]_vars, NothingCut
  PROVE  ContributionsOnce'
<1>0. /\ ContributionsOnce /\ RefIsStable /\ RefNotBehind /\ WalkFromWatermark
  BY DEF OnceInv, CreditInv, GitInv
<1>f. /\ data \in Store /\ data.contributions \in Rows /\ walk \in Walks
      /\ data.watermark \in Position /\ walk.to \in Position
  BY DEF GitInv, TypeOK, Store, Walks
<1>. USE DEF ToWatermark, ToFileWatermark, AfterWatermark
<1>1. ASSUME branch' = branch, data'.contributions = data.contributions,
             data'.watermark = data.watermark,
             \/ pc' = pc /\ walk' = walk
             \/ pc' \in {"file_change_event", "review_event", "watermark"}
                /\ pc \in {"file_change_event", "review_event", "watermark"}
                /\ walk' = walk
             \/ pc' \notin {"file_change_event", "review_event", "watermark"}
                /\ pc \notin {"file_change_event", "review_event", "watermark"}
      PROVE  ContributionsOnce'
  BY <1>0, <1>1 DEF ContributionsOnce, OnceUpTo
<1>2. CASE Push \/ ReleaseParser \/ EvictCache \/ UNCHANGED vars
  BY <1>1, <1>2 DEF Push, ReleaseParser, EvictCache, vars
<1>3. CASE BeginNight \/ LoseJob
  BY <1>0, <1>3 DEF BeginNight, LoseJob, Goto, ContributionsOnce, OnceUpTo
<1>4. CASE Publish
  BY <1>0, <1>4 DEF Publish, Goto, ContributionsOnce, OnceUpTo
<1>5. CASE WriteContributions
  <2>1. /\ data'.contributions = Appended(data.contributions, Walked(walk.from, walk.to))
        /\ pc = "contribution_event" /\ pc' = "file_change_event"
        /\ walk' = walk /\ branch' = branch
    BY <1>5, <1>f DEF WriteContributions, Goto, Store
  <2>2. walk.from = data.watermark /\ data.watermark <= walk.to
    BY <1>0, <2>1 DEF WalkFromWatermark, RefIsStable, RefNotBehind, NotBehind
  <2>3. OnceUpTo(data.contributions, data.watermark)
    BY <1>0, <2>1 DEF ContributionsOnce
  <2>4. OnceUpTo(data'.contributions, walk.to)
    BY <1>f, <2>1, <2>2, <2>3, OnceAppended
  <2>. QED
    BY <1>0, <2>1, <2>4 DEF ContributionsOnce, OnceUpTo
<1>6. CASE AdvanceWatermark
  <2>1. /\ data'.contributions = data.contributions /\ data'.watermark = walk.to
        /\ pc = "watermark" /\ pc' = "file_watermark" /\ branch' = branch
    BY <1>6, <1>f DEF AdvanceWatermark, Goto, Store
  <2>. QED
    BY <1>0, <2>1 DEF ContributionsOnce, OnceUpTo
<1>7. CASE WriteFileChanges \/ WriteReviews
  <2>1. /\ data'.contributions = data.contributions /\ data'.watermark = data.watermark
        /\ walk' = walk /\ branch' = branch
        /\ pc \in {"file_change_event", "review_event"}
        /\ pc' \in {"review_event", "watermark"}
    BY <1>7, <1>f DEF WriteFileChanges, WriteReviews, Goto, Store
  <2>. QED
    BY <1>1, <2>1
<1>8. CASE Acquire \/ Walk \/ AdvanceFileWatermark \/ RecordLastGood \/ SkipReparse
           \/ StartReparse \/ WriteReparse \/ WriteMarker
  <2>1. /\ data'.contributions = data.contributions /\ data'.watermark = data.watermark
        /\ branch' = branch
        /\ pc \notin {"file_change_event", "review_event", "watermark"}
        /\ pc' \notin {"file_change_event", "review_event", "watermark"}
    BY <1>8, <1>f
    DEF Acquire, Walk, AdvanceFileWatermark, RecordLastGood, SkipReparse,
        StartReparse, WriteReparse, WriteMarker, Goto, Store
  <2>. QED
    BY <1>1, <2>1
<1>9. CASE \E kind \in DOMAIN Strikes : Interrupt(kind)
  BY <1>1, <1>9, GentleInterrupt
<1>. QED
  BY <1>2, <1>3, <1>4, <1>5, <1>6, <1>7, <1>8, <1>9 DEF Next, Night

LEMMA NextFileChangesOnce ==
  ASSUME GitInv, CreditInv, OnceInv, [Next]_vars, NothingCut
  PROVE  FileChangesOnce'
<1>0. /\ FileChangesOnce /\ RefIsStable /\ RefNotBehind /\ WalkFromWatermark
  BY DEF OnceInv, CreditInv, GitInv
<1>f. /\ data \in Store /\ data.fileChanges \in Rows /\ walk \in Walks
      /\ data.fileWatermark \in Position /\ walk.to \in Position
  BY DEF GitInv, TypeOK, Store, Walks
<1>. USE DEF ToWatermark, ToFileWatermark, AfterWatermark
<1>1. ASSUME branch' = branch, data'.fileChanges = data.fileChanges,
             data'.fileWatermark = data.fileWatermark,
             \/ pc' = pc /\ walk' = walk
             \/ pc' \in {"review_event", "watermark", "file_watermark"}
                /\ pc \in {"review_event", "watermark", "file_watermark"}
                /\ walk' = walk
             \/ pc' \notin {"review_event", "watermark", "file_watermark"}
                /\ pc \notin {"review_event", "watermark", "file_watermark"}
      PROVE  FileChangesOnce'
  BY <1>0, <1>1 DEF FileChangesOnce, OnceUpTo
<1>2. CASE Push \/ ReleaseParser \/ EvictCache \/ UNCHANGED vars
  BY <1>1, <1>2 DEF Push, ReleaseParser, EvictCache, vars
<1>3. CASE BeginNight \/ LoseJob
  BY <1>0, <1>3 DEF BeginNight, LoseJob, Goto, FileChangesOnce, OnceUpTo
<1>4. CASE Publish
  BY <1>0, <1>4 DEF Publish, Goto, FileChangesOnce, OnceUpTo
<1>5. CASE WriteFileChanges
  <2>1. /\ data'.fileChanges = Appended(data.fileChanges, Walked(walk.fileFrom, walk.to))
        /\ pc = "file_change_event" /\ pc' = "review_event"
        /\ walk' = walk /\ branch' = branch
    BY <1>5, <1>f DEF WriteFileChanges, Goto, Store
  <2>2. walk.fileFrom = data.fileWatermark /\ data.fileWatermark <= walk.to
    BY <1>0, <2>1 DEF WalkFromWatermark, RefIsStable, RefNotBehind, NotBehind
  <2>3. OnceUpTo(data.fileChanges, data.fileWatermark)
    BY <1>0, <2>1 DEF FileChangesOnce
  <2>4. OnceUpTo(data'.fileChanges, walk.to)
    BY <1>f, <2>1, <2>2, <2>3, OnceAppended
  <2>. QED
    BY <1>0, <2>1, <2>4 DEF FileChangesOnce, OnceUpTo
<1>6. CASE AdvanceFileWatermark
  <2>1. /\ data'.fileChanges = data.fileChanges /\ data'.fileWatermark = walk.to
        /\ pc = "file_watermark" /\ pc' = "last_good" /\ branch' = branch
    BY <1>6, <1>f DEF AdvanceFileWatermark, Goto, Store
  <2>. QED
    BY <1>0, <2>1 DEF FileChangesOnce, OnceUpTo
<1>7. CASE WriteReviews \/ AdvanceWatermark
  <2>1. /\ data'.fileChanges = data.fileChanges
        /\ data'.fileWatermark = data.fileWatermark
        /\ walk' = walk /\ branch' = branch
        /\ pc \in {"review_event", "watermark"}
        /\ pc' \in {"watermark", "file_watermark"}
    BY <1>7, <1>f DEF WriteReviews, AdvanceWatermark, Goto, Store
  <2>. QED
    BY <1>1, <2>1
<1>8. CASE Acquire \/ Walk \/ WriteContributions \/ RecordLastGood \/ SkipReparse
           \/ StartReparse \/ WriteReparse \/ WriteMarker
  <2>1. /\ data'.fileChanges = data.fileChanges
        /\ data'.fileWatermark = data.fileWatermark
        /\ branch' = branch
        /\ pc \notin {"review_event", "watermark", "file_watermark"}
        /\ pc' \notin {"review_event", "watermark", "file_watermark"}
    BY <1>8, <1>f
    DEF Acquire, Walk, WriteContributions, RecordLastGood, SkipReparse,
        StartReparse, WriteReparse, WriteMarker, Goto, Store
  <2>. QED
    BY <1>1, <2>1
<1>9. CASE \E kind \in DOMAIN Strikes : Interrupt(kind)
  BY <1>1, <1>9, GentleInterrupt
<1>. QED
  BY <1>2, <1>3, <1>4, <1>5, <1>6, <1>7, <1>8, <1>9 DEF Next, Night

LEMMA EnvironmentStays == [Next]_vars => env' = env
BY DEF Next, Night, vars, Push, ReleaseParser, EvictCache, BeginNight, Acquire,
       Walk, WriteContributions, WriteFileChanges, WriteReviews,
       AdvanceWatermark, AdvanceFileWatermark, RecordLastGood, SkipReparse,
       StartReparse, WriteReparse, WriteMarker, Publish, Interrupt, LoseJob

(* As long as no night is cut between its first partition and its last     *)
(* watermark and no restored clone is missed, no commit is stored twice,   *)
(* in contribution_event or in file_change_event, whatever else happens.   *)
THEOREM CollectedOnceUnlessCutProved == Spec => []CollectedOnceUnlessCut
<1>. DEFINE Inv == GitInv /\ CreditInv /\ OnceInv
<1>1. Init => Inv
  BY InitGitInv, InitCreditInv, InitOnceInv
<1>2. Inv /\ [Next]_vars => Inv'
  <2>. SUFFICES ASSUME Inv, [Next]_vars PROVE Inv'
    OBVIOUS
  <2>1. GitInv' /\ CreditInv'
    BY NextGitInv, NextCreditInv
  <2>2. ASSUME NothingCut'
        PROVE  ClonesUsable' /\ RefNotBehind' /\ ContributionsOnce' /\ FileChangesOnce'
    <3>1. NothingCut
      BY <2>2, EnvironmentStays DEF NothingCut
    <3>. QED
      BY <2>2, <3>1, NextClones, NextContributionsOnce, NextFileChangesOnce
  <2>3. OnceInv'
    BY <2>2 DEF OnceInv
  <2>. QED
    BY <2>1, <2>3
<1>3. Inv => CollectedOnceUnlessCut
  BY DEF OnceInv, NothingCut, ContributionsOnce, FileChangesOnce, OnceUpTo,
         CollectedOnceUnlessCut, CollectedOnce
<1>. QED
  BY <1>1, <1>2, <1>3, PTL DEF Spec

-----------------------------------------------------------------------------
(* Refinement.                                                             *)

(* During a night the checkout has every contribution row of the branch. *)
DataGrows == Collected(branch.contributions) \subseteq Collected(data.contributions)

LEMMA NextDataGrows == TypeOK /\ DataGrows /\ [Next]_vars => DataGrows'
<1>. SUFFICES ASSUME TypeOK, DataGrows, [Next]_vars
              PROVE  DataGrows'
  OBVIOUS
<1>0. data \in Store /\ data.contributions \in Rows
  BY DEF TypeOK, Store
<1>1. CASE WriteContributions
  <2>1. Collected(data.contributions) \subseteq Collected(data'.contributions)
    BY <1>0, <1>1, AppendedRows DEF WriteContributions, Store
  <2>. QED
    BY <1>1, <2>1 DEF WriteContributions, DataGrows
<1>2. CASE BeginNight \/ LoseJob \/ Publish
  BY <1>2 DEF BeginNight, LoseJob, Publish, DataGrows, Collected
<1>3. ASSUME data'.contributions = data.contributions, branch' = branch
      PROVE  DataGrows'
  BY <1>3 DEF DataGrows, Collected
<1>4. CASE WriteFileChanges \/ WriteReviews \/ WriteReparse
  BY <1>0, <1>3, <1>4 DEF WriteFileChanges, WriteReviews, WriteReparse, Store
<1>5. CASE \/ AdvanceWatermark \/ AdvanceFileWatermark \/ RecordLastGood
           \/ SkipReparse \/ WriteMarker
  BY <1>0, <1>3, <1>5
  DEF AdvanceWatermark, AdvanceFileWatermark, RecordLastGood, SkipReparse,
      WriteMarker, Store
<1>6. CASE \/ Push \/ ReleaseParser \/ EvictCache \/ Acquire \/ Walk
           \/ StartReparse \/ UNCHANGED vars
           \/ \E kind \in DOMAIN Strikes : Interrupt(kind)
  BY <1>3, <1>6
  DEF Push, ReleaseParser, EvictCache, Acquire, Walk, StartReparse, Interrupt,
      vars
<1>. QED
  BY <1>1, <1>2, <1>4, <1>5, <1>6 DEF Next, Night

(* The data branch implements the at-least-once feed: each push keeps every *)
(* event delivered before and its watermark claims only delivered events.   *)
THEOREM ImplementsFeed == Spec => DeliversAtLeastOnce
<1>. DEFINE Read(store) == Collected(store.contributions)
<1>1. Init => Feed!FeedInit
  <2>. SUFFICES ASSUME Init PROVE Feed!FeedInit
    OBVIOUS
  <2>1. Covered(branch)
    BY InitGitInv, CoveredStores DEF GitInv
  <2>. QED
    BY <2>1 DEF Feed!FeedInit, Covered, Collected
<1>2. GitInv /\ DataGrows /\ [Next]_vars => [Feed!Deliver]_(Feed!feed)
  <2>. SUFFICES ASSUME GitInv, DataGrows, [Next]_vars, branch' # branch
                PROVE  Feed!Deliver
    BY DEF Feed!feed
  <2>1. Publish
    BY DEF Next, Night, vars, Push, ReleaseParser, EvictCache, BeginNight,
           Acquire, Walk, WriteContributions, WriteFileChanges, WriteReviews,
           AdvanceWatermark, AdvanceFileWatermark, RecordLastGood, SkipReparse,
           StartReparse, WriteReparse, WriteMarker, Interrupt, LoseJob
  <2>2. Covered(data)
    BY CoveredStores DEF GitInv
  <2>3. branch' = data
    BY <2>1 DEF Publish
  <2>4. Read(branch) \subseteq Read(data)
    BY DEF DataGrows
  <2>. QED
    BY <2>2, <2>3, <2>4 DEF Feed!Deliver, Covered, Collected
<1>3. Spec => [](GitInv /\ DataGrows)
  <2>1. Init => GitInv /\ DataGrows
    BY InitGitInv DEF Init, DataGrows
  <2>2. (GitInv /\ DataGrows) /\ [Next]_vars => (GitInv /\ DataGrows)'
    BY NextGitInv, NextDataGrows DEF GitInv
  <2>. QED
    BY <2>1, <2>2, PTL DEF Spec
<1>. QED
  BY <1>1, <1>2, <1>3, PTL DEF Spec, DeliversAtLeastOnce, Feed!FeedSpec

=============================================================================
