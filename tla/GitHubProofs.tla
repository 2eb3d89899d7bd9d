---------------------------- MODULE GitHubProofs ----------------------------
(***************************************************************************)
(* Proofs about the collection of pull requests, for any number of         *)
(* repositories, pull requests, updates, tables and pages, and for any     *)
(* kinds of fault.                                                         *)
(***************************************************************************)
EXTENDS GitHubCollection, FiniteSetTheorems, TLAPS

-----------------------------------------------------------------------------
(* The inductive invariant.                                                *)

(* Pull requests are opened one after the other, those of before the first *)
(* run first, and no cursor is ahead of the last update.                   *)
OpenedInOrder ==
  /\ \A r \in Repos : \A i, j \in PRs :
       (j <= i /\ updated[r][i] > 0) => updated[r][j] > 0
  /\ \A r \in Repos : \A i \in PRs : i <= Legacy[r] => updated[r][i] > 0

NotAhead(r, c) == \E i \in PRs : c <= updated[r][i]

CursorsNotAhead == \A r \in Repos : NotAhead(r, marks[r]) /\ NotAhead(r, cursor[r])

(* An idle process remembers nothing, and a walk has reported on no        *)
(* repository that it has not reached.                                     *)
RunsInOrder ==
  /\ pc = "idle" => repo = 1 /\ table = 1 /\ got = Nothing /\ gotLinks = {}
  /\ pc \in {"idle", "collect"} => \A r \in Repos : r >= repo => outcome[r] = "none"
  /\ pc = "collect" => table = 1

(* What a cursor has passed, and the links'.                               *)
Passed(r, c)  == {i \in PRs : 0 < updated[r][i] /\ updated[r][i] <= c}
Safe(r, i, v) == \A t \in Tables : stored[r][t][i] >= v

MarksCovered == \A r \in Repos : \A i \in Passed(r, marks[r]) : Safe(r, i, updated[r][i])

CursorsCovered ==
  pc \in {"collect", "write", "mark"} =>
    \A r \in Repos : \A i \in Passed(r, cursor[r]) :
      Safe(r, i, updated[r][i]) \/ got[r][i] >= updated[r][i]

(* The tables written so far hold what was fetched.                        *)
TablesWritten ==
  /\ pc = "write" =>
       \A r \in Repos : \A i \in PRs : \A t \in Tables : t < table => stored[r][t][i] >= got[r][i]
  /\ pc \in {"mark", "good"} => \A r \in Repos : \A i \in PRs : Safe(r, i, got[r][i])

(* A repository walked to its end was fetched, or stored, as the run began.*)
OkIsFetched ==
  /\ \A r \in Repos : \A i \in PRs : before[r][i] <= updated[r][i]
  /\ pc \in {"collect", "write", "mark", "good"} =>
       \A r \in Repos : outcome[r] = "ok" =>
         \A i \in PRs : Safe(r, i, before[r][i]) \/ got[r][i] >= before[r][i]

(* The links' walk.                                                        *)
LinkedUpTo(cursors, over, S) ==
  \A r \in Repos :
    /\ \A i \in PRs : i <= cursors[r] => <<r, i>> \in S
    /\ r \in over => \A i \in PRs : i <= Legacy[r] => <<r, i>> \in S

LinksWalked ==
  /\ LinkedUpTo(linkMarks, linkDone, linked)
  /\ pc \in {"links", "writeLinks", "markLinks", "markDone"} =>
       LinkedUpTo(linkCursor, linkOver, linked \cup gotLinks)
  /\ pc \in {"markLinks", "markDone"} => gotLinks \subseteq linked

GitHubInv ==
  /\ TypeOK
  /\ OpenedInOrder /\ CursorsNotAhead /\ RunsInOrder
  /\ MarksCovered /\ CursorsCovered /\ TablesWritten /\ OkIsFetched
  /\ LinksWalked

-----------------------------------------------------------------------------
(* Lemmas about finite sets of numbers and about the pages of a walk.      *)

LEMMA Constants ==
  /\ NumRepos \in Nat /\ NumRepos > 0 /\ NumPRs \in Nat /\ NumPRs > 0
  /\ NumTables \in Nat /\ NumTables > 0 /\ MaxUpdates \in Nat
  /\ PageSize \in Nat /\ PageSize > 0 /\ LinkPages \in Nat /\ LinkPages > 0
  /\ Legacy \in [Repos -> 0..NumPRs] /\ Allowances \subseteq Nat
  /\ Repos \in Configs /\ Configs \subseteq SUBSET Repos
  /\ Repos \subseteq Nat /\ PRs \subseteq Nat /\ Times \subseteq Nat /\ Tables \subseteq Nat
  /\ 0 \in Times /\ 1 \in Tables /\ 1 \in PRs
BY GitHubAssumption DEF Repos, PRs, Times, Tables

LEMMA Largest ==
  ASSUME NEW T \in SUBSET Nat, T # {}, NEW n \in Nat, \A x \in T : x <= n
  PROVE  \E m \in T : \A x \in T : x <= m
<1>. DEFINE S == {k \in Nat : k <= n /\ n - k \in T}
<1>1. S # {} /\ S \subseteq Nat
  <2>1. PICK x \in T : TRUE
    OBVIOUS
  <2>2. n - x \in Nat /\ n - x <= n /\ n - (n - x) = x
    OBVIOUS
  <2>. QED
    BY <2>1, <2>2
<1>2. PICK k \in S : \A j \in S : ~ (<<j, k>> \in OpToRel(<, Nat))
  <2>. HIDE DEF S
  <2>. QED
    BY <1>1, WFMin, NatLessThanWellFounded
<1>3. ASSUME NEW j \in S
      PROVE  k <= j
  <2>1. j \in Nat /\ k \in Nat
    OBVIOUS
  <2>2. j < k => <<j, k>> \in OpToRel(<, Nat)
    BY <2>1 DEF OpToRel
  <2>3. ~ (j < k)
    BY <1>2, <2>2
  <2>. QED
    BY <2>1, <2>3
<1>4. ASSUME NEW x \in T
      PROVE  x <= n - k
  <2>1. n - x \in S
    <3>1. n - x \in Nat /\ n - x <= n /\ n - (n - x) = x
      OBVIOUS
    <3>. QED
      BY <3>1
  <2>. QED
    BY <1>3, <2>1
<1>. QED
  BY <1>4

LEMMA TimesTyped ==
  ASSUME TypeOK, NEW r \in Repos, NEW i \in PRs
  PROVE  updated[r][i] \in Times /\ updated[r][i] \in Nat
<1>1. updated[r][i] \in Times
  BY DEF TypeOK
<1>. QED
  BY <1>1, Constants

(* Something was updated last.                                             *)
LEMMA LatestUpdate ==
  ASSUME TypeOK, NEW r \in Repos, NEW S \in SUBSET PRs, S # {}
  PROVE  \E m \in S : \A i \in S : updated[r][i] <= updated[r][m]
<1>. DEFINE T == {updated[r][i] : i \in S}
<1>1. \A i \in PRs : updated[r][i] \in Times
  BY TimesTyped
<1>2. T \in SUBSET Nat /\ T # {} /\ NumPRs + MaxUpdates \in Nat
      /\ \A x \in T : x <= NumPRs + MaxUpdates
  <2>1. T \subseteq Times /\ T # {}
    BY <1>1
  <2>2. Times \subseteq Nat /\ NumPRs + MaxUpdates \in Nat
        /\ \A x \in Times : x <= NumPRs + MaxUpdates
    BY Constants DEF Times
  <2>. HIDE DEF T
  <2>. QED
    BY <2>1, <2>2
<1>3. PICK m \in T : \A x \in T : x <= m
  <2>. HIDE DEF T
  <2>. QED
    BY <1>2, Largest
<1>. QED
  BY <1>3

LEMMA NowIsLatest ==
  ASSUME TypeOK, NEW r \in Repos
  PROVE  Now(r) \in Times /\ \A i \in PRs : updated[r][i] <= Now(r)
<1>1. PICK m \in PRs : \A i \in PRs : updated[r][i] <= updated[r][m]
  BY LatestUpdate, Constants
<1>2. updated[r][m] \in Times
  BY DEF TypeOK
<1>. QED
  BY <1>1, <1>2 DEF Now

(* A page is what follows the cursor up to where it ends.                  *)
LEMMA PageReaches ==
  ASSUME TypeOK, NEW r \in Repos, NEW c \in Times
  PROVE  /\ EndCursor(r, c) \in Times
         /\ EndCursor(r, c) = c \/ \E i \in PRs : EndCursor(r, c) = updated[r][i]
         /\ \A i \in PRs : (c < updated[r][i] /\ updated[r][i] <= EndCursor(r, c))
                             => i \in Page(r, c)
<1>1. \A i \in PRs : updated[r][i] \in Times /\ updated[r][i] \in Nat
  BY TimesTyped
<1>2. CASE Page(r, c) = {}
  BY <1>1, <1>2, Constants DEF EndCursor
<1>3. CASE Page(r, c) # {}
  <2>1. Page(r, c) \in SUBSET PRs
    BY DEF Page, After
  <2>2. PICK m \in Page(r, c) : \A j \in Page(r, c) : updated[r][j] <= updated[r][m]
    BY <1>3, <2>1, LatestUpdate
  <2>3. PICK e \in Page(r, c) : /\ \A j \in Page(r, c) : updated[r][j] <= updated[r][e]
                                /\ EndCursor(r, c) = updated[r][e]
    BY <1>3, <2>2 DEF EndCursor
  <2>4. ASSUME NEW i \in PRs, c < updated[r][i], updated[r][i] <= updated[r][e]
        PROVE  i \in Page(r, c)
    <3>. DEFINE Below(k) == {j \in After(r, c) : updated[r][j] < updated[r][k]}
    <3>1. i \in After(r, c)
      BY <2>4 DEF After
    <3>2. Below(i) \subseteq Below(e) /\ Below(e) \subseteq PRs
      BY <1>1, <2>1, <2>3, <2>4 DEF After
    <3>3. IsFiniteSet(Below(e))
      <4>1. IsFiniteSet(PRs)
        BY Constants, FS_Interval DEF PRs
      <4>. QED
        BY <3>2, <4>1, FS_Subset
    <3>4. /\ Cardinality(Below(i)) <= Cardinality(Below(e))
          /\ Cardinality(Below(i)) \in Nat /\ Cardinality(Below(e)) \in Nat
      BY <3>2, <3>3, FS_Subset, FS_CardinalityType
    <3>5. Cardinality(Below(e)) < PageSize
      BY <2>3 DEF Page
    <3>6. Cardinality(Below(i)) < PageSize
      BY <3>4, <3>5, Constants
    <3>. QED
      BY <3>1, <3>6 DEF Page
  <2>. QED
    BY <1>1, <2>1, <2>3, <2>4
<1>. QED
  BY <1>2, <1>3

(* Walking links, the cursor counts what was walked.                       *)
LEMMA LinkPageReaches ==
  ASSUME TypeOK, OpenedInOrder, NEW r \in Repos, NEW c \in 0..NumPRs
  PROVE  /\ LinkEndCursor(r, c) \in 0..NumPRs
         /\ LinkPage(r, c) \subseteq PRs
         /\ \A i \in PRs : (c < i /\ i <= LinkEndCursor(r, c)) => i \in LinkPage(r, c)
<1>1. \A i \in PRs : updated[r][i] \in Nat
  BY TimesTyped
<1>2. c \in Nat /\ c <= NumPRs
  BY Constants
<1>3. /\ LinkPage(r, c) \subseteq (c + 1)..NumPRs
      /\ LinkPage(r, c) \subseteq (c + 1)..(c + PageSize)
      /\ LinkPage(r, c) \subseteq PRs
  BY <1>2, Constants DEF LinkPage, Opened, PRs
<1>4. \A n \in Nat : LinkPage(r, c) \subseteq (c + 1)..n =>
        Cardinality(LinkPage(r, c)) \in Nat
        /\ Cardinality(LinkPage(r, c)) <= IF c + 1 > n THEN 0 ELSE n - c
  <2>. SUFFICES ASSUME NEW n \in Nat, LinkPage(r, c) \subseteq (c + 1)..n
                PROVE  Cardinality(LinkPage(r, c)) \in Nat
                       /\ Cardinality(LinkPage(r, c)) <= IF c + 1 > n THEN 0 ELSE n - c
    OBVIOUS
  <2>1. IsFiniteSet((c + 1)..n)
        /\ Cardinality((c + 1)..n) = IF c + 1 > n THEN 0 ELSE n - (c + 1) + 1
    BY <1>2, FS_Interval
  <2>2. IsFiniteSet(LinkPage(r, c)) /\ Cardinality(LinkPage(r, c)) <= Cardinality((c + 1)..n)
    BY <2>1, FS_Subset
  <2>. QED
    BY <1>2, <2>1, <2>2, FS_CardinalityType
<1>5. Cardinality(LinkPage(r, c)) \in Nat /\ Cardinality(LinkPage(r, c)) <= NumPRs - c
  BY <1>2, <1>3, <1>4, Constants
<1>6. Cardinality(LinkPage(r, c)) <= PageSize
  <2>1. c + PageSize \in Nat
    BY <1>2, Constants
  <2>. QED
    BY <1>2, <1>3, <1>4, <2>1, Constants
<1>7. ASSUME NEW i \in PRs, c < i, i <= c + Cardinality(LinkPage(r, c)), i \notin LinkPage(r, c)
      PROVE  FALSE
  <2>1. i \in Nat /\ i - 1 \in Nat /\ i <= c + PageSize
    BY <1>2, <1>5, <1>6, <1>7, Constants
  <2>2. ~ (updated[r][i] > 0)
    BY <1>7, <2>1 DEF LinkPage, Opened
  <2>3. \A j \in PRs : updated[r][j] > 0 => j < i
    BY <1>1, <2>1, <2>2, Constants DEF OpenedInOrder
  <2>4. LinkPage(r, c) \subseteq (c + 1)..(i - 1)
    <3>1. \A j \in LinkPage(r, c) : j \in PRs /\ j \in Nat /\ updated[r][j] > 0 /\ c < j
      BY Constants DEF LinkPage, Opened
    <3>. QED
      BY <1>2, <2>1, <2>3, <3>1
  <2>. QED
    BY <1>2, <1>4, <1>5, <1>7, <2>1, <2>4
<1>. QED
  BY <1>2, <1>3, <1>5, <1>7, Constants DEF LinkEndCursor

-----------------------------------------------------------------------------
(* Types.                                                                  *)

LEMMA Empty ==
  /\ None \in [Repos -> Times] /\ None \in [Repos -> 0..NumPRs]
  /\ Nothing \in [Repos -> [PRs -> Times]]
BY Constants DEF None, Nothing

LEMMA InitTypeOK == Init => TypeOK
<1>. SUFFICES ASSUME Init PROVE TypeOK
  OBVIOUS
<1>1. updated \in [Repos -> [PRs -> Times]]
  <2>1. \A i \in PRs : i \in Times
    BY Constants DEF PRs, Times
  <2>. QED
    BY <2>1, Constants DEF Init
<1>2. stored \in [Repos -> [Tables -> [PRs -> Times]]]
  BY Constants DEF Init
<1>3. repo \in 1..(NumRepos + 1) /\ table \in Tables
  BY Constants DEF Init
<1>4. /\ config \in Configs /\ faults \in Environments /\ lastGood \in {"none", "ok", "partial"}
      /\ outcome \in [Repos -> {"none", "ok", "rate_limited", "failed", "skipped"}]
      /\ spent \in Nat /\ allowance \in Allowances \cup {0} /\ exhausted \in BOOLEAN
  BY Constants DEF Init
<1>5. /\ linked \subseteq Repos \X PRs /\ linkDone \subseteq Repos
      /\ gotLinks \subseteq Repos \X PRs /\ linkOver \subseteq Repos /\ linkPages \in 0..LinkPages
  BY Constants DEF Init
<1>6. /\ marks \in [Repos -> Times] /\ cursor \in [Repos -> Times]
      /\ linkMarks \in [Repos -> 0..NumPRs] /\ linkCursor \in [Repos -> 0..NumPRs]
      /\ got \in [Repos -> [PRs -> Times]] /\ before \in [Repos -> [PRs -> Times]]
      /\ pc = "idle"
  BY Empty DEF Init
<1>. QED
  BY <1>1, <1>2, <1>3, <1>4, <1>5, <1>6 DEF TypeOK

LEMMA NextTypeOK ==
  ASSUME TypeOK, OpenedInOrder, [Next]_vars
  PROVE  TypeOK'
<1>. USE DEF TypeOK, source, prDisk, links, prRun, meter, linkRun
<1>0. repo \in Nat /\ spent \in Nat /\ linkPages \in Nat
      /\ (repo \in Repos => repo + 1 \in 1..(NumRepos + 1) /\ repo \in 1..(NumRepos + 1))
      /\ 1 \in 1..(NumRepos + 1)
  BY Constants DEF Repos
<1>1. CASE BeginRun
  <2>1. cursor' \in [Repos -> Times] /\ before' = updated /\ allowance' \in Allowances
        /\ pc' = "collect"
    BY <1>1, Constants DEF BeginRun
  <2>. QED
    BY <1>1, <2>1 DEF BeginRun
<1>2. CASE SkipRepo
  BY <1>0, <1>2 DEF SkipRepo, Collecting
<1>3. CASE FetchPage
  <2>1. repo \in Repos /\ cursor[repo] \in Times /\ EndCursor(repo, cursor[repo]) \in Times
    BY <1>3, PageReaches DEF FetchPage, Walking, Collecting
  <2>2. cursor' \in [Repos -> Times]
    BY <1>3, <2>1 DEF FetchPage
  <2>3. got' \in [Repos -> [PRs -> Times]]
    BY <1>3, <2>1 DEF FetchPage
  <2>4. outcome' \in [Repos -> {"none", "ok", "rate_limited", "failed", "skipped"}]
        /\ repo' \in 1..(NumRepos + 1)
    BY <1>0, <1>3, <2>1 DEF FetchPage, Verdict
  <2>. QED
    BY <1>0, <1>3, <2>2, <2>3, <2>4 DEF FetchPage
<1>4. CASE EndCollect
  BY <1>0, <1>4 DEF EndCollect
<1>5. CASE WriteTable
  <2>1. \A r \in Repos : \A i \in PRs : stored[r][table][i] \in Times /\ got[r][i] \in Times
    OBVIOUS
  <2>2. \A a, b \in Times : Larger(a, b) \in Times
    BY DEF Larger
  <2>3. stored' \in [Repos -> [Tables -> [PRs -> Times]]]
    BY <1>5, <2>1, <2>2 DEF WriteTable
  <2>4. table' \in Tables /\ pc' \in {"write", "mark"}
    BY <1>5, Constants DEF WriteTable, Tables
  <2>. QED
    BY <1>5, <2>3, <2>4 DEF WriteTable
<1>6. CASE WriteMarks
  <2>1. marks' \in [Repos -> Times]
    BY <1>6, Constants DEF WriteMarks
  <2>. QED
    BY <1>6, <2>1 DEF WriteMarks
<1>7. CASE RecordLastGood
  <2>1. lastGood' \in {"none", "ok", "partial"}
    BY <1>7 DEF RecordLastGood, Status
  <2>. QED
    BY <1>0, <1>7, <2>1, Constants, Empty DEF RecordLastGood, Collected
<1>8. CASE SkipLinks
  BY <1>0, <1>8 DEF SkipLinks, Linking
<1>9. CASE FetchLinks
  <2>1. repo \in Repos /\ linkCursor[repo] \in 0..NumPRs /\ linkPages < LinkPages
    BY <1>9 DEF FetchLinks, WalkingLinks, Linking
  <2>2. LinkEndCursor(repo, linkCursor[repo]) \in 0..NumPRs
        /\ LinkPage(repo, linkCursor[repo]) \subseteq PRs
    BY <2>1, LinkPageReaches
  <2>3. /\ gotLinks' \subseteq Repos \X PRs /\ linkCursor' \in [Repos -> 0..NumPRs]
        /\ linkOver' \subseteq Repos /\ exhausted' \in BOOLEAN
    BY <1>9, <2>1, <2>2 DEF FetchLinks
  <2>4. linkPages' \in 0..LinkPages /\ spent' \in Nat /\ repo' \in 1..(NumRepos + 1)
    BY <1>0, <1>9, <2>1, Constants DEF FetchLinks
  <2>. QED
    BY <1>9, <2>3, <2>4 DEF FetchLinks
<1>10. CASE EndLinks \/ WriteLinks \/ MarkLinks
  BY <1>10 DEF EndLinks, WriteLinks, MarkLinks
<1>f. ASSUME Fresh
      PROVE  /\ repo' \in 1..(NumRepos + 1) /\ table' \in Tables
             /\ cursor' \in [Repos -> Times] /\ got' \in [Repos -> [PRs -> Times]]
             /\ before' \in [Repos -> [PRs -> Times]]
             /\ outcome' \in [Repos -> {"none", "ok", "rate_limited", "failed", "skipped"}]
             /\ spent' \in Nat /\ allowance' \in Allowances \cup {0}
             /\ gotLinks' \subseteq Repos \X PRs /\ linkCursor' \in [Repos -> 0..NumPRs]
             /\ linkOver' \subseteq Repos /\ linkPages' \in 0..LinkPages /\ exhausted' \in BOOLEAN
  <2>1. 0 \in 0..LinkPages
    BY Constants
  <2>. QED
    BY <1>0, <1>f, <2>1, Constants, Empty DEF Fresh, Collected
<1>11. CASE MarkDone \/ Die
  <2>1. Fresh /\ pc' = "idle" /\ linkDone' \in {linkDone, linkOver}
        /\ UNCHANGED <<updated, config, faults, stored, marks, lastGood, linked, linkMarks>>
    BY <1>11 DEF MarkDone, Die
  <2>. QED
    BY <1>f, <2>1
<1>12. CASE StopRepo
  BY <1>0, <1>12 DEF StopRepo, Walking, Collecting
<1>13. CASE EscapeCollect
  BY <1>0, <1>13, Constants, Empty DEF EscapeCollect, Collected
<1>14. CASE StopLinks
  BY <1>0, <1>14 DEF StopLinks, WalkingLinks, Linking
<1>15. CASE Reconfigure
  BY <1>15 DEF Reconfigure
<1>16. ASSUME NEW r \in Repos, NEW i \in PRs, Update(r, i)
       PROVE  TypeOK'
  <2>1. Now(r) + 1 \in Times
    <3>1. Now(r) \in Times /\ Now(r) < Legacy[r] + MaxUpdates
      BY <1>16, NowIsLatest DEF Update
    <3>2. Legacy[r] \in Nat /\ Legacy[r] <= NumPRs
      BY Constants
    <3>. QED
      BY <3>1, <3>2, Constants DEF Times
  <2>2. updated' \in [Repos -> [PRs -> Times]]
    BY <1>16, <2>1 DEF Update
  <2>. QED
    BY <1>16, <2>2 DEF Update
<1>17. CASE UNCHANGED vars
  BY <1>17 DEF vars
<1>. QED
  BY <1>1, <1>2, <1>3, <1>4, <1>5, <1>6, <1>7, <1>8, <1>9, <1>10, <1>11,
     <1>12, <1>13, <1>14, <1>15, <1>16, <1>17 DEF Next, Run, Fault

LEMMA InitOpenedInOrder == Init => OpenedInOrder
<1>. SUFFICES ASSUME Init PROVE OpenedInOrder
  OBVIOUS
<1>1. \A r \in Repos : \A i \in PRs : updated[r][i] = IF i <= Legacy[r] THEN i ELSE 0
  BY DEF Init
<1>2. \A r \in Repos : Legacy[r] \in Nat
  BY Constants
<1>3. \A i \in PRs : i \in Nat /\ i > 0
  BY DEF PRs
<1>. QED
  BY <1>1, <1>2, <1>3 DEF OpenedInOrder

(* What an update does, and what it leaves alone.                          *)
LEMMA UpdateRaises ==
  ASSUME TypeOK, NEW r \in Repos, NEW i \in PRs, Update(r, i)
  PROVE  /\ \A k \in PRs : updated[r][k] < updated'[r][i]
         /\ \A q \in Repos : \A k \in PRs :
              (q # r \/ k # i) => updated'[q][k] = updated[q][k]
         /\ i > 1 => updated[r][i - 1] > 0
         /\ UNCHANGED <<config, faults, prDisk, links, pc, prRun, meter, linkRun>>
<1>1. updated' = [updated EXCEPT ![r][i] = Now(r) + 1]
  BY DEF Update
<1>2. updated \in [Repos -> [PRs -> Times]]
  BY DEF TypeOK
<1>3. updated'[r][i] = Now(r) + 1
  BY <1>1, <1>2
<1>4. \A k \in PRs : updated[r][k] \in Nat /\ updated[r][k] <= Now(r)
  BY NowIsLatest, TimesTyped
<1>5. Now(r) \in Nat
  BY NowIsLatest, Constants
<1>6. \A q \in Repos : \A k \in PRs : (q # r \/ k # i) => updated'[q][k] = updated[q][k]
  BY <1>1, <1>2
<1>7. \A k \in PRs : updated[r][k] < updated'[r][i]
  BY <1>3, <1>4, <1>5
<1>. QED
  BY <1>6, <1>7 DEF Update

(* Only GitHub changes what is on GitHub.                                  *)
LEMMA OnlyUpdates ==
  ASSUME [Next]_vars, \A r \in Repos : \A i \in PRs : ~ Update(r, i)
  PROVE  updated' = updated
BY DEF Next, Run, Fault, vars, source, BeginRun, SkipRepo, FetchPage, EndCollect,
       WriteTable, WriteMarks, RecordLastGood, SkipLinks, FetchLinks, EndLinks,
       WriteLinks, MarkLinks, MarkDone, StopRepo, EscapeCollect, StopLinks, Die,
       Reconfigure

LEMMA UpdatedGrows ==
  ASSUME TypeOK, [Next]_vars, NEW r \in Repos, NEW i \in PRs
  PROVE  updated[r][i] \in Nat /\ updated'[r][i] \in Nat /\ updated[r][i] <= updated'[r][i]
<1>1. updated[r][i] \in Nat
  BY TimesTyped
<1>2. CASE \E q \in Repos, k \in PRs : Update(q, k)
  <2>1. PICK q \in Repos, k \in PRs : Update(q, k)
    BY <1>2
  <2>2. Now(q) \in Nat
    BY NowIsLatest, Constants
  <2>3. updated' = [updated EXCEPT ![q][k] = Now(q) + 1]
    BY <2>1 DEF Update
  <2>4. updated[q][k] <= Now(q)
    BY NowIsLatest
  <2>5. CASE q = r /\ k = i
    <3>1. updated'[r][i] = Now(r) + 1
      BY <2>3, <2>5 DEF TypeOK
    <3>. QED
      BY <1>1, <2>2, <2>4, <2>5, <3>1
  <2>6. CASE q # r \/ k # i
    <3>1. updated'[r][i] = updated[r][i]
      BY <2>1, <2>6, UpdateRaises
    <3>. QED
      BY <1>1, <3>1
  <2>. QED
    BY <2>5, <2>6
<1>3. CASE \A q \in Repos : \A k \in PRs : ~ Update(q, k)
  BY <1>1, <1>3, OnlyUpdates
<1>. QED
  BY <1>2, <1>3

LEMMA NextOpenedInOrder ==
  ASSUME TypeOK, OpenedInOrder, [Next]_vars
  PROVE  OpenedInOrder'
<1>1. CASE \E q \in Repos, k \in PRs : Update(q, k)
  <2>1. PICK q \in Repos, k \in PRs : Update(q, k)
    BY <1>1
  <2>2. ASSUME NEW r \in Repos, NEW i \in PRs, NEW j \in PRs, j <= i, updated'[r][i] > 0
        PROVE  updated'[r][j] > 0
    <3>1. /\ i \in Nat /\ j \in Nat /\ i > 0 /\ j > 0
          /\ updated[r][j] \in Nat /\ updated'[r][j] \in Nat /\ updated[r][j] <= updated'[r][j]
          /\ updated[r][i] \in Nat
      BY UpdatedGrows, Constants DEF PRs
    <3>2. CASE updated[r][i] > 0
      BY <2>2, <3>1, <3>2 DEF OpenedInOrder
    <3>3. CASE ~ (updated[r][i] > 0)
      <4>1. q = r /\ k = i
        BY <2>1, <2>2, <3>3, UpdateRaises
      <4>2. CASE j = i
        BY <2>2, <4>2
      <4>3. CASE j # i
        <5>1. i - 1 \in PRs /\ j <= i - 1 /\ i > 1
          BY <2>2, <3>1, <4>3, Constants DEF PRs
        <5>2. updated[r][i - 1] > 0
          BY <2>1, <4>1, <5>1, UpdateRaises
        <5>3. updated[r][j] > 0
          BY <5>1, <5>2 DEF OpenedInOrder
        <5>. QED
          BY <3>1, <5>3
      <4>. QED
        BY <4>2, <4>3
    <3>. QED
      BY <3>2, <3>3
  <2>3. ASSUME NEW r \in Repos, NEW i \in PRs, i <= Legacy[r]
        PROVE  updated'[r][i] > 0
    <3>1. updated[r][i] > 0
      BY <2>3 DEF OpenedInOrder
    <3>. QED
      BY <3>1, UpdatedGrows
  <2>. QED
    BY <2>2, <2>3 DEF OpenedInOrder
<1>2. CASE \A q \in Repos : \A k \in PRs : ~ Update(q, k)
  BY <1>2, OnlyUpdates DEF OpenedInOrder
<1>. QED
  BY <1>1, <1>2

(* Every reachable state is well typed: no cursor, page or counter leaves  *)
(* its range, and the links' cursor never passes the last pull request.    *)
THEOREM TypeCorrect == Spec => []TypeOK
<1>1. Init => TypeOK /\ OpenedInOrder
  BY InitTypeOK, InitOpenedInOrder
<1>2. (TypeOK /\ OpenedInOrder) /\ [Next]_vars => (TypeOK /\ OpenedInOrder)'
  BY NextTypeOK, NextOpenedInOrder
<1>. QED
  BY <1>1, <1>2, PTL DEF Spec

-----------------------------------------------------------------------------
(* The run of the pull requests.                                           *)

(* A cursor that is not ahead stays so, whatever is updated.               *)
LEMMA StaysNotAhead ==
  ASSUME TypeOK, [Next]_vars, NEW r \in Repos, NEW c \in Times, NotAhead(r, c)
  PROVE  NotAhead(r, c)'
<1>1. PICK i \in PRs : c <= updated[r][i]
  BY DEF NotAhead
<1>2. c <= updated'[r][i]
  BY <1>1, UpdatedGrows, Constants
<1>. QED
  BY <1>2 DEF NotAhead

LEMMA NothingIsNotAhead ==
  ASSUME TypeOK, NEW r \in Repos
  PROVE  NotAhead(r, 0)
BY TimesTyped, Constants DEF NotAhead

(* How a step changes the cursors.                                         *)
LEMMA CursorStep ==
  ASSUME TypeOK, [Next]_vars, NEW r \in Repos
  PROVE  /\ marks'[r] \in {marks[r], cursor[r], 0}
         /\ cursor'[r] \in {marks[r], cursor[r], 0} \/ (FetchPage /\ r = repo)
<1>. USE DEF TypeOK
<1>1. CASE BeginRun
  BY <1>1 DEF BeginRun, prDisk
<1>2. CASE FetchPage
  BY <1>2 DEF FetchPage, prDisk
<1>3. CASE WriteMarks
  BY <1>3 DEF WriteMarks, prRun
<1>4. CASE RecordLastGood \/ EscapeCollect \/ MarkDone \/ Die
  BY <1>4 DEF RecordLastGood, EscapeCollect, MarkDone, Die, Fresh, Collected, prDisk, None
<1>5. CASE \/ SkipRepo \/ EndCollect \/ WriteTable \/ SkipLinks \/ FetchLinks \/ EndLinks
           \/ WriteLinks \/ MarkLinks \/ StopRepo \/ StopLinks \/ Reconfigure
           \/ (\E q \in Repos, i \in PRs : Update(q, i)) \/ UNCHANGED vars
  BY <1>5 DEF SkipRepo, EndCollect, WriteTable, SkipLinks, FetchLinks, EndLinks, WriteLinks,
              MarkLinks, StopRepo, StopLinks, Reconfigure, Update, vars, prRun, prDisk
<1>. QED
  BY <1>1, <1>2, <1>3, <1>4, <1>5 DEF Next, Run, Fault

LEMMA NextCursorsNotAhead ==
  ASSUME TypeOK, CursorsNotAhead, [Next]_vars
  PROVE  CursorsNotAhead'
<1>. SUFFICES ASSUME NEW r \in Repos
              PROVE  NotAhead(r, marks[r])' /\ NotAhead(r, cursor[r])'
  BY DEF CursorsNotAhead
<1>1. marks[r] \in Times /\ cursor[r] \in Times /\ 0 \in Times
  BY Constants DEF TypeOK
<1>2. \A c \in {marks[r], cursor[r], 0} : (\E i \in PRs : c <= updated'[r][i])
  BY <1>1, StaysNotAhead, NothingIsNotAhead DEF CursorsNotAhead, NotAhead
<1>3. (\E i \in PRs : marks'[r] <= updated'[r][i])
  BY <1>2, CursorStep
<1>4. CASE cursor'[r] \in {marks[r], cursor[r], 0}
  BY <1>2, <1>3, <1>4 DEF NotAhead
<1>5. CASE FetchPage /\ r = repo
  <2>1. cursor'[r] = EndCursor(r, cursor[r]) /\ updated' = updated
    BY <1>5 DEF FetchPage, TypeOK, source
  <2>2. cursor'[r] = cursor[r] \/ \E i \in PRs : cursor'[r] = updated[r][i]
    BY <1>1, <2>1, PageReaches
  <2>3. \E i \in PRs : cursor'[r] <= updated'[r][i]
    BY <1>2, <2>1, <2>2, TimesTyped
  <2>. QED
    BY <1>3, <2>3 DEF NotAhead
<1>. QED
  BY <1>4, <1>5, CursorStep

LEMMA NextRunsInOrder ==
  ASSUME TypeOK, RunsInOrder, [Next]_vars
  PROVE  RunsInOrder'
<1>. USE DEF RunsInOrder
<1>0. repo \in Nat /\ Repos \subseteq Nat /\ NumRepos \in Nat
  BY Constants DEF TypeOK
<1>1. CASE BeginRun
  BY <1>1 DEF BeginRun
<1>2. CASE SkipRepo \/ StopRepo \/ FetchPage
  <2>1. /\ pc = "collect" /\ pc' = "collect" /\ repo \in Repos /\ table' = table
        /\ repo' \in {repo, repo + 1}
        /\ \A r \in Repos : r # repo => outcome'[r] = outcome[r]
        /\ repo' = repo => outcome' = outcome
    BY <1>2 DEF SkipRepo, StopRepo, FetchPage, Walking, Collecting, TypeOK
  <2>. QED
    BY <1>0, <2>1
<1>3. CASE RecordLastGood \/ EscapeCollect \/ EndCollect
  BY <1>3 DEF RecordLastGood, EscapeCollect, EndCollect
<1>4. CASE MarkDone \/ Die
  BY <1>4 DEF MarkDone, Die, Fresh, Collected
<1>5. CASE \/ WriteTable \/ WriteMarks \/ SkipLinks \/ FetchLinks \/ EndLinks \/ WriteLinks
           \/ MarkLinks \/ StopLinks
  BY <1>5 DEF WriteTable, WriteMarks, SkipLinks, FetchLinks, EndLinks, WriteLinks, MarkLinks,
              StopLinks, Linking, WalkingLinks
<1>6. CASE Reconfigure \/ UNCHANGED vars \/ \E q \in Repos, i \in PRs : Update(q, i)
  BY <1>6 DEF Reconfigure, Update, vars, prRun, linkRun
<1>. QED
  BY <1>1, <1>2, <1>3, <1>4, <1>5, <1>6 DEF Next, Run, Fault

(* What is stored only gets newer, and what is fetched as long as the run  *)
(* has not written it.                                                     *)
LEMMA StoredGrows ==
  ASSUME TypeOK, [Next]_vars, NEW r \in Repos, NEW t \in Tables, NEW i \in PRs
  PROVE  stored[r][t][i] \in Nat /\ stored'[r][t][i] \in Nat /\ stored[r][t][i] <= stored'[r][t][i]
<1>1. stored[r][t][i] \in Nat /\ got[r][i] \in Nat
  <2>1. stored[r][t][i] \in Times /\ got[r][i] \in Times
    BY DEF TypeOK
  <2>. QED
    BY <2>1, Constants
<1>2. CASE WriteTable
  <2>1. stored'[r][t][i] \in {stored[r][t][i], Larger(stored[r][t][i], got[r][i])}
    BY <1>2 DEF WriteTable, TypeOK
  <2>. QED
    BY <1>1, <2>1 DEF Larger
<1>3. CASE ~WriteTable
  <2>1. stored' = stored
    BY <1>3 DEF Next, Run, Fault, vars, prDisk, BeginRun, SkipRepo, FetchPage, EndCollect,
         WriteMarks, RecordLastGood, SkipLinks, FetchLinks, EndLinks, WriteLinks, MarkLinks,
         MarkDone, StopRepo, EscapeCollect, StopLinks, Die, Reconfigure, Update
  <2>. QED
    BY <1>1, <2>1
<1>. QED
  BY <1>2, <1>3

LEMMA StaysSafe ==
  ASSUME TypeOK, [Next]_vars, NEW r \in Repos, NEW i \in PRs, NEW v \in Nat, Safe(r, i, v)
  PROVE  \A t \in Tables : stored'[r][t][i] >= v
BY StoredGrows DEF Safe

(* An update is past every cursor.                                         *)
LEMMA PassedStays ==
  ASSUME TypeOK, CursorsNotAhead, [Next]_vars, NEW r \in Repos,
         NEW c \in Times, NotAhead(r, c), NEW i \in PRs, 0 < updated'[r][i], updated'[r][i] <= c
  PROVE  updated'[r][i] = updated[r][i] /\ i \in Passed(r, c)
<1>1. updated'[r][i] = updated[r][i]
  <2>1. CASE \E q \in Repos, k \in PRs : Update(q, k)
    <3>1. PICK q \in Repos, k \in PRs : Update(q, k)
      BY <2>1
    <3>2. PICK m \in PRs : c <= updated[r][m]
      BY DEF NotAhead
    <3>3. q = r /\ k = i => FALSE
      <4>. SUFFICES ASSUME q = r, k = i PROVE FALSE
        OBVIOUS
      <4>1. updated[r][m] < updated'[r][i]
        BY <3>1, UpdateRaises
      <4>. QED
        BY <3>2, <4>1, TimesTyped, UpdatedGrows, Constants
    <3>. QED
      BY <3>1, <3>3, UpdateRaises
  <2>2. CASE \A q \in Repos : \A k \in PRs : ~ Update(q, k)
    BY <2>2, OnlyUpdates
  <2>. QED
    BY <2>1, <2>2
<1>. QED
  BY <1>1 DEF Passed

LEMMA RunTyped ==
  ASSUME TypeOK
  PROVE  /\ \A r \in Repos : marks[r] \in Times /\ cursor[r] \in Times
         /\ \A r \in Repos : \A i \in PRs :
              /\ got[r][i] \in Nat /\ before[r][i] \in Nat
              /\ \A t \in Tables : stored[r][t][i] \in Nat
<1>1. \A r \in Repos : \A i \in PRs :
              /\ got[r][i] \in Times /\ before[r][i] \in Times
              /\ \A t \in Tables : stored[r][t][i] \in Times
  BY DEF TypeOK
<1>2. \A r \in Repos : marks[r] \in Times /\ cursor[r] \in Times
  BY DEF TypeOK
<1>. QED
  BY <1>1, <1>2, Constants

LEMMA NextMarksCovered ==
  ASSUME GitHubInv, [Next]_vars
  PROVE  MarksCovered'
<1>0. /\ TypeOK /\ TypeOK' /\ CursorsNotAhead /\ MarksCovered /\ CursorsCovered /\ TablesWritten
  BY NextTypeOK DEF GitHubInv
<1>. SUFFICES ASSUME NEW r \in Repos, NEW i \in PRs, 0 < updated'[r][i], updated'[r][i] <= marks'[r],
                     NEW t \in Tables
              PROVE  stored'[r][t][i] >= updated'[r][i]
  BY DEF MarksCovered, Passed, Safe
<1>1. /\ marks[r] \in Times /\ cursor[r] \in Times
      /\ updated[r][i] \in Nat /\ stored[r][t][i] \in Nat /\ stored'[r][t][i] \in Nat
      /\ stored[r][t][i] <= stored'[r][t][i] /\ got[r][i] \in Nat
  BY <1>0, RunTyped, TimesTyped, StoredGrows
<1>2. CASE marks'[r] = marks[r]
  <2>1. updated'[r][i] = updated[r][i] /\ i \in Passed(r, marks[r])
    BY <1>0, <1>1, <1>2, PassedStays DEF CursorsNotAhead
  <2>2. stored[r][t][i] >= updated[r][i]
    BY <1>0, <2>1 DEF MarksCovered, Safe
  <2>. QED
    BY <1>1, <2>1, <2>2
<1>3. CASE WriteMarks
  <2>1. pc = "mark" /\ updated' = updated /\ marks'[r] \in {cursor[r], 0}
    BY <1>3 DEF WriteMarks, source
  <2>2. CASE marks'[r] = 0
    BY <1>1, <2>1, <2>2
  <2>3. CASE marks'[r] = cursor[r]
    <3>1. i \in Passed(r, cursor[r])
      BY <2>1, <2>3 DEF Passed
    <3>2. stored[r][t][i] >= updated[r][i] \/ got[r][i] >= updated[r][i]
      BY <1>0, <2>1, <3>1 DEF CursorsCovered, Safe
    <3>3. stored[r][t][i] >= got[r][i]
      BY <1>0, <2>1 DEF TablesWritten, Safe
    <3>. QED
      BY <1>1, <2>1, <3>2, <3>3
  <2>. QED
    BY <2>1, <2>2, <2>3
<1>4. CASE ~WriteMarks
  <2>1. marks' = marks
    BY <1>4 DEF Next, Run, Fault, vars, prDisk, BeginRun, SkipRepo, FetchPage, EndCollect,
         WriteTable, RecordLastGood, SkipLinks, FetchLinks, EndLinks, WriteLinks, MarkLinks,
         MarkDone, StopRepo, EscapeCollect, StopLinks, Die, Reconfigure, Update
  <2>. QED
    BY <1>2, <2>1
<1>. QED
  BY <1>3, <1>4

LEMMA NextCursorsCovered ==
  ASSUME GitHubInv, [Next]_vars
  PROVE  CursorsCovered'
<1>0. /\ TypeOK /\ TypeOK' /\ CursorsNotAhead /\ MarksCovered /\ CursorsCovered
  BY NextTypeOK DEF GitHubInv
<1>. SUFFICES ASSUME pc' \in {"collect", "write", "mark"}, NEW r \in Repos, NEW i \in PRs,
                     0 < updated'[r][i], updated'[r][i] <= cursor'[r]
              PROVE  (\A t \in Tables : stored'[r][t][i] >= updated'[r][i]) \/ got'[r][i] >= updated'[r][i]
  BY DEF CursorsCovered, Passed, Safe
<1>1. /\ marks[r] \in Times /\ cursor[r] \in Times /\ updated[r][i] \in Nat /\ got[r][i] \in Nat
  BY <1>0, RunTyped, TimesTyped
<1>2. ASSUME NEW c \in {marks[r], cursor[r]}, updated'[r][i] <= c
      PROVE  updated'[r][i] = updated[r][i] /\ i \in Passed(r, c)
  <2>1. c \in Times /\ NotAhead(r, c)
    BY <1>0, <1>1, <1>2 DEF CursorsNotAhead
  <2>. QED
    BY <1>0, <1>2, <2>1, PassedStays
<1>3. CASE BeginRun
  <2>1. cursor'[r] \in {marks[r], 0} /\ updated' = updated
    BY <1>3 DEF BeginRun, source
  <2>2. cursor'[r] = marks[r]
    BY <1>1, <2>1
  <2>3. i \in Passed(r, marks[r])
    BY <1>2, <2>2
  <2>4. Safe(r, i, updated[r][i])
    BY <1>0, <2>3 DEF MarksCovered
  <2>. QED
    BY <1>0, <1>1, <2>1, <2>4, StaysSafe
<1>4. ASSUME pc \in {"collect", "write", "mark"}, cursor'[r] = cursor[r], got'[r][i] = got[r][i]
      PROVE  (\A t \in Tables : stored'[r][t][i] >= updated'[r][i]) \/ got'[r][i] >= updated'[r][i]
  <2>1. updated'[r][i] = updated[r][i] /\ i \in Passed(r, cursor[r])
    BY <1>2, <1>4
  <2>2. Safe(r, i, updated[r][i]) \/ got[r][i] >= updated[r][i]
    BY <1>0, <1>4, <2>1 DEF CursorsCovered
  <2>. QED
    BY <1>0, <1>1, <1>4, <2>1, <2>2, StaysSafe
<1>5. CASE FetchPage
  <2>1. /\ pc = "collect" /\ updated' = updated /\ repo \in Repos
        /\ r # repo => cursor'[r] = cursor[r] /\ got'[r][i] = got[r][i]
        /\ r = repo => cursor'[r] = EndCursor(r, cursor[r])
        /\ r = repo => got'[r][i] = IF i \in Page(r, cursor[r]) THEN updated[r][i] ELSE got[r][i]
    BY <1>0, <1>5 DEF FetchPage, Walking, Collecting, TypeOK, source
  <2>2. CASE r = repo /\ i \in Page(r, cursor[r])
    BY <1>1, <2>1, <2>2
  <2>3. CASE r = repo /\ i \notin Page(r, cursor[r])
    <3>1. ~ (cursor[r] < updated[r][i])
      BY <1>0, <1>1, <2>1, <2>3, PageReaches
    <3>2. i \in Passed(r, cursor[r])
      <4>1. cursor[r] \in Times
        BY <1>0 DEF TypeOK
      <4>2. cursor[r] \in Nat
        BY <4>1, Constants
      <4>3. 0 < updated[r][i] /\ updated[r][i] <= cursor[r]
        BY <1>1, <2>1, <3>1, <4>2
      <4>. QED
        BY <4>3 DEF Passed
    <3>3. Safe(r, i, updated[r][i]) \/ got[r][i] >= updated[r][i]
      BY <1>0, <2>1, <3>2 DEF CursorsCovered
    <3>. QED
      BY <1>0, <1>1, <2>1, <2>3, <3>3, StaysSafe
  <2>4. CASE r # repo
    BY <1>4, <2>1, <2>4
  <2>. QED
    BY <2>2, <2>3, <2>4
<1>6. CASE SkipRepo \/ StopRepo \/ EndCollect \/ WriteTable
  BY <1>4, <1>6 DEF SkipRepo, StopRepo, EndCollect, WriteTable, Walking, Collecting
<1>7. CASE Reconfigure \/ UNCHANGED vars \/ \E q \in Repos, k \in PRs : Update(q, k)
  BY <1>4, <1>7 DEF Reconfigure, Update, vars, prRun
<1>8. CASE \/ WriteMarks \/ RecordLastGood \/ EscapeCollect \/ SkipLinks \/ FetchLinks \/ EndLinks
           \/ WriteLinks \/ MarkLinks \/ StopLinks \/ MarkDone \/ Die
  BY <1>8 DEF WriteMarks, RecordLastGood, EscapeCollect, SkipLinks, FetchLinks, EndLinks, WriteLinks,
              MarkLinks, StopLinks, MarkDone, Die, Linking, WalkingLinks
<1>. QED
  BY <1>3, <1>5, <1>6, <1>7, <1>8 DEF Next, Run, Fault

LEMMA NextTablesWritten ==
  ASSUME GitHubInv, [Next]_vars
  PROVE  TablesWritten'
<1>0. TypeOK /\ TypeOK' /\ RunsInOrder /\ TablesWritten
  BY NextTypeOK DEF GitHubInv
<1>1. CASE WriteTable
  <2>1. /\ pc = "write" /\ table \in Tables /\ got' = got
        /\ IF table < NumTables THEN pc' = "write" /\ table' = table + 1
                                ELSE pc' = "mark"
    BY <1>0, <1>1 DEF WriteTable, TypeOK
  <2>2. ASSUME NEW r \in Repos, NEW i \in PRs, NEW t \in Tables, t <= table
        PROVE  stored'[r][t][i] >= got'[r][i]
    <3>1. stored[r][t][i] \in Nat /\ got[r][i] \in Nat
      BY <1>0, RunTyped
    <3>2. CASE t = table
      <4>1. stored'[r][t][i] = Larger(stored[r][t][i], got[r][i])
        BY <1>0, <1>1, <3>2 DEF WriteTable, TypeOK
      <4>. QED
        BY <2>1, <3>1, <4>1 DEF Larger
    <3>3. CASE t # table
      <4>1. t < table
        BY <2>1, <2>2, <3>3, Constants
      <4>2. stored[r][t][i] >= got[r][i]
        BY <1>0, <2>1, <4>1 DEF TablesWritten
      <4>3. stored'[r][t][i] \in Nat /\ stored[r][t][i] <= stored'[r][t][i]
        BY <1>0, StoredGrows
      <4>. QED
        BY <2>1, <3>1, <4>2, <4>3
    <3>. QED
      BY <3>2, <3>3
  <2>3. CASE table < NumTables
    <3>1. \A t \in Tables : t < table + 1 => t <= table
      BY <2>1, Constants
    <3>. QED
      BY <2>1, <2>2, <2>3, <3>1 DEF TablesWritten
  <2>4. CASE ~ (table < NumTables)
    <3>1. \A t \in Tables : t <= table
      BY <2>1, <2>4, Constants DEF Tables
    <3>. QED
      BY <2>1, <2>2, <2>4, <3>1 DEF TablesWritten, Safe
  <2>. QED
    BY <2>3, <2>4
<1>2. CASE EndCollect
  <2>1. pc' = "write" /\ table' = 1
    BY <1>0, <1>2 DEF EndCollect, RunsInOrder
  <2>2. \A t \in Tables : ~ (t < 1)
    BY Constants DEF Tables
  <2>. QED
    BY <2>1, <2>2 DEF TablesWritten
<1>3. CASE WriteMarks
  BY <1>0, <1>3 DEF WriteMarks, TablesWritten, Safe, prRun
<1>4. CASE Reconfigure \/ UNCHANGED vars \/ \E q \in Repos, k \in PRs : Update(q, k)
  BY <1>0, <1>4 DEF Reconfigure, Update, vars, prRun, prDisk, TablesWritten, Safe
<1>5. CASE \/ BeginRun \/ SkipRepo \/ StopRepo \/ FetchPage \/ EscapeCollect \/ RecordLastGood
           \/ SkipLinks \/ FetchLinks \/ EndLinks \/ WriteLinks \/ MarkLinks \/ StopLinks
           \/ MarkDone \/ Die
  <2>1. pc' \notin {"write", "mark", "good"}
    BY <1>5 DEF BeginRun, SkipRepo, StopRepo, FetchPage, EscapeCollect, RecordLastGood, SkipLinks,
         FetchLinks, EndLinks, WriteLinks, MarkLinks, StopLinks, MarkDone, Die, Walking, Collecting,
         Linking, WalkingLinks
  <2>. QED
    BY <2>1 DEF TablesWritten
<1>. QED
  BY <1>1, <1>2, <1>3, <1>4, <1>5 DEF Next, Run, Fault

LEMMA NextOkIsFetched ==
  ASSUME GitHubInv, [Next]_vars
  PROVE  OkIsFetched'
<1>0. /\ TypeOK /\ TypeOK' /\ RunsInOrder /\ OkIsFetched /\ CursorsCovered
  BY NextTypeOK DEF GitHubInv
<1>1. \A r \in Repos : \A i \in PRs :
        /\ updated[r][i] \in Nat /\ updated'[r][i] \in Nat /\ updated[r][i] <= updated'[r][i]
        /\ got[r][i] \in Nat /\ before[r][i] \in Nat /\ before[r][i] <= updated[r][i]
        /\ \A t \in Tables : stored[r][t][i] \in Nat
  BY <1>0, RunTyped, UpdatedGrows DEF OkIsFetched
<1>2. ASSUME NEW r \in Repos, pc \in {"collect", "write", "mark", "good"}, outcome[r] = "ok",
             NEW i \in PRs, got'[r][i] = got[r][i]
      PROVE  (\A t \in Tables : stored'[r][t][i] >= before[r][i]) \/ got'[r][i] >= before[r][i]
  <2>1. Safe(r, i, before[r][i]) \/ got[r][i] >= before[r][i]
    BY <1>0, <1>2 DEF OkIsFetched
  <2>. QED
    BY <1>0, <1>1, <1>2, <2>1, StaysSafe
<1>3. ASSUME before' = before, got' = got, outcome' = outcome,
             pc' \in {"collect", "write", "mark", "good"} => pc \in {"collect", "write", "mark", "good"}
      PROVE  OkIsFetched'
  BY <1>1, <1>2, <1>3 DEF OkIsFetched, Safe
<1>4. ASSUME before' = Nothing, pc' \notin {"collect", "write", "mark", "good"}
      PROVE  OkIsFetched'
  BY <1>1, <1>4 DEF OkIsFetched, Nothing
<1>5. CASE BeginRun
  <2>1. before' = updated /\ updated' = updated /\ outcome' = outcome /\ pc = "idle" /\ repo = 1
    BY <1>0, <1>5 DEF BeginRun, RunsInOrder, source
  <2>2. \A r \in Repos : outcome[r] = "none"
    BY <1>0, <2>1, Constants DEF RunsInOrder, Repos
  <2>. QED
    BY <1>1, <2>1, <2>2 DEF OkIsFetched
<1>6. CASE FetchPage
  <2>1. /\ pc = "collect" /\ pc' = "collect" /\ updated' = updated /\ before' = before
        /\ stored' = stored /\ repo \in Repos
        /\ \A r \in Repos : r # repo => outcome'[r] = outcome[r] /\ got'[r] = got[r]
        /\ cursor'[repo] = EndCursor(repo, cursor[repo])
        /\ outcome'[repo] \in {outcome[repo], Verdict(repo)}
    BY <1>0, <1>6 DEF FetchPage, Walking, Collecting, TypeOK, source, prDisk
  <2>2. ASSUME NEW r \in Repos, outcome'[r] = "ok", NEW i \in PRs
        PROVE  (\A t \in Tables : stored'[r][t][i] >= before'[r][i]) \/ got'[r][i] >= before'[r][i]
    <3>1. CASE r # repo
      BY <1>2, <2>1, <2>2, <3>1
    <3>2. CASE r = repo
      <4>1. outcome[repo] = "none"
        BY <1>0, <2>1, Constants DEF RunsInOrder
      <4>2. After(r, cursor'[r]) = {}
        BY <2>1, <2>2, <3>2, <4>1 DEF Verdict
      <4>3. ~ (updated[r][i] > cursor'[r])
        BY <4>2 DEF After
      <4>4. cursor'[r] \in Times
        BY <1>0 DEF TypeOK
      <4>8. cursor'[r] \in Nat
        BY <4>4, Constants
      <4>5. CursorsCovered'
        BY NextCursorsCovered
      <4>6. CASE updated[r][i] = 0
        BY <1>1, <2>1, <4>6
      <4>7. CASE updated[r][i] # 0
        <5>1. i \in Passed(r, cursor[r])'
          BY <1>1, <2>1, <4>3, <4>7, <4>8 DEF Passed
        <5>2. Safe(r, i, updated[r][i])' \/ got'[r][i] >= updated'[r][i]
          BY <2>1, <4>5, <5>1 DEF CursorsCovered
        <5>3. got'[r][i] \in Times /\ \A t \in Tables : stored'[r][t][i] \in Times
          BY <1>0 DEF TypeOK
        <5>4. got'[r][i] \in Nat /\ \A t \in Tables : stored'[r][t][i] \in Nat
          BY <5>3, Constants
        <5>. QED
          BY <1>1, <2>1, <5>2, <5>4 DEF Safe
      <4>. QED
        BY <4>6, <4>7
    <3>. QED
      BY <3>1, <3>2
  <2>. QED
    BY <1>1, <2>1, <2>2 DEF OkIsFetched, Safe
<1>7. CASE SkipRepo \/ StopRepo
  <2>1. /\ pc = "collect" /\ repo \in Repos /\ got' = got /\ before' = before
        /\ \A r \in Repos : outcome'[r] = "ok" => outcome[r] = "ok"
    BY <1>0, <1>7 DEF SkipRepo, StopRepo, Walking, Collecting, TypeOK
  <2>. QED
    BY <1>1, <1>2, <2>1 DEF OkIsFetched, Safe
<1>8. CASE EndCollect \/ WriteTable
  BY <1>3, <1>8 DEF EndCollect, WriteTable
<1>9. CASE WriteMarks \/ Reconfigure \/ UNCHANGED vars \/ \E q \in Repos, k \in PRs : Update(q, k)
  BY <1>3, <1>9 DEF WriteMarks, Reconfigure, Update, vars, prRun
<1>10. CASE RecordLastGood \/ EscapeCollect
  BY <1>4, <1>10 DEF RecordLastGood, EscapeCollect, Collected
<1>11. CASE MarkDone \/ Die
  BY <1>4, <1>11 DEF MarkDone, Die, Fresh, Collected
<1>12. CASE SkipLinks \/ FetchLinks \/ StopLinks
  BY <1>3, <1>12 DEF SkipLinks, FetchLinks, StopLinks, Linking, WalkingLinks
<1>13. CASE EndLinks \/ WriteLinks \/ MarkLinks
  BY <1>3, <1>13 DEF EndLinks, WriteLinks, MarkLinks, prRun
<1>. QED
  BY <1>5, <1>6, <1>7, <1>8, <1>9, <1>10, <1>11, <1>12, <1>13 DEF Next, Run, Fault

(* The links of a page follow those walked before it; where no page        *)
(* follows, every pull request of before the first run has been walked.    *)
LEMMA NextLinksWalked ==
  ASSUME GitHubInv, [Next]_vars
  PROVE  LinksWalked'
<1>0. TypeOK /\ OpenedInOrder /\ RunsInOrder /\ LinksWalked
  BY DEF GitHubInv
<1>1. CASE FetchLinks
  <2>. DEFINE c == linkCursor[repo]
              d == LinkEndCursor(repo, c)
  <2>1. /\ pc = "links" /\ pc' = "links" /\ repo \in Repos /\ c \in 0..NumPRs
        /\ linked' = linked /\ linkMarks' = linkMarks /\ linkDone' = linkDone
        /\ gotLinks' = gotLinks \cup ({repo} \X LinkPage(repo, c))
        /\ linkOver' = IF LinksOver(repo) THEN linkOver \cup {repo} ELSE linkOver
        /\ linkCursor' = [linkCursor EXCEPT ![repo] = d]
    BY <1>0, <1>1 DEF FetchLinks, WalkingLinks, Linking, links, TypeOK
  <2>2. linkCursor'[repo] = d /\ \A r \in Repos : r # repo => linkCursor'[r] = linkCursor[r]
    BY <1>0, <2>1 DEF TypeOK
  <2>3. /\ d \in 0..NumPRs /\ LinkPage(repo, c) \subseteq PRs
        /\ \A i \in PRs : (c < i /\ i <= d) => i \in LinkPage(repo, c)
    BY <1>0, <2>1, LinkPageReaches
  <2>4. \A i \in PRs : i <= d => <<repo, i>> \in linked \cup gotLinks'
    <3>1. \A i \in PRs : i <= c => <<repo, i>> \in linked \cup gotLinks
      BY <1>0, <2>1 DEF LinksWalked, LinkedUpTo
    <3>2. \A i \in PRs : i <= c \/ c < i
      BY <2>1, Constants
    <3>. QED
      BY <2>1, <2>3, <3>1, <3>2
  <2>5. LinksOver(repo) => \A i \in PRs : i <= Legacy[repo] => i <= d
    <3>. SUFFICES ASSUME LinkPage(repo, d) = {}, NEW i \in PRs, i <= Legacy[repo], d < i
                  PROVE  FALSE
      BY <2>3, Constants DEF LinksOver
    <3>1. d \in Nat /\ d + 1 \in PRs /\ d + 1 <= i
      BY <2>3, Constants DEF PRs
    <3>2. updated[repo][i] > 0
      BY <1>0, <2>1 DEF OpenedInOrder
    <3>3. updated[repo][d + 1] > 0
      BY <1>0, <2>1, <3>1, <3>2 DEF OpenedInOrder
    <3>4. d + 1 \in LinkPage(repo, d)
      <4>. HIDE DEF d
      <4>. QED
        BY <3>1, <3>3, Constants DEF LinkPage, Opened
    <3>. QED
      BY <3>4
  <2>6. linked \cup gotLinks \subseteq linked \cup gotLinks'
    BY <2>1
  <2>7. LinkedUpTo(linkCursor, linkOver, linked \cup gotLinks)
    BY <1>0, <2>1 DEF LinksWalked
  <2>8. LinkedUpTo(linkCursor', linkOver', linked' \cup gotLinks')
    <3>. SUFFICES ASSUME NEW r \in Repos
                  PROVE  /\ \A i \in PRs : i <= linkCursor'[r] => <<r, i>> \in linked' \cup gotLinks'
                         /\ r \in linkOver' => \A i \in PRs : i <= Legacy[r] => <<r, i>> \in linked' \cup gotLinks'
      BY DEF LinkedUpTo
    <3>. HIDE DEF c, d
    <3>1. CASE r = repo
      BY <2>1, <2>2, <2>4, <2>5, <2>6, <2>7, <3>1 DEF LinkedUpTo
    <3>2. CASE r # repo
      BY <2>1, <2>2, <2>6, <2>7, <3>2 DEF LinkedUpTo
    <3>. QED
      BY <3>1, <3>2
  <2>. QED
    BY <1>0, <2>1, <2>8 DEF LinksWalked
<1>2. CASE RecordLastGood \/ EscapeCollect
  <2>1. /\ pc' = "links" /\ linkCursor' = linkMarks /\ linkOver' = linkDone
        /\ linked' = linked /\ linkMarks' = linkMarks /\ linkDone' = linkDone
    BY <1>2 DEF RecordLastGood, EscapeCollect, links
  <2>. QED
    BY <1>0, <2>1 DEF LinksWalked, LinkedUpTo
<1>3. CASE WriteLinks
  BY <1>0, <1>3 DEF WriteLinks, LinksWalked, LinkedUpTo, linkRun
<1>4. CASE MarkLinks
  <2>1. /\ pc = "markLinks" /\ pc' = "markDone" /\ linkMarks' = linkCursor /\ linkDone' = linkDone
        /\ linked' = linked /\ gotLinks' = gotLinks /\ linkCursor' = linkCursor
        /\ linkOver' = linkOver
    BY <1>4 DEF MarkLinks, linkRun
  <2>2. linked \cup gotLinks = linked
    BY <1>0, <2>1 DEF LinksWalked
  <2>. QED
    BY <1>0, <2>1, <2>2 DEF LinksWalked, LinkedUpTo
<1>5. CASE MarkDone
  <2>1. /\ pc = "markDone" /\ pc' = "idle" /\ linkMarks' = linkMarks /\ linkDone' = linkOver
        /\ linked' = linked
    BY <1>5 DEF MarkDone
  <2>2. linked \cup gotLinks = linked
    BY <1>0, <2>1 DEF LinksWalked
  <2>. QED
    BY <1>0, <2>1, <2>2 DEF LinksWalked, LinkedUpTo
<1>6. CASE Die
  BY <1>0, <1>6 DEF Die, links, LinksWalked
<1>7. CASE SkipLinks \/ StopLinks \/ EndLinks
  BY <1>0, <1>7 DEF SkipLinks, StopLinks, EndLinks, Linking, WalkingLinks, links, linkRun, LinksWalked
<1>8. CASE \/ BeginRun \/ SkipRepo \/ StopRepo \/ FetchPage \/ EndCollect \/ WriteTable \/ WriteMarks
  BY <1>0, <1>8 DEF BeginRun, SkipRepo, StopRepo, FetchPage, EndCollect, WriteTable, WriteMarks,
     Walking, Collecting, links, LinksWalked
<1>9. CASE Reconfigure \/ UNCHANGED vars \/ \E q \in Repos, k \in PRs : Update(q, k)
  BY <1>0, <1>9 DEF Reconfigure, Update, vars, links, linkRun, LinksWalked
<1>. QED
  BY <1>1, <1>2, <1>3, <1>4, <1>5, <1>6, <1>7, <1>8, <1>9 DEF Next, Run, Fault

-----------------------------------------------------------------------------
LEMMA InitGitHubInv == Init => GitHubInv
<1>. SUFFICES ASSUME Init PROVE GitHubInv
  OBVIOUS
<1>1. TypeOK /\ OpenedInOrder
  BY InitTypeOK, InitOpenedInOrder
<1>2. /\ pc = "idle" /\ repo = 1 /\ table = 1 /\ got = Nothing /\ gotLinks = {}
      /\ marks = None /\ cursor = None /\ before = Nothing
      /\ linkMarks = None /\ linkDone = {} /\ outcome = [r \in Repos |-> "none"]
  BY DEF Init
<1>3. \A r \in Repos : \A i \in PRs : updated[r][i] \in Nat
  BY <1>1, TimesTyped
<1>4. CursorsNotAhead
  BY <1>2, <1>3, Constants DEF CursorsNotAhead, NotAhead, None
<1>5. RunsInOrder
  BY <1>2 DEF RunsInOrder
<1>6. MarksCovered
  BY <1>2, <1>3 DEF MarksCovered, Passed, None
<1>7. OkIsFetched
  BY <1>2, <1>3 DEF OkIsFetched, Nothing
<1>8. LinksWalked
  BY <1>2, Constants DEF LinksWalked, LinkedUpTo, None, PRs
<1>. QED
  BY <1>1, <1>2, <1>4, <1>5, <1>6, <1>7, <1>8 DEF GitHubInv, CursorsCovered, TablesWritten

LEMMA NextGitHubInv == GitHubInv /\ [Next]_vars => GitHubInv'
<1>. SUFFICES ASSUME GitHubInv, [Next]_vars PROVE GitHubInv'
  OBVIOUS
<1>. QED
  BY NextTypeOK, NextOpenedInOrder, NextCursorsNotAhead, NextRunsInOrder, NextMarksCovered,
     NextCursorsCovered, NextTablesWritten, NextOkIsFetched, NextLinksWalked DEF GitHubInv

(* All of it holds in every state of a run, whatever fails and whenever    *)
(* the process is killed.                                                  *)
THEOREM WalksCovered == Spec => []GitHubInv
BY InitGitHubInv, NextGitHubInv, PTL DEF Spec

(* A run whose status is ok has stored, in every configured repository,    *)
(* all there was as it began: the walk of a repository that reports ok has *)
(* asked for what follows its cursor until nothing did, although updates   *)
(* arrived between the pages.                                              *)
THEOREM OkIsComplete == Spec => []OkMeansComplete
<1>1. GitHubInv => OkMeansComplete
  <2>. SUFFICES ASSUME GitHubInv, pc = "good", Status = "ok",
                       NEW r \in config, NEW t \in Tables, NEW i \in PRs
                PROVE  stored[r][t][i] >= before[r][i]
    BY DEF OkMeansComplete
  <2>1. r \in Repos
    BY Constants DEF GitHubInv, TypeOK
  <2>2. outcome[r] = "ok"
    <3>1. {outcome[q] : q \in config} = {"ok"}
      BY DEF Status
    <3>. QED
      BY <3>1
  <2>3. Safe(r, i, before[r][i]) \/ got[r][i] >= before[r][i]
    BY <2>1, <2>2 DEF GitHubInv, OkIsFetched
  <2>4. Safe(r, i, got[r][i])
    BY <2>1 DEF GitHubInv, TablesWritten
  <2>5. stored[r][t][i] \in Nat /\ got[r][i] \in Nat
    BY <2>1, RunTyped DEF GitHubInv
  <2>6. before[r][i] \in Nat
    <3>1. before[r][i] \in Times
      BY <2>1 DEF GitHubInv, TypeOK
    <3>. QED
      BY <3>1, Constants
  <2>. QED
    BY <2>3, <2>4, <2>5, <2>6 DEF Safe
<1>. QED
  BY <1>1, WalksCovered, PTL

(* The walk of the title links leaves no hole behind its cursor, and a     *)
(* repository is recorded as done only with the links of every pull        *)
(* request collected before links were.                                    *)
THEOREM LinksAreComplete == Spec => []LinksComplete
<1>1. GitHubInv => LinksComplete
  <2>. SUFFICES ASSUME GitHubInv, NEW r \in Repos
                PROVE  /\ \A i \in 1..linkMarks[r] : <<r, i>> \in linked
                       /\ r \in linkDone => {r} \X (1..Legacy[r]) \subseteq linked
    BY DEF LinksComplete
  <2>1. linkMarks[r] \in 0..NumPRs /\ Legacy[r] \in 0..NumPRs
    BY Constants DEF GitHubInv, TypeOK
  <2>2. 1..linkMarks[r] \subseteq PRs /\ 1..Legacy[r] \subseteq PRs
    BY <2>1, Constants DEF PRs
  <2>3. /\ \A i \in 1..linkMarks[r] : i <= linkMarks[r]
        /\ \A i \in 1..Legacy[r] : i <= Legacy[r]
    BY <2>1
  <2>4. LinkedUpTo(linkMarks, linkDone, linked)
    BY DEF GitHubInv, LinksWalked
  <2>. QED
    BY <2>2, <2>3, <2>4 DEF LinkedUpTo
<1>. QED
  BY <1>1, WalksCovered, PTL

-----------------------------------------------------------------------------
(* The data directory is an at-least-once feed.                            *)
LEMMA SettledIsReadable == GitHubInv => Settled \subseteq Readable
<1>. SUFFICES ASSUME GitHubInv, NEW v \in Settled
              PROVE  v \in Readable
  OBVIOUS
<1>1. /\ v \in Versions /\ v[1] \in Repos /\ v[2] \in PRs /\ v[3] \in Times /\ v[3] # 0
      /\ v[3] <= updated[v[1]][v[2]] /\ updated[v[1]][v[2]] <= marks[v[1]]
  BY DEF Settled, Versions
<1>2. v[3] \in Nat /\ updated[v[1]][v[2]] \in Nat
  BY <1>1, TimesTyped, Constants DEF GitHubInv
<1>3. v[2] \in Passed(v[1], marks[v[1]])
  BY <1>1, <1>2 DEF Passed
<1>4. \A t \in Tables : stored[v[1]][t][v[2]] >= updated[v[1]][v[2]]
  BY <1>1, <1>3 DEF GitHubInv, MarksCovered, Safe
<1>5. \A t \in Tables : stored[v[1]][t][v[2]] \in Nat
  BY <1>1, RunTyped DEF GitHubInv
<1>6. \A t \in Tables : stored[v[1]][t][v[2]] >= v[3]
  BY <1>1, <1>2, <1>4, <1>5
<1>. QED
  BY <1>1, <1>6 DEF Readable

LEMMA ReadableGrows ==
  ASSUME GitHubInv, [Next]_vars
  PROVE  Readable \subseteq Readable'
<1>. SUFFICES ASSUME NEW v \in Readable
              PROVE  v \in Readable'
  OBVIOUS
<1>1. /\ v \in Versions /\ v[1] \in Repos /\ v[2] \in PRs /\ v[3] \in Times
      /\ \A t \in Tables : stored[v[1]][t][v[2]] >= v[3]
  BY DEF Readable, Versions
<1>2. v[3] \in Nat
  BY <1>1, Constants
<1>3. \A t \in Tables : stored'[v[1]][t][v[2]] >= v[3]
  BY <1>1, <1>2, StoredGrows DEF GitHubInv
<1>. QED
  BY <1>1, <1>3 DEF Readable

(* Each step of the collection is a delivery of the feed or none: what a   *)
(* cursor will not ask for again can be read from all of the tables, and   *)
(* nothing that could be read is lost.                                     *)
THEOREM ImplementsFeed == Spec => DeliversAtLeastOnce
<1>1. Init => Feed!FeedInit
  <2>. SUFFICES ASSUME Init PROVE Feed!FeedInit
    OBVIOUS
  <2>1. Settled \subseteq Readable
    BY InitGitHubInv, SettledIsReadable
  <2>2. Readable \subseteq Versions
    BY DEF Readable
  <2>. QED
    BY <2>1, <2>2 DEF Feed!FeedInit
<1>2. GitHubInv' => (Settled \subseteq Readable)'
  BY SettledIsReadable, PTL
<1>3. GitHubInv /\ GitHubInv' /\ [Next]_vars => [Feed!Deliver]_(Feed!feed)
  <2>. SUFFICES ASSUME GitHubInv, GitHubInv', [Next]_vars
                PROVE  Feed!Deliver
    BY DEF Feed!feed
  <2>1. Readable \subseteq Readable'
    BY ReadableGrows
  <2>2. Settled' \subseteq Readable'
    BY <1>2
  <2>3. Readable' \subseteq Versions
    BY DEF Readable
  <2>. QED
    BY <2>1, <2>2, <2>3 DEF Feed!Deliver
<1>. QED
  BY <1>1, <1>3, WalksCovered, PTL DEF Spec, DeliversAtLeastOnce, Feed!FeedSpec

=============================================================================
