---------------------------- MODULE JiraCollection ----------------------------
(***************************************************************************)
(* Collection of JIRA issues: the incremental search by time of update,    *)
(* paged by offset; the backfill of comments of issues collected before    *)
(* comments were; and the backfill of the history of issues that were ever *)
(* in the state Patch Available, resumed from an issue key. Issues are     *)
(* created and updated meanwhile, requests fail, and the process may be    *)
(* killed between any two of its writes.                                   *)
(*                                                                         *)
(* An issue is a number, in the order of creation (and of its key); its    *)
(* content is the time of its last update, in the minutes a query can      *)
(* tell apart. Readers keep the latest version of what they find.          *)
(***************************************************************************)
EXTENDS Integers, FiniteSets

CONSTANTS
  NumIssues,      \* issues (bound)
  MaxTime,        \* minutes (bound)
  Legacy,         \* issues collected before comments and histories were
  Margin,         \* WATERMARK_SAFETY_MARGIN, in minutes
  PageSize,       \* issues on a page
  MaxIssuesPerRun,  \* of the comment backfill
  MaxPagesPerRun,   \* of the Patch Available backfill
  Environments    \* each a set of what may go wrong

Issues == 1..NumIssues
Times  == 0..MaxTime                     \* 0: no issue, no row
Tables == {"issue", "issue_comment", "jira_changelog"}
Faults == {"outage", "disk", "kill", "busy", "growth"}

ASSUME JiraAssumption ==
  /\ NumIssues \in Nat \ {0} /\ Legacy \in 0..NumIssues
  /\ MaxTime \in Nat /\ Legacy <= MaxTime
  /\ Margin \in Nat
  /\ PageSize \in Nat \ {0} /\ MaxIssuesPerRun \in Nat \ {0} /\ MaxPagesPerRun \in Nat \ {0}
  /\ Environments \subseteq SUBSET Faults /\ Environments # {}

VARIABLES
  updated,     \* JIRA: when each issue was last updated
  patched,     \* JIRA: issues that ever were Patch Available
  now,         \* the minute
  faults,      \* what goes wrong in this behaviour; never changes
  \* the data directory
  stored,      \* the latest version of each issue in each table
  checked,     \* comment_backfill_checked
  watermark,   \* of `jira`
  cursor,      \* patch_available_backfill_cursor; 0: none
  total,       \* patch_available_backfill_total; -1: none
  covered,     \* patch_available_backfill_covered
  \* the run
  pc,          \* idle, search, comments, patches, or the write that is next
  rows,        \* rows to be written to each table
  marking,     \* issues to be written to comment_backfill_checked
  offset,      \* start_at
  todo,        \* to_fetch of the comment backfill
  pages,       \* pages_fetched by the Patch Available backfill
  noted        \* total_before_run, as that backfill knows it

jira == <<updated, patched, now>>
disk == <<stored, checked, watermark, cursor, total, covered>>
run  == <<rows, marking, offset, todo, pages, noted>>
vars == <<jira, faults, disk, pc, run>>

NoRows == [i \in Issues |-> 0]
Later(a, b) == IF a >= b THEN a ELSE b
Latest(f) == CHOOSE t \in Times : (\E i \in Issues : f[i] = t) /\ (\A i \in Issues : f[i] <= t)

Init ==
  /\ updated = [i \in Issues |-> IF i <= Legacy THEN i ELSE 0]
  /\ patched \in SUBSET (1..Legacy)
  /\ now = Legacy
  /\ faults \in Environments
  /\ stored = [t \in Tables |-> IF t = "issue" THEN updated ELSE NoRows]
  /\ checked = {}
  /\ watermark = Legacy
  /\ cursor = 0 /\ total = -1 /\ covered = 0
  /\ pc = "idle"
  /\ rows = [t \in Tables |-> NoRows]
  /\ marking = {} /\ offset = 0 /\ todo = {} /\ pages = 0 /\ noted = -1

-----------------------------------------------------------------------------
(* JIRA.                                                                   *)

(* The first issues of a search result in its order, after an offset.      *)
Before(i, j) == updated[i] < updated[j] \/ (updated[i] = updated[j] /\ i < j)
ByUpdate(S) == {i \in S : Cardinality({j \in S : Before(j, i)}) \in offset..(offset + PageSize - 1)}
ByKey(S)    == {i \in S : Cardinality({j \in S : j < i}) \in offset..(offset + PageSize - 1)}

(* An issue is created or updated, perhaps by becoming Patch Available.    *)
Update(i) ==
  /\ "busy" \in faults \/ pc # "search" \/ offset = 0
  /\ i > 1 => updated[i - 1] > 0
  /\ \E t \in {now, now + 1} \cap Times :
       /\ t > updated[i]
       /\ updated' = [updated EXCEPT ![i] = t]
       /\ now' = t
  /\ patched' = patched \/ ("growth" \in faults /\ patched' = patched \cup {i})
  /\ UNCHANGED <<faults, disk, pc, run>>

-----------------------------------------------------------------------------
(* The incremental search.                                                 *)

(* Mutant of Since: the query asks for what comes after the watermark. *)
SinceAfter == watermark + 1

(* build_jql: `updated >=` the watermark less the margin. *)
Since == watermark - Margin

Matching == {i \in Issues : updated[i] > 0 /\ updated[i] >= Since}

BeginRun ==
  /\ pc = "idle"
  /\ pc' = "search"
  /\ UNCHANGED <<jira, faults, disk, run>>

(* A page shorter than the page size is the last.                          *)
SearchPage ==
  /\ pc = "search"
  /\ LET page == ByUpdate(Matching)
         got  == [i \in Issues |-> IF i \in page THEN updated[i] ELSE rows["issue"][i]]
     IN  /\ rows' = [t \in Tables |-> got]
         /\ marking' = marking \cup page
         /\ IF Cardinality(page) < PageSize
              THEN pc' = "write issue" /\ offset' = 0
              ELSE offset' = offset + Cardinality(page) /\ UNCHANGED pc
  /\ UNCHANGED <<jira, faults, disk, todo, pages, noted>>

(* A request that fails for good, or a write: the rest is not written, and *)
(* the backfills follow all the same.                                      *)
FailSearch ==
  /\ \/ pc = "search" /\ "outage" \in faults
     \/ /\ "disk" \in faults
        /\ pc \in {"write issue", "write comment", "write changelog",
                  "write checked", "write watermark"}
  /\ pc' = "comments"
  /\ rows' = [t \in Tables |-> NoRows]
  /\ marking' = {} /\ offset' = 0
  /\ UNCHANGED <<jira, faults, disk, todo, pages, noted>>

(* One partition; readers keep the latest version.                         *)
Write(t, from, to) ==
  /\ pc = from
  /\ pc' = to
  /\ stored' = [stored EXCEPT ![t] = [i \in Issues |-> Later(@[i], rows[t][i])]]
  /\ UNCHANGED <<jira, faults, checked, watermark, cursor, total, covered, run>>

(* _record_jira_comment_checked, and the other writers of that table *)
Check(from, to) ==
  /\ pc = from
  /\ pc' = to
  /\ checked' = checked \cup marking
  /\ UNCHANGED <<jira, faults, stored, watermark, cursor, total, covered, run>>

WriteSearch ==
  \/ Write("issue", "write issue", "write comment")
  \/ Write("issue_comment", "write comment", "write changelog")
  \/ Write("jira_changelog", "write changelog", "write checked")
  \/ Check("write checked", "write watermark")

(* The watermark is the latest update seen; what was fetched is forgotten. *)
WriteWatermark ==
  /\ pc = "write watermark"
  /\ pc' = "comments"
  /\ watermark' = IF marking = {} THEN watermark ELSE Latest(rows["issue"])
  /\ rows' = [t \in Tables |-> NoRows]
  /\ marking' = {}
  /\ UNCHANGED <<jira, faults, stored, checked, cursor, total, covered, offset, todo, pages, noted>>

-----------------------------------------------------------------------------
(* The backfill of comments, newest issues first.                          *)

Unchecked == {i \in Issues : stored["issue"][i] > 0} \ checked

(* Mutant of ChooseComments: the cap is applied before the filter. *)
ChooseCommentsCapFirst ==
  /\ pc = "comments"
  /\ todo' = {i \in Issues : stored["issue"][i] > 0 /\
                Cardinality({j \in Issues : stored["issue"][j] > 0 /\ j > i}) < MaxIssuesPerRun} \ checked
  /\ pc' = IF Unchecked = {} THEN "patches" ELSE "fetch comments"
  /\ UNCHANGED <<jira, faults, disk, rows, marking, offset, pages, noted>>

ChooseComments ==
  /\ pc = "comments"
  /\ todo' = {i \in Unchecked : Cardinality({j \in Unchecked : j > i}) < MaxIssuesPerRun}
  /\ pc' = IF Unchecked = {} THEN "patches" ELSE "fetch comments"
  /\ UNCHANGED <<jira, faults, disk, rows, marking, offset, pages, noted>>

NextTodo(i) == pc = "fetch comments" /\ i \in todo /\ \A j \in todo : j <= i

FetchComments(i) ==
  /\ NextTodo(i)
  /\ rows' = [rows EXCEPT !["issue_comment"][i] = updated[i]]
  /\ marking' = marking \cup {i}
  /\ todo' = todo \ {i}
  /\ UNCHANGED <<jira, faults, disk, pc, offset, pages, noted>>

(* One issue that fails is left for the next run.                          *)
FailComments(i) ==
  /\ NextTodo(i)
  /\ "outage" \in faults
  /\ todo' = todo \ {i}
  /\ UNCHANGED <<jira, faults, disk, pc, rows, marking, offset, pages, noted>>

EndComments ==
  /\ pc = "fetch comments"
  /\ todo = {}
  /\ pc' = "backfill comment"
  /\ UNCHANGED <<jira, faults, disk, run>>

WriteComments ==
  \/ Write("issue_comment", "backfill comment", "backfill checked")
  \/ /\ pc = "backfill checked"
     /\ pc' = "patches"
     /\ checked' = checked \cup marking
     /\ rows' = [t \in Tables |-> NoRows]
     /\ marking' = {}
     /\ UNCHANGED <<jira, faults, stored, watermark, cursor, total, covered, offset, todo, pages, noted>>

-----------------------------------------------------------------------------
(* The backfill of Patch Available histories, in the order of keys.        *)

(* build_patch_available_backfill_jql *)
Beyond == {i \in patched : i > cursor}

(* Comments come along for issues that are not checked. The total is noted *)
(* when the backfill has no cursor yet.                                    *)
PatchPage ==
  /\ pc = "patches"
  /\ pages < MaxPagesPerRun
  /\ LET page == ByKey(Beyond)
     IN  /\ rows' = [t \in Tables |-> [i \in Issues |->
                       IF i \in page /\ (t = "issue_comment" => i \notin checked \cup marking)
                         THEN updated[i] ELSE rows[t][i]]]
         /\ marking' = marking \cup (page \ checked)
         /\ offset' = offset + Cardinality(page)
         /\ pc' = IF page = {} \/ offset' >= Cardinality(Beyond) THEN "patch issue" ELSE pc
  /\ pages' = pages + 1
  /\ noted' = IF cursor = 0 /\ total = -1 /\ noted = -1 THEN Cardinality(Beyond) ELSE noted
  /\ UNCHANGED <<jira, faults, disk, todo>>

(* The run's pages are used up, or one fails: what was fetched is kept.    *)
EndPatches ==
  /\ pc = "patches"
  /\ pages = MaxPagesPerRun \/ "outage" \in faults
  /\ pc' = "patch issue"
  /\ UNCHANGED <<jira, faults, disk, run>>

(* last_key *)
LastKey == CHOOSE k \in 0..NumIssues :
             /\ k = 0 \/ rows["jira_changelog"][k] > 0
             /\ \A i \in Issues : rows["jira_changelog"][i] > 0 => i <= k

(* Mutant of WritePatches: the cursor is written before the histories. *)
WritePatchesCursorFirst ==
  \/ Write("issue", "patch issue", "patch cursor")
  \/ /\ pc = "patch cursor"
     /\ pc' = "patch changelog"
     /\ cursor' = Later(cursor, LastKey)
     /\ UNCHANGED <<jira, faults, stored, checked, watermark, total, covered, run>>
  \/ Write("jira_changelog", "patch changelog", "patch comment")
  \/ Write("issue_comment", "patch comment", "patch checked")
  \/ Check("patch checked", "patch total")

WritePatches ==
  \/ Write("issue", "patch issue", "patch changelog")
  \/ Write("jira_changelog", "patch changelog", "patch comment")
  \/ Write("issue_comment", "patch comment", "patch checked")
  \/ Check("patch checked", "patch cursor")
  \/ /\ pc = "patch cursor"
     /\ pc' = "patch total"
     /\ cursor' = Later(cursor, LastKey)
     /\ UNCHANGED <<jira, faults, stored, checked, watermark, total, covered, run>>

WriteTotal ==
  /\ pc = "patch total"
  /\ pc' = "patch covered"
  /\ total' = IF noted # -1 THEN noted ELSE total
  /\ UNCHANGED <<jira, faults, stored, checked, watermark, cursor, covered, run>>

(* A process without memory of a run.                                      *)
Fresh == /\ pc' = "idle"
         /\ rows' = [t \in Tables |-> NoRows]
         /\ marking' = {} /\ offset' = 0 /\ todo' = {} /\ pages' = 0 /\ noted' = -1

(* covered counts what was processed, page by page. *)
WriteCovered ==
  /\ pc = "patch covered"
  /\ covered' = covered + offset
  /\ Fresh
  /\ UNCHANGED <<jira, faults, stored, checked, watermark, cursor, total>>

Kill ==
  /\ "kill" \in faults
  /\ pc # "idle"
  /\ Fresh
  /\ UNCHANGED <<jira, faults, disk>>

Run == \/ BeginRun \/ SearchPage \/ WriteSearch \/ WriteWatermark
       \/ ChooseComments \/ EndComments \/ WriteComments
       \/ PatchPage \/ EndPatches \/ WritePatches \/ WriteTotal \/ WriteCovered
       \/ \E i \in Issues : FetchComments(i)

Fault == FailSearch \/ Kill \/ \E i \in Issues : FailComments(i)

Next == Run \/ Fault \/ \E i \in Issues : Update(i)

Spec == Init /\ [][Next]_vars

(* Runs are scheduled, and a run goes on until it ends.                    *)
FairSpec == Spec /\ WF_vars(Run)

-----------------------------------------------------------------------------
(* An update the next query will not ask for is stored.                    *)
NothingMissed ==
  \A i \in Issues : updated[i] < Since => stored["issue"][i] = updated[i]

(* An issue that is marked as checked is never fetched by a backfill again:*)
(* its comments are all stored, or the incremental search will bring them, *)
(* whichever of the three walks marked it and wherever they were cut.      *)
CheckedIsCovered ==
  "busy" \notin faults =>
    \A i \in checked : stored["issue_comment"][i] = updated[i] \/ updated[i] >= Since

(* Nor does the Patch Available backfill go back behind its cursor: the    *)
(* history of an issue there is stored or still to be searched, although   *)
(* it may have become Patch Available after the cursor passed it.          *)
HistoryBehindCursor ==
  "busy" \notin faults =>
    \A i \in patched : i <= cursor =>
      stored["jira_changelog"][i] = updated[i] \/ updated[i] >= Since

(* The note `History still loading (x of y issues)` is not withdrawn while *)
(* an issue of the population it counts has no history.                    *)
NoteGone == total # -1 /\ covered >= total
NoteHonest ==
  ("growth" \notin faults /\ NoteGone) =>
    \A i \in patched : stored["jira_changelog"][i] > 0

(* What a backfill has recorded as done is done.                           *)
BackfillsHonest == CheckedIsCovered /\ HistoryBehindCursor /\ NoteHonest

(* The data directory is an at-least-once feed of the versions of issues,  *)
(* unless issues are updated between the pages of a search: a query asks   *)
(* again for the minute of the watermark and the margin before it, and the *)
(* watermark is written last.                                              *)
Versions == Issues \X (Times \ {0})
Readable == {v \in Versions : stored["issue"][v[1]] >= v[2]}
Settled  == {v \in Versions : v[2] <= updated[v[1]] /\ updated[v[1]] < Since}

Feed == INSTANCE AtLeastOnceFeed
          WITH Events <- Versions, delivered <- Readable, settled <- Settled

DeliversAtLeastOnce == Feed!FeedSpec

(* Without faults the backfills end, whatever is created and updated       *)
(* meanwhile: everything is stored, comments and histories too, and the    *)
(* note is withdrawn.                                                      *)
EventuallyCovered ==
  faults \subseteq {"growth"} =>
    <>[](/\ NoteGone
         /\ \A i \in Issues : /\ stored["issue"][i] = updated[i]
                              /\ stored["issue_comment"][i] = updated[i]
                              /\ i \in patched => stored["jira_changelog"][i] = updated[i])

=============================================================================
