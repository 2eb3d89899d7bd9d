------------------------- MODULE GovernanceEvidence -------------------------
(***************************************************************************)
(* The evidence the governance checks are computed from. A night fetches,  *)
(* the newest first and as far as a budget of calls goes, the comments and *)
(* attachments of the issues that commits refer to and that have changed   *)
(* since they were last checked, then the check runs of the commits whose  *)
(* checks are not final yet. Commits are numbered in the order of the      *)
(* branch and issues with the commit that refers to them; a commit's date  *)
(* is the night it was pushed in. An issue's version stands for its        *)
(* `updated` field and what it contains then.                              *)
(***************************************************************************)
EXTENDS Integers, FiniteSets, FiniteSetsExt

CONSTANTS
  MaxCommits,   \* commits, one to an issue (bound)
  MaxVersion,   \* versions of an issue (bound)
  MaxNights,    \* nights (bound)
  MaxCalls,     \* max_jira_calls_per_run, max_github_calls_per_run
  RetryWindow,  \* GOVERNANCE_CHECK_RUN_RETRY_WINDOW_DAYS
  Retention,    \* checkstyle_retention_days
  Environments  \* each a set of what may go wrong

Commits == 1..MaxCommits
Issues  == Commits
Never   == -1                    \* no row yet

Conclusions == {"none", "pending", "success", "failure"}
Final       == {"success", "failure"}

VARIABLES
  faults,  \* what goes wrong in this behaviour; never changes
  world,   \* tip; date[c]; night; version[i]; gone: deleted issues; check[c]
  disk,    \* known[i]: `updated` in the issue table; comments[i], attachments[i]: the
           \* version last checked, and the version seen then; checks[c]: latest batch
  run      \* pc; tip: newest commit of the clone; todo; calls; got[i]: version fetched;
           \* lost: issues JIRA did not have; checked[c]; pending: eligible and not fetched

vars == <<faults, world, disk, run>>

Unchecked == [mark |-> Never, seen |-> Never]
Idle == [pc |-> "idle", tip |-> 0, todo |-> {}, calls |-> 0, got |-> [i \in Issues |-> Never],
         lost |-> {}, checked |-> [c \in Commits |-> "never"], pending |-> 0]

Init ==
  /\ faults \in Environments
  /\ world = [tip |-> 1, date |-> [c \in Commits |-> 1], night |-> 1,
              version |-> [i \in Issues |-> 1], gone |-> {}, check |-> [c \in Commits |-> "none"]]
  /\ disk = [known |-> [i \in Issues |-> Never], comments |-> [i \in Issues |-> Unchecked],
             attachments |-> [i \in Issues |-> Unchecked], checks |-> [c \in Commits |-> "never"]]
  /\ run = Idle

Pushed == 1..world.tip

Step(from, to) == run.pc = from /\ run' = [run EXCEPT !.pc = to]

-----------------------------------------------------------------------------
(* The world goes on while a night fetches.                                *)

Push ==
  /\ "commits" \in faults /\ world.tip < MaxCommits
  /\ world' = [world EXCEPT !.tip = @ + 1, !.date[world.tip + 1] = world.night]
  /\ UNCHANGED <<faults, disk, run>>

UpdateIssue(i) ==
  /\ "updates" \in faults /\ i \in Pushed \ world.gone /\ world.version[i] < MaxVersion
  /\ world' = [world EXCEPT !.version[i] = @ + 1]
  /\ UNCHANGED <<faults, disk, run>>

DeleteIssue(i) ==
  /\ "gone" \in faults
  /\ world' = [world EXCEPT !.gone = @ \cup {i}]
  /\ UNCHANGED <<faults, disk, run>>

(* A check starts and ends; run again, it may end otherwise.               *)
CheckRuns(c) ==
  /\ "checks" \in faults /\ c \in Pushed
  /\ \/ world.check[c] # "pending" /\ world' = [world EXCEPT !.check[c] = "pending"]
     \/ world.check[c] = "pending" /\ \E e \in Final : world' = [world EXCEPT !.check[c] = e]
  /\ UNCHANGED <<faults, disk, run>>

-----------------------------------------------------------------------------
(* The night's clone and issue search come first; the search may fail.     *)
BeginNight ==
  /\ run.pc = "idle"
  /\ world' = [world EXCEPT !.night = Min({@ + 1, MaxNights})]
  /\ disk' \in {[disk EXCEPT !.known = [i \in Issues |-> IF i \in Pushed THEN world.version[i] ELSE @[i]]]}
               \cup (IF "outage" \in faults THEN {disk} ELSE {})
  /\ run' = [Idle EXCEPT !.pc = "issues", !.tip = world.tip]
  /\ UNCHANGED faults

LastChecked(i) == Min({disk.comments[i].mark, disk.attachments[i].mark})

(* Never checked, or changed since the older of its two marks.             *)
Walked   == 1..run.tip
Eligible == {i \in Walked : LastChecked(i) = Never \/ disk.known[i] > LastChecked(i)}

ChooseIssues ==
  /\ run.pc = "issues"
  /\ run' = [run EXCEPT !.pc = "fetch issues", !.todo = Eligible, !.pending = Cardinality(Eligible)]
  /\ UNCHANGED <<faults, world, disk>>

(* Every try and every page is a call, and the budget is looked at before  *)
(* an issue or a commit only. Calls beyond the budget are not told apart.  *)
Called == (run.calls + 1)..MaxCalls

FetchIssue ==
  /\ run.pc = "fetch issues" /\ run.todo # {} /\ run.calls < MaxCalls
  /\ \E calls \in Called :
       LET i == Max(run.todo)
       IN  run' = [run EXCEPT !.todo = @ \ {i}, !.calls = calls, !.pending = @ - 1,
                              !.got[i] = world.version[i],
                              !.lost = @ \cup ({i} \cap world.gone)]
  /\ UNCHANGED <<faults, world, disk>>

(* An issue that fails stays pending, and the next one has its turn.       *)
FailIssue ==
  /\ "outage" \in faults
  /\ run.pc = "fetch issues" /\ run.todo # {} /\ run.calls < MaxCalls
  /\ \E calls \in Called : run' = [run EXCEPT !.todo = @ \ {Max(run.todo)}, !.calls = calls]
  /\ UNCHANGED <<faults, world, disk>>

EndIssues ==
  /\ run.pc = "fetch issues"
  /\ run.todo = {} \/ run.calls >= MaxCalls
  /\ run' = [run EXCEPT !.pc = "comments"]
  /\ UNCHANGED <<faults, world, disk>>

(* The mark is the issue table's `updated`, or the time of the fetch for   *)
(* an issue the table does not have.                                       *)
Marked == [i \in Issues |-> IF disk.known[i] = Never THEN run.got[i] ELSE disk.known[i]]

(* A row for each issue fetched; evidence once found stays.                *)
Noted(rows, fetched, mark) ==
  [i \in Issues |->
     IF run.got[i] = Never \/ i \notin fetched THEN rows[i]
     ELSE [mark |-> mark[i], seen |-> IF i \in run.lost THEN rows[i].seen ELSE run.got[i]]]

WriteComments ==
  /\ Step("comments", "attachments")
  /\ disk' = [disk EXCEPT !.comments = Noted(@, Issues, Marked)]
  /\ UNCHANGED <<faults, world>>

(* An issue that JIRA no longer has gets no row here. *)
WriteAttachments ==
  /\ Step("attachments", "checks")
  /\ disk' = [disk EXCEPT !.attachments = Noted(@, Issues \ run.lost, Marked)]
  /\ UNCHANGED <<faults, world>>

Age(c) == world.night - world.date[c]

(* Mutant of NeedsCheck: every commit in the window, whatever its result. *)
NeedsCheckAlways(c) == Age(c) <= Retention /\ (disk.checks[c] = "never" \/ Age(c) <= RetryWindow)

(* Never checked and within GitHub's retention; or not final and recent.   *)
NeedsCheck(c) ==
  /\ Age(c) <= Retention
  /\ \/ disk.checks[c] = "never"
     \/ disk.checks[c] \notin Final /\ Age(c) <= RetryWindow

ChooseChecks ==
  /\ run.pc = "checks"
  /\ LET todo == {c \in Walked : NeedsCheck(c)}
     IN  run' = [run EXCEPT !.pc = "fetch checks", !.todo = todo, !.calls = 0,
                            !.pending = @ + Cardinality(todo)]
  /\ UNCHANGED <<faults, world, disk>>

FetchCheck ==
  /\ run.pc = "fetch checks" /\ run.todo # {} /\ run.calls < MaxCalls
  /\ \E calls \in Called :
       LET c == Max(run.todo)
       IN  run' = [run EXCEPT !.todo = @ \ {c}, !.calls = calls, !.pending = @ - 1,
                              !.checked[c] = world.check[c]]
  /\ UNCHANGED <<faults, world, disk>>

FailCheck ==
  /\ "outage" \in faults
  /\ run.pc = "fetch checks" /\ run.todo # {} /\ run.calls < MaxCalls
  /\ \E calls \in Called : run' = [run EXCEPT !.todo = @ \ {Max(run.todo)}, !.calls = calls]
  /\ UNCHANGED <<faults, world, disk>>

(* The batches of all commits are written after the last; a commit's       *)
(* latest batch counts.                                                    *)
WriteChecks ==
  /\ run.pc = "fetch checks"
  /\ run.todo = {} \/ run.calls >= MaxCalls
  /\ run' = [run EXCEPT !.pc = "score", !.todo = {}]
  /\ disk' = [disk EXCEPT !.checks = [c \in Commits |->
                IF run.checked[c] = "never" THEN @[c] ELSE run.checked[c]]]
  /\ UNCHANGED <<faults, world>>

Score ==
  /\ run.pc = "score"
  /\ run' = Idle
  /\ UNCHANGED <<faults, world, disk>>

(* An exception ends the governance step, a kill the night.                *)
Abort ==
  /\ "kill" \in faults
  /\ run.pc # "idle"
  /\ run' = Idle
  /\ UNCHANGED <<faults, world, disk>>

Night == \/ BeginNight \/ ChooseIssues \/ FetchIssue \/ EndIssues
         \/ WriteComments \/ WriteAttachments
         \/ ChooseChecks \/ FetchCheck \/ WriteChecks \/ Score

Fault == FailIssue \/ FailCheck \/ Abort

Next == \/ Night \/ Fault \/ Push
        \/ \E i \in Issues : UpdateIssue(i) \/ DeleteIssue(i) \/ CheckRuns(i)

Spec == Init /\ [][Next]_vars

(* Nights are scheduled, and a night goes on until it ends.                *)
FairSpec == Spec /\ WF_vars(Night)

-----------------------------------------------------------------------------
TypeOK ==
  /\ world.tip \in Commits /\ world.night \in 1..MaxNights /\ world.gone \subseteq Issues
  /\ disk.checks \in [Commits -> Conclusions \cup {"never"}]
  /\ run.calls \in 0..MaxCalls /\ run.pending \in 0..(2 * MaxCommits) /\ run.todo \subseteq Commits

(* An issue that is not asked for again has had the version the issue      *)
(* table knows read, comments and attachments, although it may change      *)
(* between the search and the fetch and the two tables are two writes.     *)
NotAskedMeansRead ==
  \A i \in Walked \ Eligible :
    i \notin world.gone => /\ disk.comments[i].seen >= disk.known[i]
                           /\ disk.attachments[i].seen >= disk.known[i]

(* `status: ok`, nothing pending: the version the issue table knows of     *)
(* every issue has been read, and every commit GitHub still has the checks *)
(* of has been asked for them, unless JIRA has lost the issue.             *)
OkMeansAllEvidence ==
  (run.pc = "score" /\ run.pending = 0) =>
    \A c \in Walked :
      /\ c \notin world.gone => /\ disk.comments[c].seen >= disk.known[c]
                               /\ disk.attachments[c].seen >= disk.known[c]
      /\ Age(c) <= Retention => disk.checks[c] # "never"

(* A final check is not asked for again, and so never becomes less final.  *)
FinalStays ==
  \A c \in Commits : disk.checks[c] \in Final => disk'.checks[c] = disk.checks[c]

(* The nights get through the backlog, whatever the budget of a night, as  *)
(* long as JIRA answers and has lost no issue: an issue it has lost is     *)
(* asked for every night, and its call is not another issue's.             *)
AllRead ==
  faults \cap {"gone", "outage", "kill"} = {} =>
    \A i \in Pushed : /\ disk.comments[i].seen = world.version[i]
                       /\ disk.attachments[i].seen = world.version[i]

EventuallyRead == <>[]AllRead

=============================================================================
