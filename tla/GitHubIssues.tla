----------------------------- MODULE GitHubIssues -----------------------------
(***************************************************************************)
(* The issues of GitHub: each configured repository is walked from its     *)
(* cursor in the order of last update, on what the pull requests have left *)
(* of the rate limit; every issue brings the first page of its comments.   *)
(* Bots are left out of each table on its own. A version of an issue is    *)
(* the number of its repository's update that made it.                     *)
(***************************************************************************)
EXTENDS Naturals, FiniteSets, Sequences, FiniteSetsExt

CONSTANTS
  NumRepos,      \* repositories, in the order of github_issues.repos
  AuthorOf,      \* AuthorOf[r][i]: the login of an issue's author
  Bots,          \* logins that a bot pattern matches
  Commenters,    \* logins that comment
  PageSize,      \* issues on a page
  CommentsPage,  \* COMMENTS_PAGE_SIZE
  Allowances,    \* pages the pull requests may leave before the floor
  MaxUpdates,    \* updates of all repositories (bound)
  Environments   \* each a set of what may go wrong

Repos == 1..NumRepos
Issues(r) == DOMAIN AuthorOf[r]
Times == 0..MaxUpdates  \* 0: not opened, or no cursor

VARIABLES
  faults,  \* what goes wrong in this behaviour; never changes
  world,   \* updated[r][i]; comments[r][i]: who commented, in order
  disk,    \* issues[r][i]: newest version; comments[r][i]: stored; marks: the watermark; good: status of the last good run
  run      \* where the run is, and what it holds

vars == <<faults, world, disk, run>>

PerRepo(value) == [r \in Repos |-> value]
PerIssue(value) == [r \in Repos |-> [i \in Issues(r) |-> value]]

Idle == [pc |-> "idle", repo |-> 1, cursor |-> PerRepo(0), issues |-> PerIssue(0), comments |-> PerIssue({}),
         outcome |-> PerRepo("none"), left |-> 0, before |-> PerIssue(0)]

Init ==
  /\ faults \in Environments
  /\ world = [updated |-> PerIssue(0), comments |-> PerIssue(<< >>)]
  /\ disk = [issues |-> PerIssue(0), comments |-> PerIssue({}), marks |-> PerRepo(0), good |-> "none"]
  /\ run = Idle

-----------------------------------------------------------------------------
(* GitHub.                                                                 *)

Now(r) == Max({world.updated[r][i] : i \in Issues(r)})
Updates == FoldSet(LAMBDA r, n : Now(r) + n, 0, Repos)

(* An issue is opened, closed or labelled; or somebody comments on it.     *)
Update(r, i) ==
  /\ Updates < MaxUpdates
  /\ i > 1 => world.updated[r][i - 1] > 0
  /\ world' = [world EXCEPT !.updated[r][i] = Now(r) + 1]
  /\ UNCHANGED <<faults, disk, run>>

Comment(r, i, login) ==
  /\ Updates < MaxUpdates /\ world.updated[r][i] > 0
  /\ world' = [world EXCEPT !.updated[r][i] = Now(r) + 1, !.comments[r][i] = Append(@, login)]
  /\ UNCHANGED <<faults, disk, run>>

After(r, c) == {i \in Issues(r) : world.updated[r][i] > c}

Page(r, c) ==
  {i \in After(r, c) : Cardinality({j \in After(r, c) : world.updated[r][j] < world.updated[r][i]}) < PageSize}

EndCursor(r, c) == Max({c} \cup {world.updated[r][i] : i \in Page(r, c)})

-----------------------------------------------------------------------------
(* GitHubIssuesCollector.collect                                           *)

Human(login) == login \notin Bots

(* What a night keeps of an issue, and of its comments.                    *)
IssueRow(r, i) == IF Human(AuthorOf[r][i]) THEN world.updated[r][i] ELSE 0
CommentRows(r, i) ==
  {k \in DOMAIN world.comments[r][i] : k <= CommentsPage /\ Human(world.comments[r][i][k])}

BeginRun ==
  /\ run.pc = "idle"
  /\ \E left \in {a \in Allowances : "tight" \in faults \/ a > NumRepos} :
       run' = [Idle EXCEPT !.pc = "collect", !.cursor = disk.marks, !.left = left, !.before = world.updated]
  /\ UNCHANGED <<faults, world, disk>>

Collecting == run.pc = "collect" /\ run.repo \in Repos
Exhausted  == \E r \in Repos : run.outcome[r] = "rate_limited"

End(status) == [run EXCEPT !.repo = @ + 1, !.outcome[run.repo] = status]

SkipRepo ==
  /\ Collecting /\ Exhausted
  /\ run' = End("skipped")
  /\ UNCHANGED <<faults, world, disk>>

(* The floor is looked at before the end of the list.                      *)
Verdict(r, cursor) ==
  IF run.left <= 1 THEN "rate_limited" ELSE IF After(r, cursor) = {} THEN "ok" ELSE "more"

FetchPage ==
  /\ Collecting /\ ~Exhausted
  /\ LET r == run.repo
         page == Page(r, run.cursor[r])
         cursor == EndCursor(r, run.cursor[r])
         verdict == Verdict(r, cursor)
     IN  run' = [(IF verdict = "more" THEN run ELSE End(verdict)) EXCEPT
                   !.cursor[r] = cursor,
                   !.left = IF @ = 0 THEN 0 ELSE @ - 1,
                   !.issues[r] = [i \in Issues(r) |-> IF i \in page THEN IssueRow(r, i) ELSE @[i]],
                   !.comments[r] = [i \in Issues(r) |-> IF i \in page THEN @[i] \cup CommentRows(r, i) ELSE @[i]]]
  /\ UNCHANGED <<faults, world, disk>>

(* A request that fails after its retries ends this repository's walk; one *)
(* refused for the rate limit ends everyone's.                             *)
StopRepo ==
  /\ Collecting /\ ~Exhausted
  /\ "failure" \in faults
  /\ run' \in {End("failed"), End("rate_limited")}
  /\ UNCHANGED <<faults, world, disk>>

(* Any other exception: the run keeps nothing, and says failed.            *)
EscapeCollect ==
  /\ Collecting /\ "escape" \in faults
  /\ run' = Idle
  /\ UNCHANGED <<faults, world, disk>>

Status ==
  LET seen == {run.outcome[r] : r \in Repos}
  IN  IF seen = {"ok"} THEN "ok" ELSE IF "failed" \in seen THEN "failed" ELSE "partial"

-----------------------------------------------------------------------------
(* _collect_github_issues: two partitions, the watermark, the pointer.     *)

Step(from, to) == run.pc = from /\ run' = [run EXCEPT !.pc = to] /\ UNCHANGED <<faults, world>>

WriteIssues ==
  /\ run.repo > NumRepos /\ Step("collect", "comments")
  /\ disk' = [disk EXCEPT !.issues = [r \in Repos |-> [i \in Issues(r) |-> Max({@[r][i], run.issues[r][i]})]]]

WriteComments ==
  /\ Step("comments", "mark")
  /\ disk' = [disk EXCEPT !.comments = [r \in Repos |-> [i \in Issues(r) |-> @[r][i] \cup run.comments[r][i]]]]

WriteMarks ==
  /\ Step("mark", "good")
  /\ disk' = [disk EXCEPT !.marks = run.cursor]

RecordLastGood ==
  /\ run.pc = "good" /\ run' = Idle
  /\ disk' = [disk EXCEPT !.good = IF Status = "failed" THEN @ ELSE Status]
  /\ UNCHANGED <<faults, world>>

Kill ==
  /\ "kill" \in faults /\ run.pc # "idle"
  /\ run' = Idle
  /\ UNCHANGED <<faults, world, disk>>

Night == BeginRun \/ SkipRepo \/ FetchPage \/ WriteIssues \/ WriteComments \/ WriteMarks \/ RecordLastGood

Next ==
  \/ Night \/ StopRepo \/ EscapeCollect \/ Kill
  \/ \E r \in Repos : \E i \in Issues(r) : Update(r, i) \/ \E login \in Commenters : Comment(r, i, login)

Spec == Init /\ [][Next]_vars

-----------------------------------------------------------------------------
TypeOK ==
  /\ faults \in Environments
  /\ \A r \in Repos, i \in UNION {Issues(r) : r \in Repos} : i \in Issues(r) =>
       /\ {world.updated[r][i], disk.issues[r][i], run.issues[r][i], disk.marks[r], run.cursor[r]} \subseteq Times
       /\ disk.comments[r][i] \cup run.comments[r][i] \subseteq DOMAIN world.comments[r][i]
  /\ disk.good \in {"none", "ok", "partial"}
  /\ run.pc \in {"idle", "collect", "comments", "mark", "good"} /\ run.repo \in 1..(NumRepos + 1)

(* What people said on an issue, as far as its first page of comments.     *)
Said(r, i) == {k \in DOMAIN world.comments[r][i] : k <= CommentsPage /\ world.comments[r][i][k] \notin Bots}

(* What the cursor has passed is stored: an issue unless a bot opened it,  *)
(* and what people said on it, on a bot's issue too.                       *)
BehindIsStored ==
  \A r \in Repos : \A i \in Issues(r) : world.updated[r][i] \in 1..disk.marks[r] =>
    /\ AuthorOf[r][i] \notin Bots => disk.issues[r][i] = world.updated[r][i]
    /\ disk.comments[r][i] = Said(r, i)

(* A night that reports ok has stored all there was as it began, although  *)
(* issues move behind its cursor while it walks.                           *)
OkMeansCollected ==
  (run.pc = "good" /\ Status = "ok") =>
    \A r \in Repos : \A i \in Issues(r) : AuthorOf[r][i] \notin Bots => disk.issues[r][i] >= run.before[r][i]

(* The store is an at-least-once feed of the versions of people's issues.  *)
Versions == {v \in Repos \X (1..Max({Len(AuthorOf[r]) : r \in Repos})) \X (Times \ {0}) :
               v[2] \in Issues(v[1]) /\ AuthorOf[v[1]][v[2]] \notin Bots}

Feed == INSTANCE AtLeastOnceFeed
          WITH Events <- Versions,
               delivered <- {v \in Versions : disk.issues[v[1]][v[2]] >= v[3]},
               settled <- {v \in Versions : v[3] <= world.updated[v[1]][v[2]]
                                              /\ world.updated[v[1]][v[2]] <= disk.marks[v[1]]}

(* When nothing fails and a page is left for every repository, all that    *)
(* people wrote is stored in the end.                                      *)
Collected ==
  faults = {} => \A r \in Repos : \A i \in Issues(r) :
    /\ AuthorOf[r][i] \notin Bots => disk.issues[r][i] = world.updated[r][i]
    /\ Said(r, i) \subseteq disk.comments[r][i]

=============================================================================
