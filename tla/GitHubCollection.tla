-------------------------- MODULE GitHubCollection --------------------------
(***************************************************************************)
(* Collection of pull requests over GraphQL: the repositories of a project *)
(* are walked in their configured order, each from its own cursor in the   *)
(* order of last update, on one rate-limit allowance; then the title links *)
(* of the pull requests collected before links were are walked in creation *)
(* order. Pull requests are opened and updated meanwhile, repositories are *)
(* removed from and added to the configuration, requests fail and the      *)
(* process is killed. The issues of GitHub have a walk of their own.       *)
(*                                                                         *)
(* A pull request is here the time of its last update, which a re-fetch    *)
(* brings with all of its reviews and comments; readers keep the latest.   *)
(***************************************************************************)
EXTENDS Naturals, FiniteSets

CONSTANTS
  NumRepos,      \* repositories, in the order of pull_requests.repos
  NumPRs,        \* pull requests of a repository (bound)
  MaxUpdates,    \* updates of a repository's pull requests meanwhile (bound)
  NumTables,     \* pr, pr_review, pr_comment
  Legacy,        \* Legacy[r]: pull requests of r before the first run
  PageSize,      \* pull requests on a page
  LinkPages,     \* pages of links a run may fetch
  Allowances,    \* pages the rate limit allows a run before its floor
  Configs,       \* sets of configured repositories
  Environments   \* each a set of what may go wrong

Repos  == 1..NumRepos
PRs    == 1..NumPRs
Times  == 0..(NumPRs + MaxUpdates) \* 0: not opened, or no cursor
Tables == 1..NumTables
Faults == {"failure", "limit", "tight", "escape", "kill", "reconfigure"}

ASSUME GitHubAssumption ==
  /\ NumRepos \in Nat \ {0} /\ NumPRs \in Nat \ {0} /\ NumTables \in Nat \ {0}
  /\ Legacy \in [Repos -> 0..NumPRs]
  /\ MaxUpdates \in Nat
  /\ PageSize \in Nat \ {0} /\ LinkPages \in Nat \ {0}
  /\ Allowances \subseteq Nat /\ Allowances # {}
  /\ Configs \subseteq SUBSET Repos /\ {} \notin Configs /\ Repos \in Configs
  /\ Environments \subseteq SUBSET Faults /\ Environments # {}

VARIABLES
  updated,    \* GitHub: when each pull request was last updated
  config,     \* pull_requests.repos
  faults,     \* what goes wrong in this behaviour; never changes
  \* the data directory
  stored,     \* the latest version of each pull request in each table
  marks,      \* the `github` watermark: a cursor for each repository
  linked,     \* pull requests whose links are stored
  linkMarks,  \* pr_issue_link_backfill_cursor: how many PRs were walked
  linkDone,   \* pr_issue_link_backfill_done
  lastGood,   \* status of the run last_good_runs.json names
  \* the run
  pc,         \* idle, collect, write, mark, good, links, writeLinks, markLinks, markDone
  repo,       \* the repository being walked
  table,      \* the table being written
  cursor,     \* of each repository in this run
  got,        \* the versions fetched by this run
  outcome,    \* of each repository
  spent,      \* pages this run has fetched
  allowance,  \* pages this run may fetch before the floor is reached
  before,     \* what was last updated when, as the run began
  gotLinks, linkCursor, linkOver, linkPages, exhausted   \* of the links' walk

source == <<updated, config>>
prDisk == <<stored, marks, lastGood>>
links  == <<linked, linkMarks, linkDone>>
prRun  == <<repo, table, cursor, got, outcome, before>>
meter  == <<spent, allowance>>
linkRun == <<gotLinks, linkCursor, linkOver, linkPages, exhausted>>
vars   == <<source, faults, prDisk, links, pc, prRun, meter, linkRun>>

Nothing == [r \in Repos |-> [i \in PRs |-> 0]]
None    == [r \in Repos |-> 0]
Larger(a, b) == IF a >= b THEN a ELSE b

-----------------------------------------------------------------------------
(* GitHub.                                                                 *)

(* The pull requests after a cursor, in the order of their last update.    *)
After(r, c) == {i \in PRs : updated[r][i] > c}

Page(r, c) == {i \in After(r, c) :
                 Cardinality({j \in After(r, c) : updated[r][j] < updated[r][i]}) < PageSize}

EndCursor(r, c) ==
  IF Page(r, c) = {} THEN c
  ELSE updated[r][CHOOSE i \in Page(r, c) : \A j \in Page(r, c) : updated[r][j] <= updated[r][i]]

(* The same, in the order of their creation.                               *)
Opened(r) == {i \in PRs : updated[r][i] > 0}
LinkPage(r, c)      == {i \in Opened(r) : i > c /\ i <= c + PageSize}
LinkEndCursor(r, c) == c + Cardinality(LinkPage(r, c))

Now(r) == CHOOSE t \in Times : /\ \E i \in PRs : updated[r][i] = t
                               /\ \A i \in PRs : updated[r][i] <= t

Update(r, i) ==
  /\ Now(r) < Legacy[r] + MaxUpdates
  /\ i > 1 => updated[r][i - 1] > 0
  /\ updated' = [updated EXCEPT ![r][i] = Now(r) + 1]
  /\ UNCHANGED <<config, faults, prDisk, links, pc, prRun, meter, linkRun>>

Reconfigure ==
  /\ "reconfigure" \in faults
  /\ pc = "idle"
  /\ config' \in Configs
  /\ UNCHANGED <<updated, faults, prDisk, links, pc, prRun, meter, linkRun>>

-----------------------------------------------------------------------------
(* GitHubCollector.collect                                                 *)

(* What collect returned is not used any more.                             *)
Collected == /\ repo' = 1 /\ table' = 1
             /\ cursor' = None /\ got' = Nothing /\ before' = Nothing
             /\ outcome' = [r \in Repos |-> "none"]

(* A process without memory of a run.                                      *)
Fresh == /\ Collected
         /\ spent' = 0 /\ allowance' = 0
         /\ gotLinks' = {} /\ linkCursor' = None /\ linkOver' = {} /\ linkPages' = 0
         /\ exhausted' = FALSE

Init ==
  /\ updated = [r \in Repos |-> [i \in PRs |-> IF i <= Legacy[r] THEN i ELSE 0]]
  /\ config = Repos
  /\ faults \in Environments
  /\ stored = [r \in Repos |-> [t \in Tables |-> [i \in PRs |-> 0]]]
  /\ marks = None
  /\ lastGood = "none"
  /\ linked = {} /\ linkMarks = None /\ linkDone = {}
  /\ pc = "idle"
  /\ repo = 1 /\ table = 1
  /\ cursor = None /\ got = Nothing /\ before = Nothing
  /\ outcome = [r \in Repos |-> "none"]
  /\ spent = 0
  /\ allowance = 0
  /\ gotLinks = {} /\ linkCursor = None /\ linkOver = {} /\ linkPages = 0
  /\ exhausted = FALSE

(* Mutant of BeginRun: the watermark is not read. *)
BeginRunAfresh ==
  /\ pc = "idle"
  /\ pc' = "collect"
  /\ cursor' = None
  /\ before' = updated
  /\ allowance' \in {a \in Allowances : "tight" \in faults \/ a >= NumRepos}
  /\ UNCHANGED <<source, faults, prDisk, links, repo, table, got, outcome, spent, linkRun>>

BeginRun ==
  /\ pc = "idle"
  /\ pc' = "collect"
  /\ cursor' = [r \in Repos |-> IF r \in config THEN marks[r] ELSE 0]
  /\ before' = updated
  /\ allowance' \in {a \in Allowances : "tight" \in faults \/ a >= NumRepos}
  /\ UNCHANGED <<source, faults, prDisk, links, repo, table, got, outcome, spent, linkRun>>

Collecting == pc = "collect" /\ repo \in Repos

(* floor_reached, as the page just fetched reports it *)
FloorReached == spent + 1 >= allowance

(* A repository that is not configured, or that an earlier one left        *)
(* without allowance (skipped), keeps its cursor.                          *)
SkipRepo ==
  /\ Collecting
  /\ repo \notin config \/ \E r \in Repos : outcome[r] = "rate_limited"
  /\ repo' = repo + 1
  /\ outcome' = [outcome EXCEPT ![repo] = IF repo \in config THEN "skipped" ELSE "none"]
  /\ UNCHANGED <<source, faults, prDisk, links, pc, table, cursor, got, before, meter, linkRun>>

Walking == /\ Collecting
           /\ repo \in config
           /\ \A r \in Repos : outcome[r] # "rate_limited"

(* The floor is looked at before the end of the list.                      *)
Verdict(r) ==
  IF FloorReached THEN "rate_limited"
  ELSE IF After(r, EndCursor(r, cursor[r])) = {} THEN "ok" ELSE "more"

FetchPage ==
  /\ Walking
  /\ got' = [got EXCEPT ![repo] = [i \in PRs |-> IF i \in Page(repo, cursor[repo])
                                                 THEN updated[repo][i] ELSE @[i]]]
  /\ cursor' = [cursor EXCEPT ![repo] = EndCursor(repo, @)]
  /\ spent' = spent + 1
  /\ IF Verdict(repo) = "more"
       THEN UNCHANGED <<repo, outcome>>
       ELSE repo' = repo + 1 /\ outcome' = [outcome EXCEPT ![repo] = Verdict(repo)]
  /\ UNCHANGED <<source, faults, prDisk, links, pc, table, before, allowance, linkRun>>

(* A request that fails after its retries ends this repository's walk, one *)
(* refused for the rate limit everyone's.                                  *)
StopRepo ==
  /\ Walking
  /\ \E why \in {"failed", "rate_limited"} :
       /\ (IF why = "failed" THEN "failure" ELSE "limit") \in faults
       /\ outcome' = [outcome EXCEPT ![repo] = why]
  /\ repo' = repo + 1
  /\ UNCHANGED <<source, faults, prDisk, links, pc, table, cursor, got, before, meter, linkRun>>

(* Any other HTTP status raises out of collect: nothing of this run is     *)
(* written, and the source is reported as failed.                          *)
EscapeCollect ==
  /\ Walking
  /\ "escape" \in faults
  /\ pc' = "links"
  /\ Collected
  /\ linkCursor' = linkMarks /\ linkOver' = linkDone
  /\ UNCHANGED <<source, faults, prDisk, links, meter, gotLinks, linkPages, exhausted>>

-----------------------------------------------------------------------------
(* _collect_github: three partitions, the watermark, the last-good pointer.*)

(* Mutant of EndCollect: the cursors are written before the tables. *)
EndCollectMarksFirst ==
  /\ pc = "collect"
  /\ repo = NumRepos + 1
  /\ pc' = "write"
  /\ repo' = 1
  /\ marks' = [r \in Repos |-> IF r \in config THEN cursor[r] ELSE 0]
  /\ UNCHANGED <<source, faults, stored, lastGood, links, table, cursor, got, outcome, before, meter, linkRun>>

EndCollect ==
  /\ pc = "collect"
  /\ repo = NumRepos + 1
  /\ pc' = "write"
  /\ repo' = 1
  /\ UNCHANGED <<source, faults, prDisk, links, table, cursor, got, outcome, before, meter, linkRun>>

(* Mutant of WriteTable: one table too many. *)
WriteTableOffByOne ==
  /\ pc = "write"
  /\ stored' = [r \in Repos |-> [stored[r] EXCEPT ![table] = [i \in PRs |-> Larger(@[i], got[r][i])]]]
  /\ IF table <= NumTables
       THEN table' = table + 1 /\ UNCHANGED pc
       ELSE table' = 1 /\ pc' = "mark"
  /\ UNCHANGED <<source, faults, marks, lastGood, links, repo, cursor, got, outcome, before, meter, linkRun>>

WriteTable ==
  /\ pc = "write"
  /\ stored' = [r \in Repos |-> [stored[r] EXCEPT ![table] = [i \in PRs |-> Larger(@[i], got[r][i])]]]
  /\ IF table < NumTables
       THEN table' = table + 1 /\ UNCHANGED pc
       ELSE table' = 1 /\ pc' = "mark"
  /\ UNCHANGED <<source, faults, marks, lastGood, links, repo, cursor, got, outcome, before, meter, linkRun>>

(* The watermark holds the configured repositories, and only them.         *)
WriteMarks ==
  /\ pc = "mark"
  /\ pc' = "good"
  /\ marks' = [r \in Repos |-> IF r \in config THEN cursor[r] ELSE 0]
  /\ UNCHANGED <<source, faults, stored, lastGood, links, prRun, meter, linkRun>>

(* Mutant of Status: one complete repository is enough. *)
StatusOfAny == LET seen == {outcome[r] : r \in config}
               IN  IF "ok" \in seen THEN "ok"
                   ELSE IF "failed" \in seen THEN "failed" ELSE "partial"

Status == LET seen == {outcome[r] : r \in config}
          IN  IF seen = {"ok"} THEN "ok"
              ELSE IF "failed" \in seen THEN "failed" ELSE "partial"

RecordLastGood ==
  /\ pc = "good"
  /\ pc' = "links"
  /\ lastGood' = IF Status = "failed" THEN lastGood ELSE Status
  /\ Collected
  /\ linkCursor' = linkMarks /\ linkOver' = linkDone
  /\ UNCHANGED <<source, faults, stored, marks, links, meter, gotLinks, linkPages, exhausted>>

-----------------------------------------------------------------------------
(* _collect_github_pr_issue_link_backfill                                  *)

Linking == pc = "links" /\ repo \in Repos /\ ~exhausted

SkipLinks ==
  /\ Linking
  /\ repo \notin config \/ repo \in linkOver \/ linkPages >= LinkPages
  /\ repo' = repo + 1
  /\ UNCHANGED <<source, faults, prDisk, links, pc, table, cursor, got, outcome, before, meter, linkRun>>

WalkingLinks == Linking /\ repo \in config \ linkOver /\ linkPages < LinkPages

(* Mutant of LinksOver: a repository cut by the page budget counts too. *)
LinksOverWhenCut(r) == linkPages + 1 >= LinkPages \/ LinkPage(r, LinkEndCursor(r, linkCursor[r])) = {}

LinksOver(r) == LinkPage(r, LinkEndCursor(r, linkCursor[r])) = {}

(* The floor is not looked at on a repository's last page.                 *)
FetchLinks ==
  /\ WalkingLinks
  /\ gotLinks' = gotLinks \cup ({repo} \X LinkPage(repo, linkCursor[repo]))
  /\ linkCursor' = [linkCursor EXCEPT ![repo] = LinkEndCursor(repo, @)]
  /\ linkPages' = linkPages + 1
  /\ spent' = spent + 1
  /\ linkOver' = IF LinksOver(repo) THEN linkOver \cup {repo} ELSE linkOver
  /\ exhausted' = (~LinksOver(repo) /\ FloorReached)
  /\ repo' = IF LinksOver(repo) THEN repo + 1 ELSE repo
  /\ UNCHANGED <<source, faults, prDisk, links, pc, table, cursor, got, outcome, before, allowance>>

StopLinks ==
  /\ WalkingLinks
  /\ \/ "failure" \in faults /\ repo' = repo + 1 /\ UNCHANGED exhausted
     \/ "limit" \in faults /\ exhausted' = TRUE /\ UNCHANGED repo
  /\ UNCHANGED <<source, faults, prDisk, links, pc, table, cursor, got, outcome, before, meter,
                 gotLinks, linkCursor, linkOver, linkPages>>

EndLinks ==
  /\ pc = "links"
  /\ repo = NumRepos + 1 \/ exhausted
  /\ pc' = "writeLinks"
  /\ UNCHANGED <<source, faults, prDisk, links, prRun, meter, linkRun>>

WriteLinks ==
  /\ pc = "writeLinks"
  /\ pc' = "markLinks"
  /\ linked' = linked \cup gotLinks
  /\ UNCHANGED <<source, faults, prDisk, linkMarks, linkDone, prRun, meter, linkRun>>

MarkLinks ==
  /\ pc = "markLinks"
  /\ pc' = "markDone"
  /\ linkMarks' = linkCursor
  /\ UNCHANGED <<source, faults, prDisk, linked, linkDone, prRun, meter, linkRun>>

MarkDone ==
  /\ pc = "markDone"
  /\ pc' = "idle"
  /\ linkDone' = linkOver
  /\ Fresh
  /\ UNCHANGED <<source, faults, prDisk, linked, linkMarks>>

(* An HTTP status that raises out of the links' walk, or the 15 minutes.   *)
Die ==
  /\ \/ "escape" \in faults /\ WalkingLinks
     \/ "kill" \in faults /\ pc # "idle"
  /\ pc' = "idle"
  /\ Fresh
  /\ UNCHANGED <<source, faults, prDisk, links>>

Run == \/ BeginRun \/ SkipRepo \/ FetchPage \/ EndCollect
       \/ WriteTable \/ WriteMarks \/ RecordLastGood
       \/ SkipLinks \/ FetchLinks \/ EndLinks \/ WriteLinks \/ MarkLinks \/ MarkDone

Fault == StopRepo \/ EscapeCollect \/ StopLinks \/ Die \/ Reconfigure

Next == Run \/ Fault \/ \E r \in Repos, i \in PRs : Update(r, i)

Spec == Init /\ [][Next]_vars

(* Runs are scheduled, and a run goes on until it ends.                    *)
FairSpec == Spec /\ WF_vars(Run)

-----------------------------------------------------------------------------
TypeOK ==
  /\ updated \in [Repos -> [PRs -> Times]] /\ config \in Configs /\ faults \in Environments
  /\ stored \in [Repos -> [Tables -> [PRs -> Times]]] /\ marks \in [Repos -> Times]
  /\ lastGood \in {"none", "ok", "partial"}
  /\ linked \subseteq Repos \X PRs /\ linkMarks \in [Repos -> 0..NumPRs] /\ linkDone \subseteq Repos
  /\ pc \in {"idle", "collect", "write", "mark", "good", "links", "writeLinks", "markLinks", "markDone"}
  /\ repo \in 1..(NumRepos + 1) /\ table \in Tables
  /\ cursor \in [Repos -> Times] /\ got \in [Repos -> [PRs -> Times]] /\ before \in [Repos -> [PRs -> Times]]
  /\ outcome \in [Repos -> {"none", "ok", "rate_limited", "failed", "skipped"}]
  /\ spent \in Nat /\ allowance \in Allowances \cup {0}
  /\ gotLinks \subseteq Repos \X PRs /\ linkCursor \in [Repos -> 0..NumPRs]
  /\ linkOver \subseteq Repos /\ linkPages \in 0..LinkPages /\ exhausted \in BOOLEAN

(* A run that reports `ok` has stored all there was as it began, in every  *)
(* configured repository.                                                  *)
OkMeansComplete ==
  (pc = "good" /\ Status = "ok") =>
    \A r \in config, t \in Tables, i \in PRs : stored[r][t][i] >= before[r][i]

(* The links' walk never leaves a hole: what its cursor has passed is      *)
(* stored, and a repository that is done has the links of every pull       *)
(* request collected before links were.                                    *)
LinksComplete ==
  \A r \in Repos :
    /\ \A i \in 1..linkMarks[r] : <<r, i>> \in linked
    /\ r \in linkDone => {r} \X (1..Legacy[r]) \subseteq linked

(* The data directory is an at-least-once feed of the versions of each     *)
(* pull request: what a cursor will never ask for again can be read, with  *)
(* its reviews and comments, although updates arrive while pages are       *)
(* walked and the process may be killed between the tables.                *)
Versions == Repos \X PRs \X (Times \ {0})
Readable == {v \in Versions : \A t \in Tables : stored[v[1]][t][v[2]] >= v[3]}
Settled  == {v \in Versions : v[3] <= updated[v[1]][v[2]] /\ updated[v[1]][v[2]] <= marks[v[1]]}

Feed == INSTANCE AtLeastOnceFeed
          WITH Events <- Versions, delivered <- Readable, settled <- Settled

DeliversAtLeastOnce == Feed!FeedSpec

(* When nothing fails and a run may fetch a page for each repository,      *)
(* every update is stored in the end, whatever the order of the            *)
(* repositories, and the links' walk comes to its end.                     *)
EventuallyComplete ==
  faults = {} =>
    /\ <>[](\A r \in Repos, t \in Tables, i \in PRs : stored[r][t][i] = updated[r][i])
    /\ <>(linkDone = Repos)

=============================================================================
