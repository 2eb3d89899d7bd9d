--------------------------- MODULE GitCollection ---------------------------
(***************************************************************************)
(* The `git` source of one project, night after night: the nightly         *)
(* workflow restores a cached clone, `_collect_git` walks the default      *)
(* branch from its watermarks, appends partitions to the raw store, moves  *)
(* the watermarks, re-derives reviewer credits after a parser change, and  *)
(* the workflow commits whatever the data directory then holds.            *)
(*                                                                         *)
(* A commit is its position on the default branch (merges are never        *)
(* walked). A table is the number of rows it holds for each commit,        *)
(* counted up to MaxCopies. A file write is one step; what a kill in the   *)
(* middle of a write leaves behind is the subject of module Nightly.       *)
(***************************************************************************)
EXTENDS Naturals, FiniteSets

CONSTANTS
  MaxCommits,           \* length of the default branch (bound)
  MaxParser,            \* last PARSER_VERSION ever released (bound)
  MaxCopies,            \* rows of one commit counted exactly up to here (bound)
  MaxFaults,            \* faults the environment may inject (bound)
  Bots,                 \* commits whose author matches a bot pattern
  Credited,             \* Credited[v]: commits whose trailer names a reviewer
                        \* under parser version v
  Environments          \* each a project's kind of branch and its faults

Commits  == 1..MaxCommits
Position == 0..MaxCommits          \* 0: no watermark
Parsers  == 1..MaxParser
Rows     == [Commits -> 0..MaxCopies]

(***************************************************************************)
(* Where each kind of interruption can strike. An exception is caught by   *)
(* `_collect_git` (or, in the reparse, by the reparse itself); `timeout`   *)
(* kills the process anywhere. All of them leave what is already on disk.  *)
(***************************************************************************)
Collecting == {"acquire", "walk", "contribution_event", "file_change_event",
               "review_event", "watermark", "file_watermark", "last_good",
               "check_parser", "reparse", "marker"}

Strikes == [outage        |-> {"acquire", "walk"},
            write_error   |-> {"contribution_event", "file_change_event",
                               "review_event", "watermark", "file_watermark",
                               "last_good", "check_parser"},
            reparse_error |-> {"reparse", "marker"},
            timeout       |-> Collecting]

FaultKinds == DOMAIN Strikes \cup {"job_lost", "cache_miss", "cache_evicted"}

(* `git clone` creates a local branch of the name `default_branch` when     *)
(* that is the remote's HEAD.                                               *)
Environment == [defaultIsHead : BOOLEAN, faults : SUBSET FaultKinds]

ASSUME GitAssumption ==
  /\ MaxCommits \in Nat \ {0}
  /\ MaxParser \in Nat \ {0}
  /\ MaxCopies \in Nat \ {0, 1}
  /\ MaxFaults \in Nat
  /\ Bots \subseteq Commits
  /\ Credited \in [Parsers -> SUBSET Commits]
  /\ Environments \subseteq Environment /\ Environments # {}

VARIABLES
  upstream,   \* tip of the default branch on GitHub
  cache,      \* the clone actions/cache keeps between nights
  workdir,    \* the clone this night works in
  parser,     \* PARSER_VERSION of the deployed code
  data,       \* the data directory of this night's checkout
  branch,     \* the pushed data branch
  pc,         \* where the night is
  walk,       \* locals of _collect_git: start of each walk, and the ref walked
  faults,     \* faults injected so far
  env         \* the environment of this behaviour; never changes

vars == <<upstream, cache, workdir, parser, data, branch, pc, walk, faults, env>>

Clone   == [local : Position, remote : Position]
NoClone == [local |-> 0, remote |-> 0]

(***************************************************************************)
(* raw/git/{contribution,file_change,review}_event, the watermarks `git`,  *)
(* `git:file_change_event` and `git:review_event_parser_version`, and the  *)
(* last good run, named by the position it collected up to.                *)
(***************************************************************************)
Store == [contributions : Rows,
          fileChanges   : Rows,
          reviews       : [Parsers -> Rows],
          watermark     : Position,
          fileWatermark : Position,
          marker        : 0..MaxParser,
          lastGood      : Position]

Walks == [from : Position, fileFrom : Position, to : Position]

TypeOK ==
  /\ upstream \in Commits
  /\ cache \in Clone
  /\ workdir \in Clone
  /\ parser \in Parsers
  /\ data \in Store
  /\ branch \in Store
  /\ pc \in Collecting \cup {"idle", "finished"}
  /\ walk \in Walks
  /\ faults \in 0..MaxFaults
  /\ env \in Environments

-----------------------------------------------------------------------------
(* Helpers.                                                                *)

(* Mutant of Walked: the watermark commit itself is walked again. *)
WalkedInclusive(from, to) == (from..to) \ Bots

(* `git log from..to`, bots dropped. *)
Walked(from, to) == ((from + 1)..to) \ Bots

(* One more partition holding a row of each commit of S. *)
Appended(rows, S) ==
  [c \in Commits |-> IF c \in S /\ rows[c] < MaxCopies
                       THEN rows[c] + 1 ELSE rows[c]]

(* _resolve_ref: a local branch wins over origin/<default_branch>. *)
ResolveRef(clone) == IF clone.local > 0 THEN clone.local ELSE clone.remote

(* Mutant of CloneOrFetch: an existing clone is not fetched. *)
CloneOnly(clone) ==
  IF clone = NoClone
    THEN [local  |-> IF env.defaultIsHead THEN upstream ELSE 0,
          remote |-> upstream]
    ELSE clone

(* clone_or_fetch: a new clone creates the local branch, a fetch moves only *)
(* the remote-tracking one.                                                 *)
CloneOrFetch(clone) ==
  IF clone = NoClone
    THEN [local  |-> IF env.defaultIsHead THEN upstream ELSE 0,
          remote |-> upstream]
    ELSE [clone EXCEPT !.remote = upstream]

Goto(from, to) == pc = from /\ pc' = to

Fault(kind) == /\ kind \in env.faults
               /\ faults < MaxFaults
               /\ faults' = faults + 1

-----------------------------------------------------------------------------
(***************************************************************************)
(* Data directories the program meets: a new one, and one collected before *)
(* `file_change_event` and the parser marker existed.                      *)
(***************************************************************************)
OneRowEach(S) == [c \in Commits |-> IF c \in S THEN 1 ELSE 0]

LegacyStore(n) ==
  [contributions |-> OneRowEach(Walked(0, n)),
   fileChanges   |-> OneRowEach({}),
   reviews       |-> [v \in Parsers |->
                        OneRowEach(IF v = 1 THEN Walked(0, n) \cap Credited[1]
                                               ELSE {})],
   watermark     |-> n,
   fileWatermark |-> 0,
   marker        |-> 0,
   lastGood      |-> n]

Init ==
  /\ upstream \in Commits
  /\ \E n \in 0..upstream : data = LegacyStore(n)
  /\ branch = data
  /\ cache = NoClone
  /\ workdir = NoClone
  /\ parser \in Parsers
  /\ pc = "idle"
  /\ walk = [from |-> 0, fileFrom |-> 0, to |-> 0]
  /\ faults = 0
  /\ env \in Environments

-----------------------------------------------------------------------------
(* The world around the night.                                             *)

Push ==
  /\ upstream < MaxCommits
  /\ upstream' = upstream + 1
  /\ UNCHANGED <<cache, workdir, parser, data, branch, pc, walk, faults, env>>

ReleaseParser ==
  /\ pc = "idle"
  /\ parser < MaxParser
  /\ parser' = parser + 1
  /\ UNCHANGED <<upstream, cache, workdir, data, branch, pc, walk, faults, env>>

EvictCache ==
  /\ Fault("cache_evicted")
  /\ cache # NoClone
  /\ cache' = NoClone
  /\ UNCHANGED <<upstream, workdir, parser, data, branch, pc, walk, env>>

-----------------------------------------------------------------------------
(* The night.                                                              *)

(* Check out the data branch, restore the cached clone. *)
BeginNight ==
  /\ Goto("idle", "acquire")
  /\ data' = branch
  /\ \/ workdir' = cache /\ UNCHANGED faults
     \/ workdir' = NoClone /\ Fault("cache_miss")
  /\ UNCHANGED <<upstream, cache, parser, branch, walk, env>>

Acquire ==
  /\ Goto("acquire", "walk")
  /\ workdir' = CloneOrFetch(workdir)
  /\ UNCHANGED <<upstream, cache, parser, data, branch, walk, faults, env>>

(* Mutant of Walk: file_change_event shares the `git` watermark. *)
WalkSharedWatermark ==
  /\ Goto("walk", "contribution_event")
  /\ walk' = [from     |-> data.watermark,
              fileFrom |-> data.watermark,
              to       |-> ResolveRef(workdir)]
  /\ UNCHANGED <<upstream, cache, workdir, parser, data, branch, faults, env>>

Walk ==
  /\ Goto("walk", "contribution_event")
  /\ walk' = [from     |-> data.watermark,
              fileFrom |-> data.fileWatermark,
              to       |-> ResolveRef(workdir)]
  /\ UNCHANGED <<upstream, cache, workdir, parser, data, branch, faults, env>>

WriteContributions ==
  /\ Goto("contribution_event", "file_change_event")
  /\ data' = [data EXCEPT !.contributions =
                Appended(@, Walked(walk.from, walk.to))]
  /\ UNCHANGED <<upstream, cache, workdir, parser, branch, walk, faults, env>>

WriteFileChanges ==
  /\ Goto("file_change_event", "review_event")
  /\ data' = [data EXCEPT !.fileChanges =
                Appended(@, Walked(walk.fileFrom, walk.to))]
  /\ UNCHANGED <<upstream, cache, workdir, parser, branch, walk, faults, env>>

WriteReviews ==
  /\ Goto("review_event", "watermark")
  /\ data' = [data EXCEPT !.reviews[parser] =
                Appended(@, Walked(walk.from, walk.to) \cap Credited[parser])]
  /\ UNCHANGED <<upstream, cache, workdir, parser, branch, walk, faults, env>>

(* Mutant of AdvanceWatermark: the fetched tip rather than the ref walked. *)
AdvanceWatermarkToFetched ==
  /\ Goto("watermark", "file_watermark")
  /\ data' = [data EXCEPT !.watermark = workdir.remote]
  /\ UNCHANGED <<upstream, cache, workdir, parser, branch, walk, faults, env>>

AdvanceWatermark ==
  /\ Goto("watermark", "file_watermark")
  /\ data' = [data EXCEPT !.watermark = walk.to]
  /\ UNCHANGED <<upstream, cache, workdir, parser, branch, walk, faults, env>>

AdvanceFileWatermark ==
  /\ Goto("file_watermark", "last_good")
  /\ data' = [data EXCEPT !.fileWatermark = walk.to]
  /\ UNCHANGED <<upstream, cache, workdir, parser, branch, walk, faults, env>>

RecordLastGood ==
  /\ Goto("last_good", "check_parser")
  /\ data' = [data EXCEPT !.lastGood = walk.to]
  /\ UNCHANGED <<upstream, cache, workdir, parser, branch, walk, faults, env>>

(* The reparse is skipped when the marker is current or this was the first *)
(* collection; the marker is then written unless it is current.            *)
SkipReparse ==
  /\ Goto("check_parser", "finished")
  /\ data.marker = parser \/ walk.from = 0
  /\ data' = [data EXCEPT !.marker = parser]
  /\ UNCHANGED <<upstream, cache, workdir, parser, branch, walk, faults, env>>

(* Mutant of StartReparse: the marker is written before the reparse. *)
StartReparseMarkedFirst ==
  /\ Goto("check_parser", "reparse")
  /\ data.marker # parser
  /\ walk.from # 0
  /\ data' = [data EXCEPT !.marker = parser]
  /\ UNCHANGED <<upstream, cache, workdir, parser, branch, walk, faults, env>>

StartReparse ==
  /\ Goto("check_parser", "reparse")
  /\ data.marker # parser
  /\ walk.from # 0
  /\ UNCHANGED <<upstream, cache, workdir, parser, data, branch, walk, faults, env>>

(* derive_review_events walks the whole history of the ref. *)
WriteReparse ==
  /\ Goto("reparse", "marker")
  /\ data' = [data EXCEPT !.reviews[parser] =
                Appended(@, Walked(0, ResolveRef(workdir)) \cap Credited[parser])]
  /\ UNCHANGED <<upstream, cache, workdir, parser, branch, walk, faults, env>>

WriteMarker ==
  /\ Goto("marker", "finished")
  /\ data' = [data EXCEPT !.marker = parser]
  /\ UNCHANGED <<upstream, cache, workdir, parser, branch, walk, faults, env>>

(* An exception or a kill: the rest of the collection does not happen. *)
Interrupt(kind) ==
  /\ kind \in DOMAIN Strikes
  /\ pc \in Strikes[kind]
  /\ Fault(kind)
  /\ pc' = "finished"
  /\ UNCHANGED <<upstream, cache, workdir, parser, data, branch, walk, env>>

(* The job itself dies: nothing is committed and no clone is saved. *)
LoseJob ==
  /\ pc # "idle"
  /\ Fault("job_lost")
  /\ pc' = "idle"
  /\ data' = branch
  /\ workdir' = NoClone
  /\ UNCHANGED <<upstream, cache, parser, branch, walk, env>>

(* Commit and push the data directory as it is. The clone is saved only     *)
(* when there is one and no cache entry of this week's key exists yet.      *)
Publish ==
  /\ Goto("finished", "idle")
  /\ branch' = data
  /\ cache' \in IF workdir = NoClone THEN {cache} ELSE {cache, workdir}
  /\ workdir' = NoClone
  /\ UNCHANGED <<upstream, parser, data, walk, faults, env>>

Night ==
  \/ BeginNight \/ Acquire \/ Walk
  \/ WriteContributions \/ WriteFileChanges \/ WriteReviews
  \/ AdvanceWatermark \/ AdvanceFileWatermark \/ RecordLastGood
  \/ SkipReparse \/ StartReparse \/ WriteReparse \/ WriteMarker
  \/ Publish

Next ==
  \/ Push \/ ReleaseParser \/ EvictCache
  \/ Night
  \/ \E kind \in DOMAIN Strikes : Interrupt(kind)
  \/ LoseJob

Spec == Init /\ [][Next]_vars

(* The workflow is scheduled every night and each of its steps is run by    *)
(* the job, so the night as a whole keeps moving.                           *)
FairSpec == Spec /\ WF_vars(Night)

-----------------------------------------------------------------------------
(* Reading the store.                                                      *)

Collected(rows) == {c \in Commits : rows[c] > 0}

(* What the watermark says need never be walked again. *)
Behind(position) == Walked(0, position)

-----------------------------------------------------------------------------
(* Properties.                                                             *)

Stores == {data, branch}

(* A commit the `git` watermark has passed has its contribution row, on the *)
(* checkout and on the branch, wherever earlier nights were interrupted:    *)
(* partitions are written before the watermark moves, and the watermark     *)
(* moves to the very ref that was walked.                                   *)
NothingLost ==
  \A store \in Stores :
    Behind(store.watermark) \subseteq Collected(store.contributions)

(* The same for file_change_event and its own watermark: a data directory   *)
(* collected before that table existed still gets its full history.         *)
FileHistoryKept ==
  \A store \in Stores :
    Behind(store.fileWatermark) \subseteq Collected(store.fileChanges)

(* The run `last_good_snapshot` names really left its commits in the store. *)
LastGoodTrustworthy ==
  \A store \in Stores :
    Behind(store.lastGood) \subseteq Collected(store.contributions)

(* All that a recorded position stands for is there.                        *)
WatermarksCovered == NothingLost /\ FileHistoryKept /\ LastGoodTrustworthy

(* Once the marker says parser version v is in force, no commit behind the  *)
(* watermark is still read at an older version -- readers keep the highest  *)
(* version a commit has rows of -- (unless a parser from v on               *)
(* credits nobody for it): the reparse and the incremental walk together    *)
(* reach every commit, whatever was interrupted in between.                 *)
CorrectionsReplace ==
  \A store \in Stores : \A c \in Behind(store.watermark) :
    LET Current == {v \in Parsers : v >= store.marker}
    IN  (store.marker > 0 /\ \A v \in Current : c \in Credited[v])
          => \E v \in Current : store.reviews[v][c] > 0

(* The walk never collects a commit again (pipeline.py, Read-time dedupe),  *)
(* so that the metrics, which do not deduplicate commits, count it once.    *)
CollectedOnce ==
  \A c \in Commits : branch.contributions[c] <= 1 /\ branch.fileChanges[c] <= 1

(* It does not unless a night is cut between its first partition and its    *)
(* last watermark, or an older clone comes back.                            *)
CollectedOnceUnlessCut ==
  env.faults \cap {"write_error", "timeout", "cache_miss"} = {} => CollectedOnce

(* A commit pushed to the default branch is eventually on the data branch.  *)
EventuallyCollected ==
  \A c \in Commits \ Bots :
    (upstream >= c) ~> (branch.contributions[c] > 0)

(* It is when a fetch moves the ref that is walked.                         *)
CollectedUnlessHead == ~env.defaultIsHead => EventuallyCollected

(* The data branch, read through contribution_event and its watermark, is   *)
(* an at-least-once feed of the commits.                                    *)
Feed == INSTANCE AtLeastOnceFeed
          WITH Events    <- Commits,
               delivered <- Collected(branch.contributions),
               settled   <- Behind(branch.watermark)

DeliversAtLeastOnce == Feed!FeedSpec

=============================================================================
