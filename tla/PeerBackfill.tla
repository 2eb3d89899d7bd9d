---------------------------- MODULE PeerBackfill ----------------------------
(***************************************************************************)
(* The GitHub backfill of one peer project: each run walks the peer's pull *)
(* requests in three passes, each resumable through a `PassState` of its   *)
(* own, then writes the rows all three brought, and at the end snapshots   *)
(* the metrics with each pass's settlement, which decides which numbers    *)
(* the /peers/ page shows.                                                 *)
(*                                                                         *)
(* A pull request is its position in creation order (distinct dates); bots *)
(* are left out. A step is a whole pass of one run, since nothing is       *)
(* written before the pass ends. The job's own timeout publishes nothing,  *)
(* so such a run did not happen; an exception is followed by the commit of *)
(* what is on disk (`Crash`).                                              *)
(***************************************************************************)
EXTENDS Integers, FiniteSets, FiniteSetsExt

CONSTANTS
  MaxPRs,        \* pull requests ever created (bound)
  PageSize,      \* pull requests on a page
  Shares,        \* page caps a run may give an unsettled peer's passes
  FreshDays,     \* settlement_freshness_days
  WindowStart,   \* first pull request of the comparison window
  InitialOpen,   \* open when the story begins
  InitialClosed, \* closed inside the window when the story begins
  InitialPRs,    \* created when the story begins
  Environments   \* each a set of the kinds of fault that may happen

PRs    == 1..MaxPRs
Passes == {"created_desc", "open_prs", "closed_search"}
None   == 0                        \* an absent cursor or date

(* "capped": a share may be less than what there is to walk. *)
FaultKinds == {"capped", "floor", "rate_limited", "failed", "crash"}

ASSUME PeerAssumption ==
  /\ MaxPRs \in Nat \ {0}
  /\ PageSize \in Nat \ {0}
  /\ Shares \subseteq Nat \ {0} /\ Shares # {} /\ IsFiniteSet(Shares)
  /\ FreshDays \in Nat
  /\ WindowStart \in PRs
  /\ InitialPRs \in 0..MaxPRs
  /\ InitialOpen \subseteq 1..InitialPRs
  /\ InitialClosed \subseteq (1..InitialPRs) \ InitialOpen
  /\ (WindowStart..InitialPRs) \subseteq InitialOpen \cup InitialClosed
  /\ Environments \subseteq SUBSET FaultKinds /\ Environments # {}

VARIABLES
  created,    \* the newest pull request on GitHub
  open,       \* the open ones
  closed,     \* the ones closed inside the window
  mark,       \* the watermark `pr_pass_<pass>` of each pass
  rows,       \* pull requests with a row on the data branch
  pc,         \* where the run is
  cap,        \* pages each pass may fetch this run
  exhausted,  \* budget_exhausted
  buffer,     \* rows collected this run and not written yet
  faults      \* the kinds of fault of this behaviour; never changes

upstream == <<created, open, closed>>
vars == <<created, open, closed, mark, rows, pc, cap, exhausted, buffer, faults>>

-----------------------------------------------------------------------------
(***************************************************************************)
(* PassState. last_completed_at is kept as its age in days.                *)
(***************************************************************************)
Stale == FreshDays + 1             \* any age past the freshness bound
Never == FreshDays + 2             \* no last_completed_at

PassState == [written : BOOLEAN,           \* the watermark key exists
              cursor  : 0..MaxPRs,
              high    : 0..MaxPRs,         \* high_watermark
              newest  : 0..MaxPRs,         \* newest_seen
              age     : 0..Never]          \* of last_completed_at

EmptyState == [written |-> FALSE, cursor |-> None, high |-> None,
               newest |-> None, age |-> Never]

(* A watermark of a completed pass from before last_completed_at existed. *)
LegacyState(pass) ==
  [EmptyState EXCEPT !.written = TRUE,
                     !.high = IF pass = "created_desc" THEN InitialPRs ELSE None]

(* The rule before last_completed_at existed. *)
LooksCompleted(pass, state) ==
  /\ state.cursor = None
  /\ pass = "created_desc" => state.high # None

(* Mutants of Settled: settlement never ages; a pass that never ran counts. *)
SettledForever(pass, state) ==
  /\ state.written
  /\ state.age # Never \/ LooksCompleted(pass, state)

SettledUnwritten(pass, state) ==
  IF state.age # Never THEN state.age <= FreshDays
                       ELSE LooksCompleted(pass, state)

(* _pass_settled *)
Settled(pass, state) ==
  /\ state.written
  /\ IF state.age # Never THEN state.age <= FreshDays
                          ELSE LooksCompleted(pass, state)

(* _recently_completed: within 20 hours, so on the same day. *)
RecentlyCompleted(state) == state.age = 0

-----------------------------------------------------------------------------
(***************************************************************************)
(* The three walks. `created_desc` and `open_prs` resume after the pull    *)
(* request the cursor names; a search cursor counts results consumed.      *)
(***************************************************************************)
Before(pass, p, q) == IF pass = "open_prs" THEN p < q ELSE p > q

Listed(pass, cursor) ==
  CASE pass = "created_desc"  -> {p \in 1..created : cursor = None \/ p < cursor}
    [] pass = "open_prs"      -> {p \in open : p > cursor}
    [] pass = "closed_search" ->
         {p \in closed : Cardinality({q \in closed : q > p}) >= cursor}

(* The first k pages after the cursor. *)
Pages(pass, cursor, k) ==
  LET list == Listed(pass, cursor)
  IN  {p \in list :
         Cardinality({q \in list : Before(pass, q, p)}) < k * PageSize}

EndCursor(pass, cursor, k) ==
  LET page == Pages(pass, cursor, k)
  IN  CASE page = {}               -> cursor
        [] page # {} /\ pass = "created_desc"  -> Min(page)
        [] page # {} /\ pass = "open_prs"      -> Max(page)
        [] page # {} /\ pass = "closed_search" -> cursor + Cardinality(page)

Later(p, q) == IF p > q THEN p ELSE q

(* Where created_desc stops: at the window, or at what an earlier complete *)
(* walk has seen.                                                          *)
StopThreshold(state) == Later(WindowStart, state.high)

(* A created_desc pass that has completed once starts from the top. *)
StartCursor(pass, state) ==
  IF pass = "created_desc" /\ state.high # None THEN None ELSE state.cursor

(* After k pages: the last page, or one that goes past the stop threshold. *)
Finished(pass, state, k) ==
  LET cursor == StartCursor(pass, state)
      page   == Pages(pass, cursor, k)
  IN  \/ Listed(pass, cursor) \subseteq page
      \/ pass = "created_desc" /\ \E p \in page : p < StopThreshold(state)

LastPage(pass, state) ==
  CHOOSE k \in 1..(MaxPRs + 1) :
    /\ Finished(pass, state, k)
    /\ \A j \in 1..(k - 1) : ~Finished(pass, state, j)

(* The ways a walk can end, and after how many pages. *)
Outcomes(pass, state) ==
  LET last == LastPage(pass, state)
      cut(kind, pages) == {<<kind, k>> : k \in {j \in pages : j < last}}
  IN  (IF last <= cap THEN {<<"completed", last>>} ELSE {<<"page_capped", cap>>})
      \cup (IF "floor" \in faults THEN cut("partial", 1..cap) ELSE {})
      \cup (IF "rate_limited" \in faults
              THEN cut("rate_limited", 0..(cap - 1)) ELSE {})
      \cup (IF "failed" \in faults THEN cut("failed", 0..(cap - 1)) ELSE {})

(* The rows a walk of k pages brings. *)
Kept(pass, state, k) ==
  LET page == Pages(pass, StartCursor(pass, state), k)
  IN  IF pass = "created_desc"
        THEN {p \in page : p >= StopThreshold(state)}
        ELSE page

NewestSeen(state, k) ==
  LET page == Pages("created_desc", StartCursor("created_desc", state), k)
  IN  IF page = {} THEN state.newest ELSE Later(Max(page), state.newest)

(* Mutant of NextCreatedDesc: newest_seen is promoted before the walk ends. *)
NextCreatedDescPromoted(state, status, k) ==
  LET newest == NewestSeen(state, k)
  IN  CASE status = "completed" ->
             [EmptyState EXCEPT !.high = IF newest # None THEN newest ELSE state.high]
        [] status \in {"partial", "page_capped"} ->
             [EmptyState EXCEPT
                !.cursor = EndCursor("created_desc",
                                     StartCursor("created_desc", state), k),
                !.high   = newest,
                !.newest = newest]
        [] OTHER -> state

(* run_created_desc_pass's next_state *)
NextCreatedDesc(state, status, k) ==
  LET newest == NewestSeen(state, k)
  IN  CASE status = "completed" ->
             [EmptyState EXCEPT !.high = IF newest # None THEN newest ELSE state.high]
        [] status \in {"partial", "page_capped"} ->
             [EmptyState EXCEPT
                !.cursor = EndCursor("created_desc",
                                     StartCursor("created_desc", state), k),
                !.high   = state.high,
                !.newest = newest]
        [] OTHER -> state

(* run_open_prs_pass's and run_closed_search_pass's next_state *)
NextListing(pass, state, status, k) ==
  [EmptyState EXCEPT
     !.cursor = IF status = "completed" THEN None
                                        ELSE EndCursor(pass, state.cursor, k)]

NextState(pass, state, status, k) ==
  IF pass = "created_desc" THEN NextCreatedDesc(state, status, k)
                           ELSE NextListing(pass, state, status, k)

(* Mutant of Stamped: a refresh in progress loses the earlier completion. *)
StampedAfresh(pass, state, next, status) ==
  IF status = "completed" THEN [next EXCEPT !.written = TRUE, !.age = 0]
                          ELSE [next EXCEPT !.written = TRUE]

(* _stamp_last_completed_at *)
Stamped(pass, state, next, status) ==
  LET inherited == IF state.written /\ state.age = Never /\ LooksCompleted(pass, state)
                     THEN 0 ELSE state.age
      age == CASE status = "completed"                   -> 0
               [] status \in {"partial", "page_capped"}  -> inherited
               [] OTHER                                  -> next.age
  IN  [next EXCEPT !.written = TRUE, !.age = age]

-----------------------------------------------------------------------------
Order == <<"created_desc", "open_prs", "closed_search", "write">>

After(pass) == CHOOSE stage \in {Order[i] : i \in 2..4} :
                 \E i \in 1..3 : Order[i] = pass /\ Order[i + 1] = stage

(* What a peer's settled passes promise to the page: for created_desc, the *)
(* window; for the others, what was to be listed when the story began and  *)
(* still is.                                                               *)
Promised(pass) ==
  CASE pass = "created_desc"  -> WindowStart..InitialPRs
    [] pass = "open_prs"      -> InitialOpen \cap open
    [] pass = "closed_search" -> InitialClosed

Init ==
  /\ created = InitialPRs
  /\ open = InitialOpen
  /\ closed = InitialClosed
  /\ \E legacy \in SUBSET Passes :
       /\ "created_desc" \in legacy => InitialPRs > 0
       /\ mark = [pass \in Passes |-> IF pass \in legacy THEN LegacyState(pass)
                                                         ELSE EmptyState]
       /\ rows = UNION {Promised(pass) : pass \in legacy}
  /\ pc = "idle"
  /\ cap = 1
  /\ exhausted = FALSE
  /\ buffer = {}
  /\ faults \in Environments

CreatePR ==
  /\ created < MaxPRs
  /\ created' = created + 1
  /\ open' = open \cup {created + 1}
  /\ UNCHANGED <<closed, mark, rows, pc, cap, exhausted, buffer, faults>>

ClosePR(p) ==
  /\ p \in open
  /\ open' = open \ {p}
  /\ closed' = closed \cup {p}
  /\ UNCHANGED <<created, mark, rows, pc, cap, exhausted, buffer, faults>>

(* A day goes by between two runs. *)
Tick ==
  /\ pc = "idle"
  /\ mark' = [pass \in Passes |->
                [mark[pass] EXCEPT !.age = IF @ < Stale THEN @ + 1 ELSE @]]
  /\ UNCHANGED <<upstream, rows, pc, cap, exhausted, buffer, faults>>

AllSettled == \A pass \in Passes : Settled(pass, mark[pass])

PageCaps == IF "capped" \in faults THEN Shares ELSE {Max(Shares)}

(* Mutant of BeginRun: the fair share is not kept above zero. *)
BeginRunEmptyShare ==
  /\ pc = "idle"
  /\ pc' = "created_desc"
  /\ cap' \in IF AllSettled THEN {1} ELSE {0} \cup PageCaps
  /\ exhausted' \in IF "floor" \in faults THEN BOOLEAN ELSE {FALSE}
  /\ UNCHANGED <<upstream, mark, rows, buffer, faults>>

(* The page cap: one page for a settled peer, else a share of the budget.  *)
(* Another peer may already have reached the rate-limit floor.             *)
BeginRun ==
  /\ pc = "idle"
  /\ pc' = "created_desc"
  /\ cap' \in IF AllSettled THEN {1} ELSE PageCaps
  /\ exhausted' \in IF "floor" \in faults THEN BOOLEAN ELSE {FALSE}
  /\ UNCHANGED <<upstream, mark, rows, buffer, faults>>

SkipPass ==
  /\ pc \in Passes
  /\ exhausted \/ RecentlyCompleted(mark[pc])
  /\ pc' = After(pc)
  /\ UNCHANGED <<upstream, mark, rows, cap, exhausted, buffer, faults>>

RunPass ==
  /\ pc \in Passes
  /\ ~exhausted
  /\ ~RecentlyCompleted(mark[pc])
  /\ \E outcome \in Outcomes(pc, mark[pc]) :
       LET status == outcome[1]
           k      == outcome[2]
           state  == mark[pc]
       IN  /\ mark' = [mark EXCEPT ![pc] =
                         Stamped(pc, state, NextState(pc, state, status, k), status)]
           /\ buffer' = buffer \cup Kept(pc, state, k)
           /\ exhausted' = (status \in {"partial", "rate_limited"})
  /\ pc' = After(pc)
  /\ UNCHANGED <<upstream, rows, cap, faults>>

(* The peer's pr, pr_review and pr_comment partitions. *)
WriteRows ==
  /\ pc = "write"
  /\ pc' = "snapshot"
  /\ rows' = rows \cup buffer
  /\ buffer' = {}
  /\ UNCHANGED <<upstream, mark, cap, exhausted, faults>>

(* Metrics and settlement are computed from the store as it now is. *)
TakeSnapshot ==
  /\ pc = "snapshot"
  /\ pc' = "idle"
  /\ UNCHANGED <<upstream, mark, rows, cap, exhausted, buffer, faults>>

(* An exception the collection does not catch ends the run; the workflow   *)
(* still commits the data branch.                                          *)
Crash ==
  /\ "crash" \in faults
  /\ pc # "idle"
  /\ pc' = "idle"
  /\ buffer' = {}
  /\ UNCHANGED <<upstream, mark, rows, cap, exhausted, faults>>

Run == BeginRun \/ SkipPass \/ RunPass \/ WriteRows \/ TakeSnapshot

Next == CreatePR \/ (\E p \in PRs : ClosePR(p)) \/ Tick \/ Run \/ Crash

Spec == Init /\ [][Next]_vars

(* Runs are scheduled, and days go by. *)
FairSpec == Spec /\ WF_vars(Run) /\ SF_vars(Tick)

-----------------------------------------------------------------------------
TypeOK ==
  /\ created \in 0..MaxPRs
  /\ open \subseteq 1..created
  /\ closed \subseteq (1..created) \ open
  /\ mark \in [Passes -> PassState]
  /\ rows \subseteq PRs
  /\ pc \in Passes \cup {"idle", "write", "snapshot"}
  /\ cap \in Shares \cup {1}
  /\ exhausted \in BOOLEAN
  /\ buffer \subseteq PRs
  /\ faults \in Environments

(* Once created_desc has reached the window's start, no pull request of    *)
(* the window up to its high watermark is missing from the store or from   *)
(* what this run is about to write: resuming, capping, restarting from the *)
(* top and failing in between skip nothing. An exception that ends a run   *)
(* after the watermark is written and before the rows are does lose them.  *)
WindowCovered ==
  "crash" \notin faults =>
    \A p \in WindowStart..mark["created_desc"].high : p \in rows \cup buffer

(* A snapshot's settlement is honest: behind a settled pass, the store     *)
(* holds what the pass promises, so no number the page shows is computed   *)
(* from an unfinished backfill (METRICS.md, settlement gating).            *)
SettlementHonest ==
  pc = "snapshot" =>
    \A pass \in Passes : Settled(pass, mark[pass]) => Promised(pass) \subseteq rows

(* It is honest as long as walks end by completing, by their page cap or   *)
(* at the rate-limit floor, however often and wherever.                    *)
SettlementHonestUnlessFailing == faults \subseteq {"capped", "floor"} => SettlementHonest

(* Settlement is sticky: once a pass has completed, only its age makes it  *)
(* unsettled, never a later run (collect.py, _stamp_last_completed_at),    *)
(* as long as no page of open_prs or closed_search fails.                  *)
OnlyAgeUnsettles ==
  [][faults \subseteq {"capped", "floor", "crash"} =>
       \A pass \in Passes :
         /\ mark[pass].age # Never => mark'[pass].age # Never
         /\ Settled(pass, mark[pass]) /\ ~Settled(pass, mark'[pass])
              => mark'[pass].age = Stale]_vars

(* The pull requests that a created_desc pass has not reached when a run   *)
(* stops are reached by later runs, as long as an unsettled peer is given  *)
(* a share that reaches back to the high watermark, although a settled one *)
(* is given a single page.                                                 *)
CatchesUp ==
  faults = {} => ((created = MaxPRs) ~> (mark["created_desc"].high = MaxPRs))

=============================================================================
