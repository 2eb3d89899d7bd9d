---------------------------- MODULE PeerSchedule ----------------------------
(***************************************************************************)
(* One run of the peers workflow after another: how the rotation, the page *)
(* budget and the rate-limit floor divide a run among the peers' backfill  *)
(* passes, and what one peer's release collection can do to the rest of    *)
(* the run. A pass is here only the number of pages its walk still needs;  *)
(* what the pages bring is module PeerBackfill. Settlement does not age.   *)
(***************************************************************************)
EXTENDS Integers, FiniteSets

CONSTANTS
  NumPeers,     \* peers configured
  FirstWalk,    \* pages of a pass's first complete walk
  DeltaWalk,    \* pages of each later created_desc walk: what is new
  LaterWalk,    \* pages of each later walk of the other passes
  MaxPages,     \* max_pages_per_pass
  PageBudget,   \* github_page_budget_per_run
  Allowances,   \* pages the rate limit allows a run before its floor
  BrokenSets    \* each a set of peers whose release source keeps failing

Peers  == 0..(NumPeers - 1)
Passes == 1..3                     \* created_desc, open_prs, closed_search
Turns  == Peers \X Passes

ASSUME ScheduleAssumption ==
  /\ NumPeers \in Nat \ {0}
  /\ FirstWalk \in Nat \ {0}
  /\ DeltaWalk \in Nat \ {0} /\ LaterWalk \in Nat \ {0}
  /\ MaxPages \in Nat \ {0}
  /\ PageBudget \in Nat
  /\ Allowances \subseteq Nat /\ Allowances # {}
  /\ BrokenSets \subseteq SUBSET Peers /\ BrokenSets # {}

(* Pages of a walk of a pass that has completed before.                    *)
Redo(p) == IF p = 1 THEN DeltaWalk ELSE LaterWalk

VARIABLES
  rotation,   \* next_start_index on the data branch
  left,       \* pages each pass's current walk still needs
  done,       \* passes that have completed at least once
  recent,     \* passes completed within skip_rerun_within_hours
  pc,         \* the stage of the run
  turn,       \* peers that have had their turn in this stage
  pass,       \* the pass this turn is at; 4 once all three are over
  settled,    \* settled_by_peer, as the run began
  budget,     \* page_budget_remaining
  notDone,    \* peers_not_done_remaining
  used,       \* pages_used_this_peer
  spent,      \* pages this run fetched
  allowance,  \* pages this run may fetch before the floor is reached
  exhausted,  \* budget_exhausted
  broken      \* the broken peers of this behaviour; never changes

state   == <<rotation, left, done, recent>>
runVars == <<settled, budget, notDone, used, spent, allowance, exhausted>>
scheduleVars    == <<state, pc, turn, pass, runVars, broken>>

Least(S)    == CHOOSE x \in S : \A y \in S : x <= y
Greatest(S) == CHOOSE x \in S : \A y \in S : y <= x

-----------------------------------------------------------------------------
ScheduleInit ==
  /\ rotation = 0
  /\ left = [t \in Turns |-> FirstWalk]
  /\ done = {}
  /\ recent = {}
  /\ pc = "idle"
  /\ turn = 0
  /\ pass = 1
  /\ settled = {}
  /\ budget = PageBudget
  /\ notDone = 0
  /\ used = 0
  /\ spent = 0
  /\ allowance \in Allowances
  /\ exhausted = FALSE
  /\ broken \in BrokenSets

(* skip_rerun_within_hours go by. *)
Tick ==
  /\ pc = "idle"
  /\ recent # {}
  /\ recent' = {}
  /\ UNCHANGED <<rotation, left, done, pc, turn, pass, runVars, broken>>

BeginRun ==
  /\ pc = "idle"
  /\ pc' = "github"
  /\ turn' = 0
  /\ pass' = 1
  /\ settled' = {p \in Peers : \A q \in Passes : <<p, q>> \in done}
  /\ budget' = PageBudget
  /\ notDone' = Cardinality(Peers \ settled')
  /\ used' = 0
  /\ spent' = 0
  /\ allowance' \in Allowances
  /\ exhausted' = FALSE
  /\ UNCHANGED <<state, broken>>

(* rotate: the peer whose turn it is. *)
Peer == (rotation + turn) % NumPeers

(* One page for a settled peer, else a fair share of what is left. *)
PageCap ==
  IF Peer \in settled THEN 1
  ELSE Least({MaxPages, Greatest({1, budget \div notDone})})

(* Mutant of FloorReached: a pass looks at its own pages only. *)
FloorReachedByPass(k) == k >= allowance

(* floor_reached, after k more pages *)
FloorReached(k) == spent + k >= allowance

SkipPass ==
  /\ pc = "github"
  /\ pass \in Passes
  /\ exhausted \/ <<Peer, pass>> \in recent
  /\ pass' = pass + 1
  /\ UNCHANGED <<state, pc, turn, runVars, broken>>

(* How many pages the pass fetches: up to its end, its cap or the floor,   *)
(* which is only looked at when more pages remain.                         *)
Fetched ==
  LET last == Least({left[<<Peer, pass>>], PageCap})
  IN  Least({last} \cup {k \in 1..last : FloorReached(k)})

CompletePass ==
  /\ pc = "github"
  /\ pass \in Passes
  /\ ~exhausted
  /\ <<Peer, pass>> \notin recent
  /\ Fetched = left[<<Peer, pass>>]
  /\ left' = [left EXCEPT ![<<Peer, pass>>] = Redo(pass)]
  /\ done' = done \cup {<<Peer, pass>>}
  /\ recent' = recent \cup {<<Peer, pass>>}
  /\ spent' = spent + Fetched
  /\ used' = used + Fetched
  /\ pass' = pass + 1
  /\ UNCHANGED <<rotation, pc, turn, settled, budget, notDone, allowance, exhausted, broken>>

(* A completed created_desc pass does not resume: it restarts at the top.  *)
Remainder ==
  IF pass = 1 /\ <<Peer, pass>> \in done THEN Redo(pass) ELSE left[<<Peer, pass>>] - Fetched

CutPass ==
  /\ pc = "github"
  /\ pass \in Passes
  /\ ~exhausted
  /\ <<Peer, pass>> \notin recent
  /\ Fetched < left[<<Peer, pass>>]
  /\ left' = [left EXCEPT ![<<Peer, pass>>] = Remainder]
  /\ exhausted' = FloorReached(Fetched)
  /\ spent' = spent + Fetched
  /\ used' = used + Fetched
  /\ pass' = pass + 1
  /\ UNCHANGED <<rotation, done, recent, pc, turn, settled, budget, notDone, allowance, broken>>

EndTurnCountsAll ==
  /\ pc = "github"
  /\ pass = 4
  /\ turn < NumPeers
  /\ turn' = turn + 1
  /\ pass' = IF turn + 1 < NumPeers THEN 1 ELSE 4
  /\ budget' = Greatest({budget - used, 0})
  /\ notDone' = Greatest({notDone - 1, 0})
  /\ used' = 0
  /\ UNCHANGED <<state, pc, settled, spent, allowance, exhausted, broken>>

EndTurn ==
  /\ pc = "github"
  /\ pass = 4
  /\ turn < NumPeers
  /\ turn' = turn + 1
  /\ pass' = IF turn + 1 < NumPeers THEN 1 ELSE 4
  /\ budget' = Greatest({budget - used, 0})
  /\ notDone' = IF Peer \in settled THEN notDone ELSE Greatest({notDone - 1, 0})
  /\ used' = 0
  /\ UNCHANGED <<state, pc, settled, spent, allowance, exhausted, broken>>

WriteRotation ==
  /\ pc = "github"
  /\ turn = NumPeers
  /\ pc' = "releases"
  /\ turn' = 0
  /\ rotation' = (rotation + 1) % NumPeers
  /\ UNCHANGED <<left, done, recent, pass, runVars, broken>>

(* A peer's clone, commits and releases; a clone failure is only reported. *)
CollectReleases ==
  /\ pc = "releases"
  /\ turn < NumPeers
  /\ turn \notin broken
  /\ turn' = turn + 1
  /\ UNCHANGED <<state, pc, pass, runVars, broken>>

(* A release request that fails for good raises out of the run. *)
ReleaseFailure ==
  /\ pc = "releases"
  /\ turn < NumPeers
  /\ turn \in broken
  /\ pc' = "idle"
  /\ UNCHANGED <<state, turn, pass, runVars, broken>>

(* Mutant of TakeSnapshots: only a run that began with every peer settled. *)
TakeSnapshotsWhenSettled ==
  /\ pc = "releases"
  /\ turn = NumPeers
  /\ settled = Peers
  /\ pc' = "snapshot"
  /\ UNCHANGED <<state, turn, pass, runVars, broken>>

TakeSnapshots ==
  /\ pc = "releases"
  /\ turn = NumPeers
  /\ pc' = "snapshot"
  /\ UNCHANGED <<state, turn, pass, runVars, broken>>

EndRun ==
  /\ pc = "snapshot"
  /\ pc' = "idle"
  /\ UNCHANGED <<state, turn, pass, runVars, broken>>

Run == \/ BeginRun \/ SkipPass \/ CompletePass \/ CutPass \/ EndTurn
       \/ WriteRotation \/ CollectReleases \/ ReleaseFailure
       \/ TakeSnapshots \/ EndRun

ScheduleNext == Tick \/ Run

ScheduleSpec == ScheduleInit /\ [][ScheduleNext]_scheduleVars

(* Runs are scheduled; the hours between them go by. *)
FairSpec == ScheduleSpec /\ WF_scheduleVars(Run) /\ SF_scheduleVars(Tick)

-----------------------------------------------------------------------------
ScheduleTypeOK ==
  /\ rotation \in Peers
  /\ left \in [Turns -> Nat \ {0}]
  /\ done \subseteq Turns
  /\ recent \subseteq done
  /\ pc \in {"idle", "github", "releases", "snapshot"}
  /\ turn \in 0..NumPeers
  /\ pass \in 1..4
  /\ settled \subseteq Peers
  /\ budget \in 0..PageBudget
  /\ notDone \in 0..NumPeers
  /\ used \in Nat
  /\ spent \in Nat
  /\ allowance \in Allowances
  /\ exhausted \in BOOLEAN
  /\ broken \in BrokenSets

(* While an unsettled peer waits for its turn, the share is computed over  *)
(* exactly the unsettled peers that have not had theirs: the division in   *)
(* collect_and_write_github never meets zero and never counts a peer twice.*)
SharesAreForTheWaiting ==
  (pc = "github" /\ turn < NumPeers) =>
    notDone = Cardinality({i \in turn..(NumPeers - 1) :
                             (rotation + i) % NumPeers \notin settled})

(* Past the rate-limit floor a run fetches at most one page for each pass  *)
(* still to come: the floor is noticed after the first page that is not a  *)
(* pass's last.                                                            *)
OverrunBounded == spent <= allowance + 3 * NumPeers

(* Rotation: whatever the peers before it use up, each peer completes each *)
(* of its passes, one page of allowance a run being enough.                *)
NoStarvation == \A t \in Turns : <>(t \in done)

(* Snapshots keep coming, whatever happens to one peer.                    *)
SnapshotsKeepComing == []<>(pc = "snapshot")

(* No peer waits for ever, and snapshots keep coming as long as every      *)
(* peer's release source answers.                                          *)
EveryPeerServed == NoStarvation /\ (broken = {} => SnapshotsKeepComing)

=============================================================================
