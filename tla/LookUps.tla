------------------------------- MODULE LookUps -------------------------------
(***************************************************************************)
(* Which GitHub account wrote a commit, and for which company it works: a  *)
(* walk of the branch's history that a budget of pages spreads over        *)
(* several nights, and the profiles of the accounts it has found, a number *)
(* of them a night. GitHub lists a history newest first, and a cursor is a *)
(* place in the list as it was when the walk began: what is pushed later   *)
(* comes before it.                                                        *)
(*                                                                         *)
(* Commits are numbered in the order of the branch; the account of a       *)
(* commit is LoginOf[c], None if GitHub knows none.                        *)
(***************************************************************************)
EXTENDS Naturals, FiniteSets, FiniteSetsExt

CONSTANTS
  MaxCommits,   \* commits of the branch (bound)
  NumLogins,    \* accounts, in the order of their names
  LoginOf,      \* the account GitHub asserts for each commit
  PageSize,     \* commits of a page
  MaxPages,     \* max_pages of a night
  MaxProfiles,  \* max_per_run
  Environments  \* each a set of what may go wrong

Commits == 1..MaxCommits
Logins  == 1..NumLogins
None    == 0
NoCursor == MaxCommits + 1

VARIABLES
  faults,  \* what goes wrong in this behaviour; never changes
  world,   \* tip: newest commit; base: the tip when the walk began
  disk,    \* found: commits with a row; cursor: the next commit to list, or NoCursor;
           \* cached: logins with a profile
  run      \* pc; at; rows; pages; status: outcome of the walk; profiles; left; limited

vars == <<faults, world, disk, run>>

Idle == [pc |-> "idle", at |-> 0, rows |-> {}, pages |-> 0, status |-> "ok",
         profiles |-> {}, left |-> {}, limited |-> FALSE]

Init ==
  /\ faults \in Environments
  /\ world = [tip |-> 1, base |-> None]
  /\ disk = [found |-> {}, cursor |-> NoCursor, cached |-> {}]
  /\ run = Idle

Step(from, to) == run.pc = from /\ run' = [run EXCEPT !.pc = to]

-----------------------------------------------------------------------------
Push ==
  /\ world.tip < MaxCommits
  /\ world' = [world EXCEPT !.tip = @ + 1]
  /\ UNCHANGED <<faults, disk, run>>

BeginAuthors ==
  /\ run.pc = "idle"
  /\ run' = [Idle EXCEPT !.pc = "walk",
                         !.at = IF disk.cursor = NoCursor THEN None ELSE disk.cursor]
  /\ UNCHANGED <<faults, world, disk>>

(* Without a cursor the list is the branch as it is now. The last page     *)
(* leaves the cursor at the end of the list.                               *)
Listed == IF disk.cursor = NoCursor /\ run.pages = 0 THEN world.tip ELSE run.at

FetchPage ==
  /\ run.pc = "walk" /\ run.pages < MaxPages
  /\ LET to == Max({Listed, PageSize}) - PageSize
     IN  run' = [run EXCEPT !.pc = IF to = 0 THEN "rows" ELSE "walk", !.at = to, !.pages = @ + 1,
                   !.rows = @ \cup {c \in (to + 1)..Listed : LoginOf[c] # None}]
  /\ world' = IF disk.cursor = NoCursor /\ run.pages = 0
                THEN [world EXCEPT !.base = world.tip] ELSE world
  /\ UNCHANGED <<faults, disk>>

(* The budget of pages, GitHub's floor, its limit or an error: what the    *)
(* walk has so far is kept.                                                *)
StopWalk ==
  /\ run.pc = "walk"
  /\ \E status \in {"partial"} \cup (IF "outage" \in faults THEN {"rate_limited", "failed"} ELSE {}) :
       /\ status = "partial" => run.pages = MaxPages
       /\ run' = [run EXCEPT !.pc = "rows", !.status = status]
  /\ UNCHANGED <<faults, world, disk>>

WriteAuthors ==
  /\ Step("rows", "cursor")
  /\ disk' = [disk EXCEPT !.found = @ \cup run.rows]
  /\ UNCHANGED <<faults, world>>

(* Before the first page there is no cursor to write.                      *)
WriteCursor ==
  /\ Step("cursor", "profiles")
  /\ disk' = [disk EXCEPT !.cursor = IF @ = NoCursor /\ run.pages = 0 THEN @ ELSE run.at]
  /\ UNCHANGED <<faults, world>>

GithubLoginsSeen == {LoginOf[c] : c \in disk.found}

BeginProfiles ==
  /\ run.pc = "profiles"
  /\ run' = [run EXCEPT !.pc = "fetch", !.left = GithubLoginsSeen \ disk.cached]
  /\ UNCHANGED <<faults, world, disk>>

(* An account that is gone has a profile without a company.                *)
FetchProfile ==
  /\ run.pc = "fetch" /\ run.left # {} /\ ~run.limited
  /\ Cardinality(run.profiles) < MaxProfiles
  /\ LET l == Min(run.left)
     IN  run' = [run EXCEPT !.left = @ \ {l}, !.profiles = @ \cup {l}]
  /\ UNCHANGED <<faults, world, disk>>

(* GitHub's limit ends the batch; what it has is written.                  *)
LimitProfiles ==
  /\ "outage" \in faults
  /\ run.pc = "fetch" /\ run.left # {} /\ Cardinality(run.profiles) < MaxProfiles
  /\ ~run.limited
  /\ run' = [run EXCEPT !.limited = TRUE]
  /\ UNCHANGED <<faults, world, disk>>

(* A request that fails for good loses the batch, with every profile that  *)
(* was fetched before it.                                                  *)
FailProfiles ==
  /\ "outage" \in faults
  /\ run.pc = "fetch" /\ run.left # {} /\ Cardinality(run.profiles) < MaxProfiles
  /\ ~run.limited
  /\ run' = Idle
  /\ UNCHANGED <<faults, world, disk>>

WriteProfiles ==
  /\ run.pc = "fetch"
  /\ run.left = {} \/ run.limited \/ Cardinality(run.profiles) = MaxProfiles
  /\ disk' = [disk EXCEPT !.cached = @ \cup run.profiles]
  /\ run' = [run EXCEPT !.pc = "report"]
  /\ UNCHANGED <<faults, world>>

(* What the manifest says of the two look-ups.                             *)
ProfileStatus == IF run.limited THEN "rate_limited" ELSE IF run.left # {} THEN "partial" ELSE "ok"

EndRun ==
  /\ run.pc = "report"
  /\ run' = Idle
  /\ UNCHANGED <<faults, world, disk>>

Kill ==
  /\ "kill" \in faults
  /\ run.pc # "idle"
  /\ run' = Idle
  /\ UNCHANGED <<faults, world, disk>>

Night == \/ BeginAuthors \/ FetchPage \/ (run.pages = MaxPages /\ StopWalk)
         \/ WriteAuthors \/ WriteCursor
         \/ BeginProfiles \/ FetchProfile \/ WriteProfiles \/ EndRun

Next == Night \/ StopWalk \/ LimitProfiles \/ FailProfiles \/ Kill \/ Push

Spec == Init /\ [][Next]_vars

(* Nights are scheduled, and a night goes on until it ends.                *)
FairSpec == Spec /\ WF_vars(Night)

-----------------------------------------------------------------------------
TypeOK ==
  /\ world.tip \in Commits /\ world.base \in Commits \cup {None}
  /\ disk.found \subseteq Commits /\ disk.cached \subseteq Logins
  /\ disk.cursor \in 0..NoCursor
  /\ run.left \cup run.profiles \subseteq Logins /\ run.pages \in 0..MaxPages

Known(commits) == {c \in commits : LoginOf[c] # None}

(* A cursor vouches for the commits that were listed before it, back to    *)
(* the tip the walk began at, wherever a night was cut; the commits pushed *)
(* since the walk began are behind no cursor, and no later night asks for  *)
(* them.                                                                   *)
CursorCovers ==
  disk.cursor # NoCursor =>
    \A c \in Known(1..world.base) : c > disk.cursor => c \in disk.found

(* `ok` for both: the company of every account that has been found is      *)
(* cached, and every commit of the list was looked at.                     *)
OkMeansLookedUp ==
  run.pc = "report" =>
    /\ ProfileStatus = "ok" => GithubLoginsSeen \subseteq disk.cached
    /\ run.status = "ok" => Known(1..world.base) \subseteq disk.found

(* The nights get through the history the walk began with, and through the *)
(* profiles of the accounts they find.                                     *)
LookedUp ==
  faults = {} => /\ Known(1..world.base) \subseteq disk.found
                 /\ GithubLoginsSeen \subseteq disk.cached

EventuallyLookedUp == <>[]LookedUp

=============================================================================
