------------------------------- MODULE Seeding -------------------------------
(***************************************************************************)
(* A subproject's pull requests may have been collected already, under the *)
(* root project. Each night, before the subproject's own run, they are     *)
(* copied from the root's tables, with the root's cursors, unless the      *)
(* subproject has a watermark. A partition's name is fixed for a table: a  *)
(* second write to it raises.                                              *)
(*                                                                         *)
(* A pull request is its place in its repository's order of update.        *)
(***************************************************************************)
EXTENDS Naturals, FiniteSetsExt

CONSTANTS
  NumRepos,     \* pull_requests.repos of the subproject
  NumTables,    \* pr, pr_review, pr_comment
  MaxPRs,       \* pull requests of a repository (bound)
  Environments  \* each a set of what may go wrong

Repos  == 1..NumRepos
Tables == 1..NumTables
Absent == -1
Cursor == Absent..MaxPRs
Rows   == [Repos -> [Tables -> 0..MaxPRs]]

VARIABLES
  faults,  \* what goes wrong in this behaviour; never changes
  world,   \* prs[r]: pull requests in GitHub; rows, cursors: the root's directory
  disk,    \* rows; seeded: tables with a partition of the seed; marks: the watermark
  run      \* pc; repo, table: what the seed copies next

vars == <<faults, world, disk, run>>

None == [r \in Repos |-> [t \in Tables |-> 0]]
NoMarks == [r \in Repos |-> Absent]
Idle == [pc |-> "idle", repo |-> 1, table |-> 1]

(* Whether the `github` key exists, whatever it says.                      *)
Marked == \E r \in Repos : disk.marks[r] # Absent

Init ==
  /\ faults \in Environments
  /\ world = [prs |-> [r \in Repos |-> 1], rows |-> [r \in Repos |-> 0], cursors |-> NoMarks]
  /\ disk = [rows |-> None, seeded |-> {}, marks |-> NoMarks]
  /\ run = Idle

-----------------------------------------------------------------------------
Submit(r) ==
  /\ world.prs[r] < MaxPRs
  /\ world' = [world EXCEPT !.prs[r] = @ + 1]
  /\ UNCHANGED <<faults, disk, run>>

(* The root's own nights: rows, and then, unless it is cut, the cursor.    *)
RootCollect(r) ==
  /\ run.pc = "idle"
  /\ \/ world' = [world EXCEPT !.rows[r] = world.prs[r], !.cursors[r] = world.prs[r]]
     \/ "kill" \in faults /\ world' = [world EXCEPT !.rows[r] = world.prs[r]]
  /\ UNCHANGED <<faults, disk, run>>

(* A repository leaves the root's configuration: its rows stay.            *)
RootDrops(r) ==
  /\ run.pc = "idle" /\ world.cursors[r] # Absent
  /\ "dropped" \in faults
  /\ world' = [world EXCEPT !.cursors[r] = Absent]
  /\ UNCHANGED <<faults, disk, run>>

BeginSeed ==
  /\ run.pc = "idle"
  /\ run' = [Idle EXCEPT !.pc = IF Marked THEN "run" ELSE "seed"]
  /\ UNCHANGED <<faults, world, disk>>

(* Mutant of NextTable: one table too many. *)
NextTablePast ==
  IF run.table <= NumTables THEN [run EXCEPT !.table = @ + 1]
  ELSE [run EXCEPT !.table = 1, !.repo = @ + 1]

NextTable ==
  IF run.table < NumTables THEN [run EXCEPT !.table = @ + 1]
  ELSE [run EXCEPT !.table = 1, !.repo = @ + 1]

Copying == run.pc = "seed" /\ run.repo <= NumRepos

(* A table without rows of the repository is not written.                  *)
CopyTable ==
  /\ Copying
  /\ world.rows[run.repo] = 0 \/ run.table \notin disk.seeded
  /\ disk' = IF world.rows[run.repo] = 0 THEN disk
             ELSE [disk EXCEPT !.rows[run.repo][run.table] = world.rows[run.repo],
                               !.seeded = @ \cup {run.table}]
  /\ run' = NextTable
  /\ UNCHANGED <<faults, world>>

(* The partition is there, of an earlier repository or of a seed that was  *)
(* cut: the command fails, and the run goes on without a seed.             *)
CopyRaises ==
  /\ Copying
  /\ world.rows[run.repo] > 0 /\ run.table \in disk.seeded
  /\ run' = [run EXCEPT !.pc = "run"]
  /\ UNCHANGED <<faults, world, disk>>

(* The cursors the root has are copied last.                               *)
EndSeed ==
  /\ run.pc = "seed" /\ run.repo > NumRepos
  /\ disk' = [disk EXCEPT !.marks = world.cursors]
  /\ run' = [run EXCEPT !.pc = "run"]
  /\ UNCHANGED <<faults, world>>

(* The subproject's own run goes on from its cursors.                      *)
CollectRows ==
  /\ run.pc = "run"
  /\ disk' = [disk EXCEPT !.rows = [r \in Repos |-> [t \in Tables |->
                IF world.prs[r] > disk.marks[r] THEN world.prs[r] ELSE @[r][t]]]]
  /\ run' = [run EXCEPT !.pc = "mark"]
  /\ UNCHANGED <<faults, world>>

CollectMarks ==
  /\ run.pc = "mark"
  /\ disk' = [disk EXCEPT !.marks = [r \in Repos |-> disk.rows[r][1]]]
  /\ run' = Idle
  /\ UNCHANGED <<faults, world>>

Kill ==
  /\ "kill" \in faults
  /\ run.pc # "idle"
  /\ run' = Idle
  /\ UNCHANGED <<faults, world, disk>>

Night == BeginSeed \/ CopyTable \/ CopyRaises \/ EndSeed \/ CollectRows \/ CollectMarks

Next == Night \/ Kill \/ \E r \in Repos : Submit(r) \/ RootCollect(r) \/ RootDrops(r)

Spec == Init /\ [][Next]_vars

FairSpec == Spec /\ WF_vars(Night)

-----------------------------------------------------------------------------
TypeOK ==
  /\ faults \in Environments
  /\ disk \in [rows : Rows, seeded : SUBSET Tables, marks : [Repos -> Cursor]]
  /\ run.repo \in 1..(NumRepos + 1) /\ run.table \in Tables

(* A seed, cut anywhere or repeated, gives the subproject no cursor its    *)
(* own rows do not bear out.                                               *)
SeededIsCovered ==
  \A r \in Repos, t \in Tables : disk.rows[r][t] >= disk.marks[r]

(* "Seeding must never regress a cursor", nor may anything else.           *)
CursorsAdvance ==
  \A r \in Repos : disk.marks[r] # Absent => disk'.marks[r] >= disk.marks[r]

(* The subproject's directory is an at-least-once feed of its requests.    *)
Feed == INSTANCE AtLeastOnceFeed
          WITH Events <- Repos \X (1..MaxPRs),
               delivered <- {x \in Repos \X (1..MaxPRs) :
                               \A t \in Tables : disk.rows[x[1]][t] >= x[2]},
               settled <- {x \in Repos \X (1..MaxPRs) : x[2] <= disk.marks[x[1]]}

(* A failed seed leaves the subproject to its own runs, which still        *)
(* collect everything.                                                     *)
OnItsOwn == faults = {} => \A r \in Repos, t \in Tables : disk.rows[r][t] = world.prs[r]

EventuallyOnItsOwn == <>[]OnItsOwn

=============================================================================
