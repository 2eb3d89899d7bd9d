-------------------------- MODULE GovernanceCommits --------------------------
(***************************************************************************)
(* The commit records the governance checks are computed from: a walk with *)
(* a watermark of its own, a walk of the whole history once for each       *)
(* version of the trailers' parser, and the reading that keeps each        *)
(* commit's rows of its highest version. Commits are numbered in the order *)
(* of the branch.                                                          *)
(***************************************************************************)
EXTENDS Naturals

CONSTANTS
  MaxCommits,   \* commits of the branch (bound)
  MaxParser,    \* versions of the parser (bound)
  Environments  \* each a set of what may go wrong

Commits  == 1..MaxCommits
Parsers  == 1..MaxParser
MaxCopies == 2                   \* rows of a commit are counted up to here

VARIABLES
  faults,  \* what goes wrong in this behaviour; never changes
  world,   \* tip: newest commit of the clone; parser: PARSER_VERSION
  disk,    \* rows[v][c]; watermark (0: none); marker (0: none)
  run      \* pc; hadHistory: a watermark was there before the walk

vars == <<faults, world, disk, run>>

Idle == [pc |-> "idle", hadHistory |-> FALSE]

Init ==
  /\ faults \in Environments
  /\ world = [tip |-> 1, parser |-> 1]
  /\ disk = [rows |-> [v \in Parsers |-> [c \in Commits |-> 0]], watermark |-> 0, marker |-> 0]
  /\ run = Idle

Step(from, to) == run.pc = from /\ run' = [run EXCEPT !.pc = to]

-----------------------------------------------------------------------------
Commit ==
  /\ run.pc = "idle" /\ world.tip < MaxCommits
  /\ world' = [world EXCEPT !.tip = @ + 1]
  /\ UNCHANGED <<faults, disk, run>>

ReleaseParser ==
  /\ run.pc = "idle" /\ world.parser < MaxParser
  /\ world' = [world EXCEPT !.parser = @ + 1]
  /\ UNCHANGED <<faults, disk, run>>

(* Mutant of Appended: the branch's tip is left out. *)
AppendedShort(rows, after) ==
  [rows EXCEPT ![world.parser] =
     [c \in Commits |-> IF c > after /\ c < world.tip /\ @[c] < MaxCopies THEN @[c] + 1 ELSE @[c]]]

(* Rows of the commits after a position, up to the branch's tip.           *)
Appended(rows, after) ==
  [rows EXCEPT ![world.parser] =
     [c \in Commits |-> IF c > after /\ c <= world.tip /\ @[c] < MaxCopies
                          THEN @[c] + 1 ELSE @[c]]]

(* The commits after the watermark are written with today's parser.        *)
WalkCommits ==
  /\ run.pc = "idle"
  /\ run' = [pc |-> "mark", hadHistory |-> disk.watermark # 0]
  /\ disk' = [disk EXCEPT !.rows = Appended(@, disk.watermark)]
  /\ UNCHANGED <<faults, world>>

(* The sha the branch resolves to. *)
ResolveSha ==
  /\ Step("mark", "reparse")
  /\ disk' = [disk EXCEPT !.watermark = world.tip]
  /\ UNCHANGED <<faults, world>>

(* A first collection has no older rows to correct.                        *)
SkipReparse ==
  /\ Step("reparse", "score")
  /\ disk.marker = world.parser \/ ~run.hadHistory
  /\ disk' = [disk EXCEPT !.marker = world.parser]
  /\ UNCHANGED <<faults, world>>

(* The whole history is written again, the commits of this very night too; *)
(* the marker comes after.                                                 *)
Reparse ==
  \/ /\ Step("reparse", "marker")
     /\ disk.marker # world.parser /\ run.hadHistory
     /\ disk' = [disk EXCEPT !.rows = Appended(@, 0)]
     /\ UNCHANGED <<faults, world>>
  \/ /\ Step("marker", "score")
     /\ disk' = [disk EXCEPT !.marker = world.parser]
     /\ UNCHANGED <<faults, world>>

(* A failed reparse is logged, and the night goes on; any other exception  *)
(* or a kill ends it.                                                      *)
FailReparse ==
  /\ "git_error" \in faults
  /\ \/ Step("reparse", "score") /\ disk.marker # world.parser /\ run.hadHistory
     \/ Step("marker", "score")
  /\ UNCHANGED <<faults, world, disk>>

Kill ==
  /\ "kill" \in faults
  /\ run.pc # "idle"
  /\ run' = Idle
  /\ UNCHANGED <<faults, world, disk>>

Score ==
  /\ run.pc = "score"
  /\ run' = Idle
  /\ UNCHANGED <<faults, world, disk>>

Run == WalkCommits \/ ResolveSha \/ SkipReparse \/ Reparse \/ Score

Next == Run \/ FailReparse \/ Kill \/ Commit \/ ReleaseParser

Spec == Init /\ [][Next]_vars

-----------------------------------------------------------------------------
(* Reading: the rows of a commit's highest version, every one of them.     *)

Versions(c) == {v \in Parsers : disk.rows[v][c] > 0}

Latest(c) == CHOOSE v \in Versions(c) : \A w \in Versions(c) : w <= v

Scored(c) == IF Versions(c) = {} THEN 0 ELSE disk.rows[Latest(c)][c]

TypeOK ==
  /\ world.tip \in Commits /\ world.parser \in Parsers
  /\ disk \in [rows : [Parsers -> [Commits -> 0..MaxCopies]],
               watermark : {0} \cup Commits, marker : {0} \cup Parsers]
  /\ run.pc \in {"idle", "mark", "reparse", "marker", "score"}

(* Every commit behind the watermark is scored, and with a parser at least *)
(* as new as the marker, wherever a night was cut.                         *)
RecordsCorrected ==
  \A c \in Commits : c <= disk.watermark => Scored(c) > 0 /\ Latest(c) >= disk.marker

(* The records are an at-least-once feed of the commits.                   *)
Feed == INSTANCE AtLeastOnceFeed
          WITH Events <- Commits, delivered <- {c \in Commits : Scored(c) > 0},
               settled <- {c \in Commits : c <= disk.watermark}

(* A commit is scored once, in the nights of one parser that are not cut   *)
(* between the rows and the watermark. (It is not after a release: a       *)
(* commit that arrives in the night of the reparse has two rows of the new *)
(* version for good, one of the walk and one of the reparse.)              *)
ScoredOnce ==
  (world.parser = 1 /\ "kill" \notin faults) => \A c \in Commits : Scored(c) <= 1

=============================================================================
