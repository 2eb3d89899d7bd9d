------------------------- MODULE SubprojectReleases -------------------------
(***************************************************************************)
(* A subproject's page of releases: the versions JIRA calls unreleased,    *)
(* each with two counts of issues, asked for one after the other while     *)
(* people go on working; the latest run of each workflow; and the tags.    *)
(* JIRA's and GitHub's halves fail each on their own.                      *)
(*                                                                         *)
(* Versions are numbered in the order of their names, workflow runs in the *)
(* order they were started.                                                *)
(***************************************************************************)
EXTENDS Naturals, FiniteSets, FiniteSetsExt, Sequences, SequencesExt, Functions

CONSTANTS
  NumVersions, NumIssues, NumWorkflows,  \* (bounds)
  PageSize,      \* runs_page_size
  MaxRuns, MaxNights, MaxEdits,  \* workflow runs, nights, changes in JIRA (bounds)
  Environments   \* each a set of what goes on

Versions  == 1..NumVersions
Issues    == 1..NumIssues
Workflows == 1..NumWorkflows
None      == 0

(* A row of subproject_release_version, and one of ci_workflow_run. *)
VersionRow == [open : 0..NumIssues, total : 0..NumIssues]
RunRow     == [workflow : Workflows, number : 1..MaxRuns]

VARIABLES
  faults,  \* what goes on in this behaviour; never changes
  world,   \* edits; released, archived: versions; of, resolved: issues; runs; tags
  disk,    \* version: rows by version; run: rows by workflow, the latest of each
  run      \* pc; night; todo: versions; open: a first count; rows: of the night

vars == <<faults, world, disk, run>>

Idle(night) == [pc |-> "idle", night |-> night, todo |-> << >>, open |-> None, rows |-> << >>]

Init ==
  /\ faults \in Environments
  /\ world = [edits |-> 0, released |-> {}, archived |-> {}, of |-> [i \in Issues |-> None], resolved |-> {},
              runs |-> << >>, tags |-> {}]
  /\ disk = [version |-> << >>, run |-> << >>]
  /\ run = Idle(0)

-----------------------------------------------------------------------------
(* In JIRA, in GitHub, at any time.                                        *)
Outside(change) ==
  /\ "jira" \in faults /\ world.edits < MaxEdits
  /\ world' = [change EXCEPT !.edits = @ + 1]
  /\ UNCHANGED <<faults, disk, run>>

Target(i, v)  == world.of[i] = None /\ Outside([world EXCEPT !.of[i] = v])
Retarget(i, v) == "retarget" \in faults /\ world.of[i] \notin {None, v} /\ Outside([world EXCEPT !.of[i] = v])
Resolve(i)    == i \notin world.resolved /\ Outside([world EXCEPT !.resolved = @ \cup {i}])
Publish(v) ==
  /\ v \notin world.tags
  /\ Outside([world EXCEPT !.tags = @ \cup {v}])
Close(v) ==
  \/ v \notin world.released /\ Outside([world EXCEPT !.released = @ \cup {v}])
  \/ v \notin world.archived /\ Outside([world EXCEPT !.archived = @ \cup {v}])

(* A workflow of the project's own, or one GitHub makes itself.            *)
StartRun(w, own) ==
  /\ "runs" \in faults /\ Len(world.runs) < MaxRuns
  /\ world' = [world EXCEPT !.runs = Append(@, [workflow |-> w, own |-> own])]
  /\ UNCHANGED <<faults, disk, run>>

-----------------------------------------------------------------------------
(* Rows of a key over those that there were.                               *)
Over(new, old) == [x \in DOMAIN new \cup DOMAIN old |-> IF x \in DOMAIN new THEN new[x] ELSE old[x]]

Unreleased == Versions \ (world.released \cup world.archived)

(* The list of versions is asked for first; JIRA's order is its own.       *)
FetchVersions ==
  /\ run.pc = "idle" /\ run.night < MaxNights
  /\ \E list \in SetToSeqs(Unreleased) :
       run' = [Idle(run.night + 1) EXCEPT !.pc = "open", !.todo = list]
  /\ UNCHANGED <<faults, world, disk>>

IssuesOf(v) == {i \in Issues : world.of[i] = v}

FetchOpenCount ==
  /\ run.pc = "open" /\ run.todo # << >>
  /\ run' = [run EXCEPT !.pc = "total", !.open = Cardinality(IssuesOf(Head(run.todo)) \ world.resolved)]
  /\ UNCHANGED <<faults, world, disk>>

(* A version nobody gave an issue to is left out.                          *)
FetchTotalCount ==
  /\ run.pc = "total"
  /\ LET v == Head(run.todo)   total == Cardinality(IssuesOf(v))
         row == [open |-> run.open, total |-> total]
     IN  run' = [run EXCEPT !.pc = "open", !.todo = Tail(@),
                            !.rows = IF total = 0 THEN @ ELSE Over([x \in {v} |-> row], @)]
  /\ UNCHANGED <<faults, world, disk>>

(* Any request that fails for good loses JIRA's half of the night.         *)
JiraFails ==
  /\ "outage" \in faults /\ run.pc \in {"open", "total"}
  /\ run' = [run EXCEPT !.pc = "actions"]
  /\ UNCHANGED <<faults, world, disk>>

(* Rows of the versions that are no longer unreleased stay as they were.   *)
WriteVersions ==
  /\ run.pc = "open" /\ run.todo = << >>
  /\ disk' = [disk EXCEPT !.version = Over(run.rows, @)]
  /\ run' = [run EXCEPT !.pc = "actions"]
  /\ UNCHANGED <<faults, world>>

(* GitHub lists the newest runs first; the first of a workflow is kept,    *)
(* and what is not defined in the repository is passed over.               *)
FetchLatestWorkflowRuns ==
  LET page == {k \in DOMAIN world.runs : k > Len(world.runs) - PageSize /\ world.runs[k].own}
  IN  [w \in {world.runs[k].workflow : k \in page} |->
         [workflow |-> w, number |-> Max({k \in page : world.runs[k].workflow = w})]]

WriteRuns ==
  /\ run.pc = "actions"
  /\ \/ disk' = [disk EXCEPT !.run = Over(FetchLatestWorkflowRuns, @)]
     \/ "outage" \in faults /\ UNCHANGED disk
  /\ run' = Idle(run.night)
  /\ UNCHANGED <<faults, world>>

Kill ==
  /\ "kill" \in faults /\ run.pc # "idle"
  /\ run' = Idle(run.night)
  /\ UNCHANGED <<faults, world, disk>>

Night == FetchVersions \/ FetchOpenCount \/ FetchTotalCount \/ JiraFails \/ WriteVersions \/ WriteRuns

Next ==
  \/ Night \/ Kill
  \/ \E i \in Issues : Resolve(i) \/ \E v \in Versions : Target(i, v) \/ Retarget(i, v)
  \/ \E v \in Versions : Publish(v) \/ Close(v)
  \/ \E w \in Workflows, own \in BOOLEAN : StartRun(w, own)

Spec == Init /\ [][Next]_vars

-----------------------------------------------------------------------------
(* The page: versions that have a tag come after those that have none.     *)
BuildSubprojectReleasesContext ==
  LET before(v, w) == (w \in world.tags /\ v \notin world.tags) \/ ((v \in world.tags <=> w \in world.tags) /\ v < w)
  IN  [jira_versions |-> SetToSortSeq(DOMAIN disk.version, before),
       ci_workflows  |-> disk.run,
       available     |-> DOMAIN disk.version # {} \/ DOMAIN disk.run # {} \/ world.tags # {}]

TypeOK ==
  /\ faults \in Environments /\ run.night \in 0..MaxNights /\ world.edits \in 0..MaxEdits
  /\ \A v \in DOMAIN disk.version : v \in Versions /\ disk.version[v] \in VersionRow
  /\ \A w \in DOMAIN disk.run : disk.run[w] \in RunRow

(* No version is shown with more open issues than issues, though the two   *)
(* are counted at different times: the open ones come first, and what is   *)
(* done in between, to resolve or to add, only helps. (An issue that is    *)
(* moved to another version in between breaks it.)                         *)
OpenWithinTotal ==
  "retarget" \notin faults => \A v \in DOMAIN disk.version : disk.version[v].open <= disk.version[v].total

(* The page lists each version once, the tagged ones last, and of each no  *)
(* more open issues than issues.                                           *)
VersionsAreTrue ==
  LET page == BuildSubprojectReleasesContext.jira_versions
  IN  /\ IsInjective(page) /\ ToSet(page) = DOMAIN disk.version
      /\ \A j, k \in DOMAIN page : j < k /\ page[j] \in world.tags => page[k] \in world.tags
      /\ OpenWithinTotal

(* The run shown of a workflow is never followed by an older one, whether  *)
(* the newest page still has one of it or not.                             *)
RunsNeverOlder ==
  \A w \in DOMAIN disk.run : w \in DOMAIN disk'.run /\ disk'.run[w].number >= disk.run[w].number

=============================================================================
