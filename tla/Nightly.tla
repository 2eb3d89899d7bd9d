------------------------------- MODULE Nightly -------------------------------
(***************************************************************************)
(* The nightly job, from the checkout of the data branch to the deployed   *)
(* dashboard. Each project is run in turn by a process of its own, which   *)
(* collects, computes metrics, and writes the metrics snapshot, then the   *)
(* pointer to the latest run, then the run's manifest; the job commits     *)
(* whatever the processes left, builds one site of all projects from it    *)
(* and deploys it when the first project's run and the build succeeded.    *)
(*                                                                         *)
(* A run is the night it was made in. A process may be killed anywhere (by *)
(* its 15 minutes or by the runner), in the middle of a write too. What is *)
(* collected, and how its own writes order, is the subject of the modules  *)
(* of the sources; here it is sound or torn.                               *)
(***************************************************************************)
EXTENDS Naturals, FiniteSets

CONSTANTS
  NumProjects,  \* projects of projects/index.yaml; Cassandra is project 1
  MaxNights,    \* nights (bound)
  MaxKills      \* processes killed (bound)

ASSUME NightlyAssumption ==
  /\ NumProjects \in Nat \ {0}
  /\ MaxNights \in Nat \ {0}
  /\ MaxKills \in Nat

Projects  == 1..NumProjects
Cassandra == 1
Nights    == 1..MaxNights
NoRun     == 0
Torn      == MaxNights + 1         \* a pointer file cut short

(***************************************************************************)
(* What a project's directory holds, as far as a run or the site reads it. *)
(***************************************************************************)
Store == [collected : {"whole", "torn"},   \* raw/ and state/
          pointer   : 0..Torn,             \* state/latest_run.json
          snapshot  : [Nights -> {"absent", "torn", "whole"}],
          manifest  : [Nights -> {"absent", "torn", "whole"}]]

Page == [run : Nights, banner : BOOLEAN]
Dark == [run |-> NoRun, banner |-> FALSE]     \* no page

Steps == {"collect", "compute", "snapshot", "pointer", "manifest"}

VARIABLES
  night,    \* tonight
  stage,    \* of the job: idle, run, commit, site, deploy
  project,  \* whose process runs
  step,     \* of that process
  metrics,  \* its run status: ok, degraded (metrics missing) or failed
  passed,   \* outcome of the step `pipeline`, Cassandra's process
  data,     \* the checkout of the data branch
  branch,   \* the pushed data branch
  site,     \* the site built tonight
  live,     \* the deployed site
  kills     \* processes killed so far

vars == <<night, stage, project, step, metrics, passed, data, branch, site, live, kills>>

job == <<night, stage, branch, site, live>>

NoSite == [p \in Projects |-> Dark]

Empty == [collected |-> "whole", pointer |-> NoRun,
          snapshot |-> [n \in Nights |-> "absent"],
          manifest |-> [n \in Nights |-> "absent"]]

Init ==
  /\ night = 0
  /\ stage = "idle"
  /\ project = Cassandra
  /\ step = "collect"
  /\ metrics = "ok"
  /\ passed = FALSE
  /\ data = [p \in Projects |-> Empty]
  /\ branch = data
  /\ site = NoSite
  /\ live = NoSite
  /\ kills = 0

-----------------------------------------------------------------------------
(* One project's process.                                                  *)

Mine == data[project]

At(s) == stage = "run" /\ step = s

(* The process is over; the next project's starts, or the job goes on.     *)
EndProcess(success) ==
  /\ passed' = IF project = Cassandra THEN success ELSE passed
  /\ IF project < NumProjects
       THEN project' = project + 1 /\ step' = "collect" /\ UNCHANGED stage
       ELSE stage' = "commit" /\ UNCHANGED <<project, step>>

(* Every source is collected; a source that fails is only reported.        *)
Collect ==
  /\ At("collect")
  /\ Mine.collected = "whole"
  /\ step' = "compute"
  /\ UNCHANGED <<job, project, metrics, passed, data, kills>>

(* A partition or a state file cut short raises out of the run, and some   *)
(* failures of a backfill do too.                                          *)
Abort ==
  /\ At("collect")
  /\ EndProcess(FALSE)
  /\ UNCHANGED <<night, metrics, data, branch, site, live, kills>>

(* Mutant of Compute: a failed computation does not skip the pointer. *)
ComputeThenPoint ==
  /\ At("compute")
  /\ metrics' \in {"ok", "degraded", "failed"}
  /\ step' = IF metrics' = "failed" THEN "pointer" ELSE "snapshot"
  /\ UNCHANGED <<job, project, passed, data, kills>>

Compute ==
  /\ At("compute")
  /\ metrics' \in {"ok", "degraded", "failed"}
  /\ step' = IF metrics' = "failed" THEN "manifest" ELSE "snapshot"
  /\ UNCHANGED <<job, project, passed, data, kills>>

WriteSnapshot ==
  /\ At("snapshot")
  /\ data' = [data EXCEPT ![project].snapshot[night] = "whole"]
  /\ step' = "pointer"
  /\ UNCHANGED <<job, project, metrics, passed, kills>>

WritePointer ==
  /\ At("pointer")
  /\ data' = [data EXCEPT ![project].pointer = night]
  /\ step' = "manifest"
  /\ UNCHANGED <<job, project, metrics, passed, kills>>

(* The exit code is 0 only when every registered metric has rows.          *)
WriteManifest ==
  /\ At("manifest")
  /\ data' = [data EXCEPT ![project].manifest[night] = "whole"]
  /\ EndProcess(metrics = "ok")
  /\ UNCHANGED <<night, metrics, branch, site, live, kills>>

(* What a kill leaves: nothing, or the file being written cut short.       *)
CutShort ==
  CASE step = "collect"  -> [Mine EXCEPT !.collected = "torn"]
    [] step = "compute"  -> Mine
    [] step = "snapshot" -> [Mine EXCEPT !.snapshot[night] = "torn"]
    [] step = "pointer"  -> [Mine EXCEPT !.pointer = Torn]
    [] step = "manifest" -> [Mine EXCEPT !.manifest[night] = "torn"]

Kill ==
  /\ stage = "run"
  /\ kills < MaxKills
  /\ kills' = kills + 1
  /\ \E left \in {Mine, CutShort} : data' = [data EXCEPT ![project] = left]
  /\ EndProcess(FALSE)
  /\ UNCHANGED <<night, metrics, branch, site, live>>

-----------------------------------------------------------------------------
(* The job.                                                                *)

BeginNight ==
  /\ stage = "idle"
  /\ night < MaxNights
  /\ night' = night + 1
  /\ stage' = "run"
  /\ project' = Cassandra
  /\ step' = "collect"
  /\ passed' = FALSE
  /\ data' = branch
  /\ site' = NoSite
  /\ UNCHANGED <<metrics, branch, live, kills>>

(* The schedule does not fire, or the job dies before its commit.          *)
LoseNight ==
  /\ \/ stage = "idle" /\ night < MaxNights /\ night' = night + 1
     \/ stage \in {"run", "commit"} /\ UNCHANGED night
  /\ stage' = "idle"
  /\ data' = branch
  /\ UNCHANGED <<project, step, metrics, passed, branch, site, live, kills>>

Commit ==
  /\ stage = "commit"
  /\ stage' = "site"
  /\ branch' = data
  /\ UNCHANGED <<night, project, step, metrics, passed, data, site, live, kills>>

WithManifest(store) == {n \in Nights : store.manifest[n] # "absent"}

(* Mutant of ResolveLatestRun: no fallback to the manifests. *)
ResolvePointerOnly(store) ==
  IF store.pointer = Torn THEN NoRun ELSE store.pointer

(* resolve_latest_run_id: the pointer when it can be read, else the newest *)
(* manifest.                                                               *)
ResolveLatestRun(store) ==
  IF store.pointer \in Nights THEN store.pointer
  ELSE IF WithManifest(store) = {} THEN NoRun
  ELSE CHOOSE n \in WithManifest(store) : \A m \in WithManifest(store) : m <= n

(* discover_projects *)
Discovered == {p \in Projects : ResolveLatestRun(data[p]) # NoRun}

(* Mutant of Renderable: the manifest is not needed. *)
RenderableWithoutManifest(store) ==
  store.snapshot[ResolveLatestRun(store)] = "whole"

(* generate reads the run's manifest and its metrics snapshot.             *)
Renderable(store) ==
  /\ store.manifest[ResolveLatestRun(store)] = "whole"
  /\ store.snapshot[ResolveLatestRun(store)] = "whole"

(* _is_stale, as of the build: the run completed over 36 hours before.     *)
Render(run) == [run |-> run, banner |-> night >= run + 2]

(* generate_all_projects: every project with data, or no site at all.      *)
BuildSite ==
  /\ stage = "site"
  /\ Discovered # {}
  /\ \A p \in Discovered : Renderable(data[p])
  /\ site' = [p \in Projects |->
                IF p \in Discovered THEN Render(ResolveLatestRun(data[p])) ELSE Dark]
  /\ stage' = "deploy"
  /\ UNCHANGED <<night, project, step, metrics, passed, data, branch, live, kills>>

BuildFails ==
  /\ stage = "site"
  /\ Discovered = {} \/ \E p \in Discovered : ~Renderable(data[p])
  /\ stage' = "idle"
  /\ UNCHANGED <<night, project, step, metrics, passed, data, branch, site, live, kills>>

(* Mutant of Deploy: the outcome of Cassandra's own run is not looked at. *)
DeployAnyway ==
  /\ stage = "deploy"
  /\ stage' = "idle"
  /\ live' = site
  /\ UNCHANGED <<night, project, step, metrics, passed, data, branch, site, kills>>

(* The deploy job runs only after a run and a build that succeeded; it may *)
(* fail itself.                                                            *)
Deploy ==
  /\ stage = "deploy"
  /\ stage' = "idle"
  /\ live' \in IF passed THEN {site, live} ELSE {live}
  /\ UNCHANGED <<night, project, step, metrics, passed, data, branch, site, kills>>

Process == Collect \/ Abort \/ Compute \/ WriteSnapshot \/ WritePointer \/ WriteManifest

Next == \/ Process \/ Kill
        \/ BeginNight \/ LoseNight \/ Commit
        \/ BuildSite \/ BuildFails \/ Deploy

Spec == Init /\ [][Next]_vars

-----------------------------------------------------------------------------
TypeOK ==
  /\ night \in 0..MaxNights
  /\ stage \in {"idle", "run", "commit", "site", "deploy"}
  /\ project \in Projects
  /\ step \in Steps
  /\ metrics \in {"ok", "degraded", "failed"}
  /\ passed \in BOOLEAN
  /\ data \in [Projects -> Store]
  /\ branch \in [Projects -> Store]
  /\ site \in [Projects -> Page \cup {Dark}]
  /\ live \in [Projects -> Page \cup {Dark}]
  /\ kills \in 0..MaxKills

(* A number on the live dashboard can be traced: the run it comes from has *)
(* its manifest and its metrics on the pushed branch, whatever runs were   *)
(* killed, failed or lost since.                                           *)
LiveIsTraceable ==
  \A p \in Projects : live[p] # Dark =>
    /\ branch[p].manifest[live[p].run] = "whole"
    /\ branch[p].snapshot[live[p].run] = "whole"

(* As long as no process is killed in the middle, a project that has had   *)
(* one successful metrics computation never stops the site again, not even *)
(* while its later runs fail or abort: the pointer names a run that is     *)
(* complete.                                                               *)
SeasonedProjectsRender ==
  (kills = 0 /\ stage \in {"idle", "site"}) =>
    \A p \in Projects : branch[p].pointer # NoRun => Renderable(branch[p])

(* A deployment always shows Cassandra's run of that very night, computed  *)
(* in full: neither a failed nor a degraded nor a killed run, nor an older *)
(* one rendered again, is deployed as new (ARCHITECTURE.md section 7.3).   *)
DeploysTonightsRun ==
  [][live' # live => /\ live'[Cassandra].run = night
                     /\ data[Cassandra].pointer = night]_vars

(* A project on the dashboard never disappears from it nor goes back to an *)
(* older run, although a kill may destroy the pointer to its latest run.   *)
NeverGoesBack ==
  [][\A p \in Projects : live'[p].run >= live[p].run]_vars

=============================================================================
