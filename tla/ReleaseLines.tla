---------------------------- MODULE ReleaseLines ----------------------------
(***************************************************************************)
(* The page of the release lines, of one line here: JIRA's versions are    *)
(* told apart by their names and descriptions, the placeholders of a line  *)
(* are put in the order of the milestones they block, and the issues that  *)
(* were open on each are listed beside the releases and the builds. JIRA   *)
(* and Butler answer or fail each on its own; of every row the page takes  *)
(* the latest.                                                             *)
(*                                                                         *)
(* Versions are numbered in the order of their names, which is also the    *)
(* order in which JIRA lists them.                                         *)
(***************************************************************************)
EXTENDS Naturals, FiniteSets, FiniteSetsExt, Sequences, SequencesExt, Functions, TLC

CONSTANTS
  Shapes,      \* version -> [name, stage]: what its name says after the line
  Stages,      \* alpha, beta, rc: 1..n
  Issues,      \* issues that may block a version
  Described,   \* version -> its description
  Edits,       \* version -> descriptions it may be given
  Gap,         \* _CI_TREND_GAP_DAYS
  MaxDay, MaxEdits, \* days, changes outside (bounds)
  Environments \* each a set of what goes on

Versions == DOMAIN Shapes
Names    == {"series", "bare", "patch", "pre", "stage"}  \* .x, nothing, .10, -alpha3, -alpha
None     == 0   \* no stage: a target that is the general release
Days     == 0..MaxDay
Sources  == {"jira", "butler"}

(* A description is none, a placeholder's for a target, or another text.   *)
Plain          == [kind |-> "none", target |-> None]
Other          == [kind |-> "other", target |-> None]
Blockers(stage) == [kind |-> "blockers", target |-> stage]
Descriptions   == {Plain, Other} \cup {Blockers(s) : s \in Stages \cup {None}}

JiraVersion == [desc : Descriptions, released : BOOLEAN, on : Days]

VARIABLES
  faults,  \* what goes on in this behaviour; never changes
  world,   \* now; edits; listed; version; open: [issue, version]; tag, build: [at, ...]
  disk,    \* version; blocker, tag, build: rows, each with the day it was collected
  report   \* the page, << >> before the first night

vars == <<faults, world, disk, report>>

Init ==
  /\ faults \in Environments
  /\ world = [now |-> 0, edits |-> 0, listed |-> Versions, open |-> {}, tag |-> {}, build |-> {},
              version |-> [v \in Versions |-> [desc |-> Described[v], released |-> FALSE, on |-> 0]]]
  /\ disk = [version |-> << >>, blocker |-> {}, tag |-> {}, build |-> {}]
  /\ report = << >>

-----------------------------------------------------------------------------
(* What people do outside.                                                 *)
Outside(change) ==
  /\ world.edits < MaxEdits
  /\ world' = change
  /\ UNCHANGED <<faults, disk, report>>

Edited == [world EXCEPT !.edits = @ + 1]

Redescribe(v, desc) ==
  "describe" \in faults /\ desc # world.version[v].desc /\ Outside([Edited EXCEPT !.version[v].desc = desc])

ReleaseVersion(v) ==
  /\ "release" \in faults /\ ~world.version[v].released
  /\ Outside([Edited EXCEPT !.version[v].released = TRUE, !.version[v].on = world.now])

Unlist(v) == "unlist" \in faults /\ v \in world.listed /\ Outside([Edited EXCEPT !.listed = @ \ {v}])

OpenIssue(i, v) ==
  /\ "block" \in faults /\ [issue |-> i, version |-> v] \notin world.open
  /\ Outside([Edited EXCEPT !.open = @ \cup {[issue |-> i, version |-> v]}])

Resolve(i, v) ==
  /\ "block" \in faults /\ [issue |-> i, version |-> v] \in world.open
  /\ Outside([Edited EXCEPT !.open = @ \ {[issue |-> i, version |-> v]}])

Tag(general) == "release" \in faults /\ Outside([Edited EXCEPT !.tag = @ \cup {[at |-> world.now, general |-> general]}])

Build(failures) ==
  /\ "build" \in faults /\ \A b \in world.build : b.at # world.now
  /\ Outside([Edited EXCEPT !.build = @ \cup {[at |-> world.now, failures |-> failures]}])

-----------------------------------------------------------------------------
Kind(v, row) ==
  CASE Shapes[v].name = "series"                              -> "series_placeholder"
    [] Shapes[v].name # "series" /\ row.desc.kind = "blockers" -> "ladder_placeholders"
    [] row.desc.kind = "none" /\ Shapes[v].name = "bare"      -> "ga_target"
    [] row.desc.kind = "none" /\ Shapes[v].name \in {"patch", "pre"} /\ ~row.released -> "next_versions"
    [] row.desc.kind = "none" /\ Shapes[v].name = "pre" /\ row.released -> "released_versions"
    [] OTHER -> "none of these"

ClassifyVersions(rows) ==
  [kind \in {"series_placeholder", "ladder_placeholders", "ga_target", "next_versions", "released_versions"} |->
     {v \in DOMAIN rows : Kind(v, rows[v]) = kind}]

(* From the steps nobody points to, each step is followed by the one whose *)
(* stage its description names; what that leaves comes by name. Of two     *)
(* with one stage the one listed last is pointed to.                       *)
OrderLadder(rows, placeholders) ==
  LET points(v) == rows[v].desc.target
      next(v) == {w \in placeholders : points(v) # None /\ Shapes[w].stage = points(v)}
      starts == {v \in placeholders : Shapes[v].stage \notin {points(w) : w \in placeholders} \ {None}}
      byName(S) == SetToSortSeq(S, LAMBDA v, w : v < w)
      step(chain) ==
        IF chain.at \in {None} \cup ToSet(chain.seq) THEN chain
        ELSE [seq |-> Append(chain.seq, chain.at),
              at  |-> IF next(chain.at) = {} THEN None ELSE Max(next(chain.at))]
      walk(seq, start) == FoldLeftDomain(LAMBDA chain, k : step(chain), [seq |-> seq, at |-> start],
                                         byName(placeholders)).seq
      chained == FoldLeft(walk, << >>, byName(starts))
  IN  chained \o byName(placeholders \ ToSet(chained))

(* The versions of the line that are collected, and those among them whose *)
(* open issues are.                                                        *)
TrackedVersionsForLine(rows) == UNION Range(ClassifyVersions(rows))
NeedsIssues(rows) == TrackedVersionsForLine(rows) \ ClassifyVersions(rows).released_versions

JiraRows == [v \in TrackedVersionsForLine(Restrict(world.version, world.listed)) |-> world.version[v]]
OpenIssues == {[issue |-> b.issue, version |-> b.version, night |-> world.now] :
                 b \in {b \in world.open : b.version \in NeedsIssues(JiraRows)}}

(* Of the tags only a general release's is a release.                      *)
ListGaTags == {t \in world.tag : t.general}

(* Of the rows of one issue and version the latest is read.                *)
Latest(old, new) ==
  new \cup {r \in old : \A n \in new : <<n.issue, n.version>> # <<r.issue, r.version>>}

Collected(failed) ==
  [version |-> IF "jira" \in failed THEN disk.version ELSE JiraRows @@ disk.version,
   blocker |-> IF "jira" \in failed THEN disk.blocker ELSE Latest(disk.blocker, OpenIssues),
   tag     |-> disk.tag \cup ListGaTags,
   build   |-> IF "butler" \in failed THEN disk.build ELSE disk.build \cup world.build]

-----------------------------------------------------------------------------
GroupBlockerIssues(rows, v) == {b.issue : b \in {b \in rows : b.version = v}}

LadderStepView(d, v) == [name |-> v, issues |-> GroupBlockerIssues(d.blocker, v)]

(* General releases are known by their tags, earlier ones by JIRA's dates. *)
Timeline(d, released) ==
  SetToSortSeq({[version |-> None, on |-> t.at] : t \in d.tag}
                 \cup {[version |-> v, on |-> d.version[v].on] : v \in released},
               LAMBDA r, s : r.on < s.on \/ (r.on = s.on /\ r.version < s.version))

(* The line of the chart is broken where builds lie too far apart.         *)
CiTrendSpec(d) ==
  LET points == SetToSortSeq(d.build, LAMBDA p, q : p.at < q.at)
      breaks(k) == {j \in 2..k : points[j].at - points[j - 1].at > Gap}
  IN  [k \in DOMAIN points |-> [at |-> points[k].at, failures |-> points[k].failures,
                                segment |-> Cardinality(breaks(k))]]

BuildReleaseLineModel(d) ==
  LET kinds == ClassifyVersions(d.version)
      steps(S) == {LadderStepView(d, v) : v \in S}
      order == OrderLadder(d.version, kinds.ladder_placeholders)
  IN  [ladder         |-> [k \in DOMAIN order |-> LadderStepView(d, order[k])],
       series         |-> steps(kinds.series_placeholder),
       ga_target      |-> steps(kinds.ga_target),
       next_versions  |-> kinds.next_versions,
       next_release   |-> steps(IF kinds.next_versions = {} THEN {} ELSE {Min(kinds.next_versions)}),
       timeline       |-> Timeline(d, kinds.released_versions),
       has_ga_release |-> d.tag # {},
       ci             |-> CiTrendSpec(d)]

TotalOpenBlockers(view) == SumFunction([k \in DOMAIN view.ladder |-> Cardinality(view.ladder[k].issues)])

(* Once the line is out its ladder is history, and the issues still open   *)
(* on it are listed beneath.                                               *)
LineDict(view) ==
  view @@ [show_ladder_section |-> ~view.has_ga_release,
           pre_ga_open_issues  |-> IF view.has_ga_release THEN UNION {s.issues : s \in Range(view.ladder)} ELSE {},
           total_open_blockers |-> TotalOpenBlockers(view),
           blockers_to_next_milestone |->
             IF view.has_ga_release THEN << >>
             ELSE [k \in DOMAIN view.ladder |-> Cardinality(view.ladder[k].issues)],
           latest_release |-> IF view.timeline = << >> THEN None ELSE Last(view.timeline).version]

BuildReleasesContext(d, failed) ==
  LineDict(BuildReleaseLineModel(d)) @@ [fresh |-> Sources \ failed]

Night(failed) ==
  /\ world.now < MaxDay
  /\ "outage" \notin faults => failed = {}
  /\ world' = [world EXCEPT !.now = @ + 1]
  /\ disk' = Collected(failed)
  /\ report' = BuildReleasesContext(Collected(failed), failed)
  /\ UNCHANGED faults

Next ==
  \/ \E failed \in SUBSET Sources : Night(failed)
  \/ \E v \in Versions : ReleaseVersion(v) \/ Unlist(v) \/ \E desc \in Edits[v] : Redescribe(v, desc)
  \/ \E i \in Issues, v \in Versions : OpenIssue(i, v) \/ Resolve(i, v)
  \/ \E general \in BOOLEAN : Tag(general)
  \/ \E failures \in {0, 1} : Build(failures)

-----------------------------------------------------------------------------
TypeOK ==
  /\ faults \in Environments /\ world.now \in Days /\ world.edits \in 0..MaxEdits
  /\ \A v \in Versions : world.version[v] \in JiraVersion
  /\ \A v \in DOMAIN disk.version : disk.version[v] \in JiraVersion
  /\ disk.tag \subseteq ListGaTags /\ disk.build \subseteq world.build

Placeholders == ClassifyVersions(disk.version).ladder_placeholders
LadderNames  == [k \in DOMAIN report.ladder |-> report.ladder[k].name]

(* Whatever the descriptions say, every placeholder is a step of the       *)
(* ladder, once; and where the stages make a path to the release, however  *)
(* they are named, each step comes right before the one it points to.      *)
LadderIsPath ==
  report # << >> =>
    /\ ToSet(LadderNames) = Placeholders /\ IsInjective(LadderNames)
    /\ LET aims(v) == {w \in Placeholders : Shapes[w].stage = disk.version[v].desc.target /\ Shapes[w].stage # None}
           plain == /\ \A v, w \in Placeholders : v # w => aims(v) \cap aims(w) = {} /\ Cardinality(aims(v)) <= 1
                    /\ \A S \in SUBSET Placeholders : S # {} => \E v \in S : aims(v) \cap S = {}
       IN  plain => \A k \in DOMAIN LadderNames : aims(LadderNames[k]) # {} =>
                       /\ k < Len(LadderNames) /\ LadderNames[k + 1] \in aims(LadderNames[k])

(* A night on which JIRA answered shows every blocker that was open on a   *)
(* listed version the page lists the issues of; each counts in the total   *)
(* if it is the ladder's.                                                  *)
OpenIsShown ==
  (report # << >> /\ "jira" \in report.fresh) =>
    LET open(v) == {b.issue : b \in {b \in disk.blocker : b.version = v /\ b.night = world.now - 1}}
        steps == Range(report.ladder) \cup report.series \cup report.ga_target \cup report.next_release
    IN  /\ \A b \in {b \in disk.blocker : b.night = world.now - 1} :
             (\E s \in steps : s.name = b.version /\ b.issue \in s.issues)
               \/ b.version \in report.next_versions \ {s.name : s \in report.next_release}
        /\ report.total_open_blockers >= SumFunction([v \in Placeholders |-> Cardinality(open(v))])
        /\ report.has_ga_release => \A v \in Placeholders : open(v) \subseteq report.pre_ga_open_issues

(* A release once on the timeline stays, unless JIRA says otherwise of it, *)
(* and no later release comes before it; an outage takes nothing away.     *)
TimelineStands ==
  report # << >> =>
    LET same == SelectSeq(report.timeline,
                          LAMBDA r : r.version = None \/ disk'.version[r.version] = disk.version[r.version])
    IN  SelectSeq(report'.timeline, LAMBDA r : r \in ToSet(same)) = same

=============================================================================
