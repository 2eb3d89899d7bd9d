-------------------------- MODULE GovernanceChecks --------------------------
(***************************************************************************)
(* Every night all commits are scored anew against the policy, with the    *)
(* evidence fetched by then; beside the scores the same evidence makes the *)
(* cells of the commits' table and the monthly facts. An issue's comments  *)
(* and its attachments come with fetches of their own.                     *)
(***************************************************************************)
EXTENDS Figures

CONSTANTS
  Keys,        \* issue keys, 1..n
  Kinds,       \* [branch, keys, trailer, wording, exemptions, merge] of commits
  Rules,       \* check -> [branches, effective_from, exemptions]
  MaxDay, MaxCommits, MaxEvidence,  \* days, commits, comments and attachments (bounds)
  Environments \* each a set of what goes on

Days        == 0..MaxDay
Checks      == DOMAIN Rules
Results     == {"pass", "fail", "unknown", "exempt", "not_in_force"}
Artefacts   == {"ci_summary", "results_details"}
Conclusions == {"success", "failure", "neutral"}

VARIABLES
  faults,  \* what goes on in this behaviour; never changes
  world,   \* now: the day; comment, attachment: all evidence there is
  disk,    \* commit; comment, attachment: rows; fetched: keys; reviewed: keys; run; override
  report   \* the rows of the last night

vars == <<faults, world, disk, report>>

Init ==
  /\ faults \in Environments
  /\ world = [now |-> 0, comment |-> {}, attachment |-> {}]
  /\ disk = [commit |-> << >>, comment |-> {}, attachment |-> {}, fetched |-> {}, reviewed |-> {},
             run |-> << >>, override |-> << >>]
  /\ report = << >>

Shas == DOMAIN disk.commit

Commit(kind) ==
  /\ Len(disk.commit) < MaxCommits
  /\ disk' = [disk EXCEPT !.commit = Append(@, [kind |-> kind, at |-> world.now]), !.run = Append(@, {})]
  /\ UNCHANGED <<faults, world, report>>

Posted == Cardinality(world.comment) + Cardinality(world.attachment)

(* Somebody links a CI run on the issue, or attaches what CI wrote.        *)
PostComment(key) ==
  /\ "ci" \in faults /\ Posted < MaxEvidence
  /\ world' = [world EXCEPT !.comment = @ \cup {[key |-> key, at |-> world.now]}]
  /\ UNCHANGED <<faults, disk, report>>

Attach(key, artefact) ==
  /\ "ci" \in faults /\ Posted < MaxEvidence
  /\ world' = [world EXCEPT !.attachment = @ \cup {[key |-> key, kind |-> artefact, at |-> world.now]}]
  /\ UNCHANGED <<faults, disk, report>>

Of(key, rows) == {e \in rows : e.key = key}

(* Only the issues that commits name are asked for.                        *)
Named == UNION {disk.commit[sha].kind.keys : sha \in Shas}

(* Of the comments of an issue the first that names a CI run is kept.      *)
CiComment(key) == {e \in Of(key, world.comment) : \A f \in Of(key, world.comment) : e.at <= f.at}

FetchComments(key) ==
  /\ "ci" \in faults /\ key \in Named
  /\ disk' = [disk EXCEPT !.comment = @ \cup CiComment(key)]
  /\ UNCHANGED <<faults, world, report>>

(* The issue counts as checked from then on.                               *)
FetchAttachments(key) ==
  /\ "ci" \in faults /\ key \in Named
  /\ disk' = [disk EXCEPT !.attachment = @ \cup Of(key, world.attachment), !.fetched = @ \cup {key}]
  /\ UNCHANGED <<faults, world, report>>

NameReviewer(key) ==
  /\ "reviews" \in faults
  /\ disk' = [disk EXCEPT !.reviewed = @ \cup {key}]
  /\ UNCHANGED <<faults, world, report>>

(* The runs of a commit are those of the latest fetch.                     *)
FetchRuns(sha, conclusions) ==
  /\ "runs" \in faults /\ sha \in Shas
  /\ disk' = [disk EXCEPT !.run[sha] = conclusions]
  /\ UNCHANGED <<faults, world, report>>

Override(sha, check, result) ==
  /\ "overrides" \in faults /\ sha \in Shas /\ Len(disk.override) < 2
  /\ disk' = [disk EXCEPT !.override = Append(@, [sha |-> sha, check |-> check, result |-> result])]
  /\ UNCHANGED <<faults, world, report>>

-----------------------------------------------------------------------------
At(sha) == disk.commit[sha].at
KeysOf(sha) == disk.commit[sha].kind.keys
OfKeys(sha, rows) == {e \in rows : e.key \in KeysOf(sha)}
Before(sha, rows) == {e \in rows : e.at <= At(sha)}

AppliesToBranch(rule, branch) == branch \in rule.branches
InForceOn(rule, day) == rule.effective_from <= day
MatchingExemption(rule, kind) == rule.exemptions \cap kind.exemptions

(* What a check says where the rule is in force and no exemption matches.  *)
ScoreReviewerPresent(sha) ==
  LET kind == disk.commit[sha].kind
  IN  IF kind.trailer \/ kind.keys \cap disk.reviewed # {} THEN "pass"
      ELSE IF kind.keys # {} /\ ~kind.wording THEN "fail" ELSE "unknown"

ScoreJiraTicketReferenced(sha) == IF KeysOf(sha) # {} THEN "pass" ELSE "unknown"

(* A comment that names a CI run and either artefact count alike.          *)
CiEvidenceForScoring(sha) == OfKeys(sha, disk.comment \cup disk.attachment)

CiEvidenceAtOrBefore(sha, rows) == Before(sha, rows) # {}

(* Evidence that comes after the commit, or not yet, is no failure.        *)
ScorePreCommitCiEvidence(sha) ==
  IF CiEvidenceAtOrBefore(sha, CiEvidenceForScoring(sha)) THEN "pass" ELSE "unknown"

BothCiArtefactsAtOrBefore(sha, rows) == Artefacts = {e.kind : e \in Before(sha, rows)}

(* Both artefacts must be on one issue; only fetched ones can fail.        *)
ScoreCiArtefactsAttached(sha) ==
  LET fetched == KeysOf(sha) \cap disk.fetched
  IN  IF fetched = {} THEN "unknown"
      ELSE IF \E key \in fetched : BothCiArtefactsAtOrBefore(sha, Of(key, disk.attachment)) THEN "pass"
      ELSE "fail"

CheckstyleAllSucceeded(runs) == runs = {"success"}

ScoreCodeStyleCheckstyle(sha) ==
  IF "failure" \in disk.run[sha] THEN "fail"
  ELSE IF CheckstyleAllSucceeded(disk.run[sha]) THEN "pass" ELSE "unknown"

Score(check, sha) ==
  CASE check = "reviewer_present" -> ScoreReviewerPresent(sha)
    [] check = "jira_ticket_referenced" -> ScoreJiraTicketReferenced(sha)
    [] check = "pre_commit_ci_evidence" -> ScorePreCommitCiEvidence(sha)
    [] check = "ci_artefacts_attached" -> ScoreCiArtefactsAttached(sha)
    [] check = "code_style_checkstyle" -> ScoreCodeStyleCheckstyle(sha)

(* Not in force goes before exempt; a check of other branches has no row.  *)
ScoreCommit(sha) ==
  [check \in {c \in Checks : AppliesToBranch(Rules[c], disk.commit[sha].kind.branch)} |->
     IF ~InForceOn(Rules[check], At(sha)) THEN "not_in_force"
     ELSE IF MatchingExemption(Rules[check], disk.commit[sha].kind) # {} THEN "exempt"
     ELSE Score(check, sha)]

(* The last override of a commit's check is the one that counts.           *)
IndexOverrides(sha, check) ==
  LET mine == {i \in DOMAIN disk.override : disk.override[i].sha = sha /\ disk.override[i].check = check}
  IN  IF mine = {} THEN {} ELSE {disk.override[Max(mine)].result}

ApplyOverride(result, override) == IF override = {} THEN result ELSE CHOOSE r \in override : TRUE

CommitCompliance ==
  [sha \in Shas |-> [check \in DOMAIN ScoreCommit(sha) |->
                       ApplyOverride(ScoreCommit(sha)[check], IndexOverrides(sha, check))]]

-----------------------------------------------------------------------------
HasTicketEvidenceBeenChecked(sha) == KeysOf(sha) \cap disk.fetched # {}

DescribeCiEvidence(sha, rows) ==
  IF rows = {} THEN "none" ELSE IF CiEvidenceAtOrBefore(sha, rows) THEN "before" ELSE "after"

(* Whenever they were attached.                                            *)
DescribeCiArtefacts(rows) ==
  CASE {e.kind : e \in rows} = Artefacts -> "both" [] rows = {} -> "none" [] OTHER -> "partial"

CommitEvidence ==
  [sha \in Shas |->
     CASE KeysOf(sha) = {} -> <<"no_ticket", "no_ticket">>
       [] KeysOf(sha) # {} /\ ~HasTicketEvidenceBeenChecked(sha) -> <<"not_checked", "not_checked">>
       [] OTHER -> <<DescribeCiEvidence(sha, CiEvidenceForScoring(sha)),
                     DescribeCiArtefacts(OfKeys(sha, disk.attachment))>>]

InMonth(m) == {sha \in Shas : MonthStart(At(sha)) = m /\ ~disk.commit[sha].kind.merge}
CompletedMonths(asOf) == {MonthStart(At(sha)) : sha \in Shas} \cap (0..LastCompletedMonth(asOf))

Share(hits, all) ==
  [value |-> Ratio(Cardinality(hits), Cardinality(all)), n |-> Cardinality(all), hits |-> Cardinality(hits)]

(* Of trunk's commits only; evidence counts where it was looked for.       *)
ComputeMonthlyFactMetrics(asOf) ==
  [m \in CompletedMonths(asOf) |->
     LET all == {sha \in InMonth(m) : disk.commit[sha].kind.branch = "trunk"}
         ticket == {sha \in all : KeysOf(sha) # {}}
         checked == {sha \in ticket : HasTicketEvidenceBeenChecked(sha)}
         ran == {sha \in all : disk.run[sha] # {}}
     IN  [named_reviewer |-> Share({sha \in all : disk.commit[sha].kind.trailer
                                                    \/ KeysOf(sha) \cap disk.reviewed # {}}, all),
          ticket_referenced |-> Share(ticket, all),
          ci_evidence |-> Share({sha \in checked : CiEvidenceAtOrBefore(sha, CiEvidenceForScoring(sha))}, checked),
          both_artefacts |-> Share({sha \in checked : BothCiArtefactsAtOrBefore(sha, OfKeys(sha, disk.attachment))},
                                   checked),
          checkstyle |-> Share({sha \in ran : CheckstyleAllSucceeded(disk.run[sha])}, ran),
          not_checked |-> Cardinality(ticket \ checked)]]

(* Of the checks' results, exempt ones and those before the rule are no    *)
(* part of the rate.                                                       *)
ComputeMonthlyCheckMetrics(asOf) ==
  [m \in CompletedMonths(asOf) |->
     [check \in Checks |->
        LET with(results) == {sha \in InMonth(m) : check \in DOMAIN CommitCompliance[sha]
                                                   /\ CommitCompliance[sha][check] \in results}
        IN  Share(with({"pass"}), with({"pass", "fail", "unknown"}))
              @@ [by_result |-> [r \in Results |-> Cardinality(with({r}))]]]]

Governance(asOf) ==
  [compliance |-> CommitCompliance, evidence |-> CommitEvidence,
   facts |-> ComputeMonthlyFactMetrics(asOf), rates |-> ComputeMonthlyCheckMetrics(asOf)]

NextDay ==
  /\ world.now < MaxDay
  /\ world' = [world EXCEPT !.now = @ + 1]
  /\ UNCHANGED <<faults, disk>>
  /\ report' = Governance(world.now + 1)

Next ==
  \/ NextDay
  \/ \E kind \in Kinds : Commit(kind)
  \/ \E key \in Keys : PostComment(key) \/ FetchComments(key) \/ FetchAttachments(key) \/ NameReviewer(key)
  \/ \E key \in Keys, artefact \in Artefacts : Attach(key, artefact)
  \/ \E sha \in Shas, conclusions \in SUBSET Conclusions : FetchRuns(sha, conclusions)
  \/ \E sha \in Shas, check \in Checks, result \in Results : Override(sha, check, result)

-----------------------------------------------------------------------------
TypeOK ==
  /\ faults \in Environments /\ world.now \in Days
  /\ disk.comment \subseteq world.comment /\ disk.attachment \subseteq world.attachment
  /\ \A sha \in Shas : disk.commit[sha].kind \in Kinds /\ At(sha) \in 0..world.now

(* However late and in what parts the evidence was fetched, once the       *)
(* attachments and the first comments of a commit's issues are: the        *)
(* artefacts pass when one issue had both by the commit; the check of CI   *)
(* evidence passes, and the commit's cell shows it as before the commit,   *)
(* when a comment or an artefact was there by then; what came after makes  *)
(* none of these.                                                          *)
VerdictIsOfTheMoment ==
  \A sha \in {s \in Shas : KeysOf(s) # {} /\ KeysOf(s) \subseteq disk.fetched} :
    LET had(key, kind) == \E e \in world.attachment : e.key = key /\ e.kind = kind /\ e.at <= At(sha)
        tested == \E e \in world.comment \cup world.attachment : e.key \in KeysOf(sha) /\ e.at <= At(sha)
    IN  OfKeys(sha, world.attachment) \subseteq disk.attachment =>
          /\ (ScoreCiArtefactsAttached(sha) = "pass") <=> \E key \in KeysOf(sha) : \A kind \in Artefacts : had(key, kind)
          /\ (\A key \in KeysOf(sha) : CiComment(key) \subseteq disk.comment) =>
               /\ (ScorePreCommitCiEvidence(sha) = "pass") <=> tested
               /\ (CommitEvidence[sha][1] = "before") <=> tested

(* The three views of a night agree where they show the same thing. A      *)
(* check that passes on evidence shows it in the commit's cells, if its    *)
(* issue was checked: both artefacts are also evidence of CI. No month has *)
(* more commits with both artefacts than with evidence, and every commit   *)
(* of a month is in one result.                                            *)
ViewsAgree ==
  report # << >> =>
    /\ \A sha \in DOMAIN report.evidence :
         LET scored(check) == check \in DOMAIN report.compliance[sha] /\ report.compliance[sha][check] = "pass"
             cell == report.evidence[sha]
         IN  "overrides" \in faults \/
             /\ (scored("pre_commit_ci_evidence") /\ cell[1] # "not_checked") => cell[1] = "before"
             /\ scored("ci_artefacts_attached") => cell = <<"before", "both">>
    /\ \A m \in DOMAIN report.rates :
         LET facts == report.facts[m]
         IN  /\ facts.ci_evidence.n + facts.not_checked = facts.ticket_referenced.hits
             /\ facts.both_artefacts.hits <= facts.ci_evidence.hits
             /\ \A check \in Checks : LET rate == report.rates[m][check]
                                      IN  rate.n <= SumFunction(rate.by_result) /\ rate.hits = rate.by_result["pass"]

(* What evidence has passed stays passed: later evidence, fetches and      *)
(* reviewers only add, as long as nobody deletes what was attached, whose  *)
(* latest list counts. (The checks of code style follow the latest runs.)  *)
PassStands ==
  (report # << >> /\ "overrides" \notin faults) =>
    \A sha \in DOMAIN report.compliance : \A check \in DOMAIN report.compliance[sha] :
      (report.compliance[sha][check] = "pass" /\ check # "code_style_checkstyle") =>
        report'.compliance[sha][check] = "pass"

=============================================================================
