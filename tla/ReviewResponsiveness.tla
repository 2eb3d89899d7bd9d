------------------------ MODULE ReviewResponsiveness ------------------------
(***************************************************************************)
(* How soon a patch gets its first visible response, by the tier of its    *)
(* author. A submission is an issue that ever was Patch Available, with    *)
(* the pull requests that name it; its author is reconstructed from the    *)
(* history of assignees, its tier from all submissions before it.          *)
(***************************************************************************)
EXTENDS Figures

CONSTANTS
  Issues,        \* 1..n, in the order of their first Patch Available
  People,        \* who acts; 0 is no assignee
  OffererOf, PrAuthorOf,  \* who offers each issue's patch, and who opens its pull request
  Bots,          \* who of People the bot patterns match
  TierSizes,     \* <<1, 5>>: submissions after which the next tiers begin
  Soon, Late,    \* RESPONSE_WITHIN_7D_DAYS, RESPONSE_WITHIN_30D_DAYS
  CommittedDays, \* COMMITTED_WITHIN_DAYS
  YearMonths,    \* months of a calendar year: 12
  MaxDay, MaxResponses, MaxChanges,  \* days, responses, changes of assignee (bounds)
  Environments   \* each a set of what goes on

Days    == 0..MaxDay
Sources == {"jira_comment", "jira_status", "gh_review", "gh_comment"}
OnGitHub == {"gh_review", "gh_comment"}
Tiers   == {"first", "tier_2_5", "tier_6plus"}

(* Rows of the tables, as far as a metric tells them apart. *)
JiraChangelog == [issue : Issues, at : Days, from : People \cup {0}]
Response == [issue : Issues, by : People, at : Days, source : Sources]

VARIABLES
  faults,  \* what goes on in this behaviour; never changes
  world,   \* now: the day; holder: who was assigned when first offered
  disk,    \* issue, pr: rows by issue; change, response: events
  report   \* the metric rows of the last night

vars == <<faults, world, disk, report>>

NoIssue == [patch |-> -1, actor |-> 0, assignee |-> 0, fixed |-> -1]

Init ==
  /\ faults \in Environments
  /\ world = [now |-> 0, holder |-> [i \in Issues |-> 0]]
  /\ disk = [issue |-> [i \in Issues |-> NoIssue],
             pr |-> [i \in Issues |-> [created |-> -1, author |-> 0]],
             change |-> {}, response |-> {}]
  /\ report = << >>

Idle == UNCHANGED <<faults, report>>

(* Issues are assigned, and assigned again.                                *)
Assign(i, to) ==
  /\ "assign" \in faults /\ Cardinality(disk.change) < MaxChanges
  /\ to # disk.issue[i].assignee /\ disk.issue[i].patch # world.now
  /\ \A c \in disk.change : c.issue = i => c.at < world.now
  /\ disk' = [disk EXCEPT !.issue[i].assignee = to,
                          !.change = @ \cup {[issue |-> i, at |-> world.now, from |-> disk.issue[i].assignee]}]
  /\ Idle /\ UNCHANGED world

OfferPatch(i) ==
  /\ disk.issue[i].patch = -1
  /\ \A j \in Issues : j < i => disk.issue[j].patch # -1
  /\ disk' = [disk EXCEPT !.issue[i].patch = world.now, !.issue[i].actor = OffererOf[i]]
  /\ world' = [world EXCEPT !.holder[i] = disk.issue[i].assignee]
  /\ Idle

(* A pull request names the issue; with early ones, before it is offered.  *)
OpenPr(i) ==
  /\ "prs" \in faults /\ disk.pr[i].created = -1
  /\ disk.issue[i].patch # -1 \/ "early" \in faults
  /\ disk' = [disk EXCEPT !.pr[i] = [created |-> world.now, author |-> PrAuthorOf[i]]]
  /\ Idle /\ UNCHANGED world

Respond(i, by, source) ==
  /\ "respond" \in faults /\ Cardinality(disk.response) < MaxResponses
  /\ IF source \in OnGitHub THEN disk.pr[i].created # -1 /\ by \notin Bots ELSE disk.issue[i].patch # -1
  /\ disk' = [disk EXCEPT !.response = @ \cup {[issue |-> i, by |-> by, at |-> world.now, source |-> source]}]
  /\ Idle /\ UNCHANGED world

Fix(i) ==
  /\ "fix" \in faults /\ disk.issue[i].patch # -1 /\ disk.issue[i].fixed = -1
  /\ disk' = [disk EXCEPT !.issue[i].fixed = world.now]
  /\ Idle /\ UNCHANGED world

-----------------------------------------------------------------------------
Submissions == {i \in Issues : disk.issue[i].patch # -1}

SubmittedAt(i) == Min({disk.issue[i].patch} \cup ({disk.pr[i].created} \ {-1}))

FirstPatchAvailableActor(i) == disk.issue[i].actor

(* Whom the first change after the transition took it from; else who has   *)
(* it now; else who made the transition.                                   *)
PatchAuthor(i) ==
  LET after == {c \in disk.change : c.issue = i /\ c.at > disk.issue[i].patch}
      first == {c.from : c \in {c \in after : \A d \in after : c.at <= d.at}} \ {0}
  IN  IF first # {} THEN Min(first)
      ELSE IF disk.issue[i].assignee # 0 THEN disk.issue[i].assignee
      ELSE FirstPatchAvailableActor(i)

(* Another than the author answers in JIRA, and no bot; on GitHub another  *)
(* than the author of a linked request.                                    *)
Responses(i) ==
  {r \in disk.response :
     /\ r.issue = i /\ r.at >= SubmittedAt(i)
     /\ IF r.source \in OnGitHub THEN r.by # disk.pr[i].author
        ELSE r.by # PatchAuthor(i) /\ r.by \notin Bots}

Earlier(i) ==
  {j \in Submissions : /\ PatchAuthor(j) = PatchAuthor(i)
                       /\ SubmittedAt(j) < SubmittedAt(i) \/ (SubmittedAt(j) = SubmittedAt(i) /\ j < i)}

Tier(i) ==
  LET prior == Cardinality(Earlier(i))
  IN  IF prior < TierSizes[1] THEN "first" ELSE IF prior < TierSizes[2] THEN "tier_2_5" ELSE "tier_6plus"

BuildSubmissions ==
  [i \in Submissions |->
     [submitted_at |-> SubmittedAt(i), author |-> PatchAuthor(i), tier |-> Tier(i),
      responses |-> {r.at : r \in Responses(i)}, fixed |-> disk.issue[i].fixed]]

-----------------------------------------------------------------------------
YearDays == YearMonths * MonthDays

(* Completed years since the first submission's.                           *)
CalendarYearWindows(subs, asOf) ==
  LET days == {subs[i].submitted_at : i \in DOMAIN subs}
  IN  IF days = {} THEN {}
      ELSE {(y * YearDays)..((y + 1) * YearDays - 1) : y \in (Min(days) \div YearDays)..(asOf \div YearDays - 1)}

Trailing12mWindows(subs, asOf) ==
  LET days == {subs[i].submitted_at : i \in DOMAIN subs}
  IN  IF days = {} THEN {}
      ELSE {TrailingWindow(MonthEnd(m)) : m \in DenseMonths(Min(days), asOf)}

(* A share of the submissions at least so many days old.                   *)
Share(hits, old) == MakeRow(Ratio(Cardinality(hits), Cardinality(old)), Cardinality(old), FALSE)
                      @@ [hits |-> Cardinality(hits)]

(* A night is as of midnight, before whatever happens that day.            *)
WindowRows(subs, cohort, window, asOf) ==
  LET in == {i \in cohort : subs[i].submitted_at \in window}
      old(days) == {i \in in : asOf - subs[i].submitted_at > days}
      answered == {i \in in : subs[i].responses # {}}
      wait(i) == Min(subs[i].responses) - subs[i].submitted_at
      within(days) == {i \in old(days) \cap answered : wait(i) <= days}
  IN  [median |-> MakeRow(Median([i \in answered |-> wait(i)]), Cardinality(answered), FALSE),
       submitted |-> Cardinality(in),
       soon |-> Share(within(Soon), old(Soon)),
       late |-> Share(within(Late), old(Late)),
       none |-> Share(old(Late) \ answered, old(Late)),
       committed |-> Share({i \in old(CommittedDays) :
                              subs[i].fixed # -1 /\ subs[i].fixed - subs[i].submitted_at <= CommittedDays},
                           old(CommittedDays))]

FirstPatchSubmissions(subs, window) ==
  Headcount(Cardinality({i \in DOMAIN subs : subs[i].tier = "first" /\ subs[i].submitted_at \in window}))

ComputeReviewResponsiveness(asOf) ==
  LET subs == BuildSubmissions
      cohort(tier) == {i \in DOMAIN subs : subs[i].tier = tier}
      rows(windows) == [w \in windows |->
                          [tier \in Tiers |-> WindowRows(subs, cohort(tier), w, asOf)]
                            @@ [first_patch_submissions |-> FirstPatchSubmissions(subs, w)]]
  IN  [yearly |-> rows(CalendarYearWindows(subs, asOf)),
       trailing12m |-> rows(Trailing12mWindows(subs, asOf))]

NextDay ==
  /\ world.now < MaxDay
  /\ world' = [world EXCEPT !.now = @ + 1]
  /\ UNCHANGED <<faults, disk>>
  /\ report' = ComputeReviewResponsiveness(world.now + 1)

Next ==
  \/ NextDay
  \/ \E i \in Issues, p \in People : Assign(i, p)
  \/ \E i \in Issues, p \in People, s \in Sources : Respond(i, p, s)
  \/ \E i \in Issues : OfferPatch(i) \/ OpenPr(i) \/ Fix(i)

-----------------------------------------------------------------------------
TypeOK ==
  /\ faults \in Environments /\ world.now \in Days
  /\ \A i \in Issues : disk.issue[i].patch \in -1..world.now /\ disk.pr[i].created \in -1..world.now
  /\ disk.response \subseteq Response /\ disk.change \subseteq JiraChangelog

(* Whoever was assigned when an issue was first offered is the author of   *)
(* the submission, however often it is assigned after that.                *)
AuthorIsHolderThen ==
  \A i \in Submissions : world.holder[i] # 0 => PatchAuthor(i) = world.holder[i]

(* Every author has one first submission, of all there are.                *)
FirstIsOnce ==
  Cardinality({i \in Submissions : Tier(i) = "first"}) = Cardinality({PatchAuthor(i) : i \in Submissions})

(* Among submissions old enough for all figures, who is answered soon is   *)
(* answered in time, and nobody answered counts as without a response.     *)
SharesAgree ==
  report # << >> =>
    \A kind \in DOMAIN report : \A w \in DOMAIN report[kind] : \A tier \in Tiers :
      LET row == report[kind][w][tier]
      IN  row.late.n = row.submitted =>
            row.soon.hits <= row.late.hits /\ row.late.hits + row.none.hits <= row.submitted

(* What was told of answers in time is final once a window's submissions   *)
(* are old enough, and so is the number of first ones, as long as no issue *)
(* is assigned anew and no request was opened before its issue's patch.    *)
SharesSettle ==
  (report # << >> /\ faults \cap {"assign", "early"} = {}) =>
    \A kind \in DOMAIN report : \A w \in DOMAIN report[kind] :
      /\ report'[kind][w].first_patch_submissions = report[kind][w].first_patch_submissions
      /\ \A tier \in Tiers :
           report[kind][w][tier].late.n = report[kind][w][tier].submitted =>
             /\ report'[kind][w][tier].soon = report[kind][w][tier].soon
             /\ report'[kind][w][tier].late = report[kind][w][tier].late

=============================================================================
