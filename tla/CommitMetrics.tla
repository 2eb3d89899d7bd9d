--------------------------- MODULE CommitMetrics ---------------------------
(***************************************************************************)
(* The metrics of commits and reviews. Every night computes the rows of    *)
(* all completed months anew, from all events on disk and from the links   *)
(* of the moment; a month is one day here, and a commit's author a raw     *)
(* identifier that links resolve to a person. An event is stored once more *)
(* when its night was cut before the watermark.                            *)
(***************************************************************************)
EXTENDS Figures

CONSTANTS
  People, Raws,  \* identities; raw identifiers of authors and reviewers
  Bots,          \* raw identifiers that a bot pattern matches
  Links,         \* [raw, id, manual]: rows the identity link table may have
  Periods,       \* [id, org, rank, from, to]: affiliation periods by rank of their source
  Unknown,       \* UNKNOWN_ORG
  MaxMonth,      \* months (bound)
  MaxCommits, MaxReviews,  \* commits, reviews (bounds)
  Environments   \* each a set of what goes on

Months  == 0..MaxMonth
Sources == {"commit_trailer", "jira_field"}
Orgs    == {p.org : p \in Periods} \cup {Unknown}

(* Rows of the tables, as far as a metric tells them apart. *)
ContributionEvent == Raws \X Months
ReviewEvent == Sources \X Raws \X Months
IdentityLink == [raw : Raws, id : People, manual : BOOLEAN]
AffiliationPeriod == [id : People, org : Orgs \ {Unknown}, rank : 1..3, from : Nat, to : Nat]

VARIABLES
  faults,  \* what goes on in this behaviour; never changes
  world,   \* now: the month; commits[raw, month]
  disk,    \* commits[raw, month]: rows of them; reviews[source, raw, month]: rows; links
  report   \* the metric rows of the last night

vars == <<faults, world, disk, report>>

NoReviews == [x \in ReviewEvent |-> 0]

(* The first links are there before anything is computed.                  *)
Init ==
  /\ faults \in Environments
  /\ world = [now |-> 0, commits |-> [x \in ContributionEvent |-> 0]]
  /\ disk = [commits |-> world.commits, reviews |-> NoReviews, links |-> {l \in Links : ~l.manual}]
  /\ report = << >>

(* A commit bears the month it is made in; with old ones, the one its      *)
(* author gave it.                                                         *)
Commit(raw, m) ==
  /\ "commits" \in faults
  /\ m = world.now \/ ("old" \in faults /\ m <= world.now)
  /\ SumFunction(world.commits) < MaxCommits
  /\ world' = [world EXCEPT !.commits[raw, m] = @ + 1]
  /\ disk' = [disk EXCEPT !.commits[raw, m] = @ + 1]
  /\ UNCHANGED <<faults, report>>

(* Mutant of Recollect: the month done again is all the table keeps.       *)
RecollectAlone(m) ==
  /\ "cut" \in faults /\ disk.commits = world.commits
  /\ disk' = [disk EXCEPT !.commits =
                [x \in ContributionEvent |-> IF x[2] = m THEN @[x] + world.commits[x] ELSE 0]]
  /\ UNCHANGED <<faults, world, report>>

(* A night that was cut is done again: the commits of its month are        *)
(* appended to the table once more.                                        *)
Recollect(m) ==
  /\ "cut" \in faults /\ disk.commits = world.commits
  /\ disk' = [disk EXCEPT !.commits =
                [x \in ContributionEvent |-> IF x[2] = m THEN @[x] + world.commits[x] ELSE @[x]]]
  /\ UNCHANGED <<faults, world, report>>

Review(source, raw) ==
  /\ "reviews" \in faults
  /\ SumFunction(disk.reviews) < MaxReviews
  /\ disk' = [disk EXCEPT !.reviews[source, raw, world.now] = @ + 1]
  /\ UNCHANGED <<faults, world, report>>

(* A person is found by hand behind an identifier. *)
Link(l) ==
  /\ "links" \in faults
  /\ disk' = [disk EXCEPT !.links = @ \cup {l}]
  /\ UNCHANGED <<faults, world, report>>

-----------------------------------------------------------------------------
(* A link made by hand goes before the others, then the smallest identity. *)
ResolvedIdentity(raw) ==
  LET mine == {l \in disk.links : l.raw = raw}
      hand == {l \in mine : l.manual}
      best == IF hand = {} THEN mine ELSE hand
  IN  IF best = {} THEN {} ELSE {Min({l.id : l \in best})}

(* The identifiers in any event that a pattern matches. *)
BotIdentifiers ==
  {raw \in Bots : \/ \E m \in Months : disk.commits[raw, m] > 0
                  \/ \E s \in Sources, m \in Months : disk.reviews[s, raw, m] > 0}

Authors(id) == {raw \in Raws \ BotIdentifiers : id \in ResolvedIdentity(raw)}

(* People with a commit in the month.                                      *)
Active(m) == {id \in People : \E raw \in Authors(id) : disk.commits[raw, m] > 0}

Completed(first, asOf) == DenseMonths(Min(first), asOf)

ActiveContributorsMonthly(asOf) ==
  LET months == {m \in Months : Active(m) # {}}
  IN  [m \in IF months = {} THEN {} ELSE Completed(months, asOf) |-> Headcount(Cardinality(Active(m)))]

(* A person is new in the month of the first commit.                       *)
NewContributorsMonthly(asOf) ==
  LET months == {m \in Months : Active(m) # {}}
      new(m) == Active(m) \ UNION {Active(k) : k \in {k \in Months : k < m}}
  IN  [m \in IF months = {} THEN {} ELSE Completed(months, asOf) |-> Headcount(Cardinality(new(m)))]

Reviewing(sources, m) ==
  {id \in People : \E raw \in Authors(id), s \in sources : disk.reviews[s, raw, m] > 0}

(* The reviewers of either source, and those of each.                      *)
UniqueReviewersMonthly(asOf) ==
  LET months == {m \in Months : Reviewing(Sources, m) # {}}
  IN  [m \in IF months = {} THEN {} ELSE Completed(months, asOf) |->
         Headcount(Cardinality(Reviewing(Sources, m)))
           @@ [s \in Sources |-> Cardinality(Reviewing({s}, m))]]

Positive(f) == [x \in {x \in DOMAIN f : f[x] > 0} |-> f[x]]

ReviewCredits(source, window) ==
  Positive([id \in People |->
              SumFunctionOnSet(disk.reviews, {source} \X Authors(id) \X (window \cap Months))])

(* Only trailers make the index: its months are those with any review.     *)
ReviewerHhi(asOf) ==
  LET months == {x[3] : x \in DOMAIN Positive(disk.reviews)}
  IN  [m \in IF months = {} THEN {} ELSE Completed(months, asOf) |->
         LET credits == ReviewCredits("commit_trailer", TrailingWindow(MonthEnd(m)))
         IN  MakeRow(Hhi(credits), Cardinality(DOMAIN credits), FALSE)]

-----------------------------------------------------------------------------
CommitMonths == {x[2] : x \in DOMAIN Positive(disk.commits)}
Windows(asOf) == IF CommitMonths = {} THEN {} ELSE Completed(CommitMonths, asOf)

(* Rows, not commits, are counted.                                         *)
ContributorCommitCounts(window) ==
  Positive([id \in People |-> SumFunctionOnSet(disk.commits, Authors(id) \X (window \cap Months))])

(* The smallest number of people with half of the commits.                 *)
ContributorAbsenceFactor(asOf) ==
  [m \in Windows(asOf) |->
     LET credits == ContributorCommitCounts(TrailingWindow(MonthEnd(m)))
     IN  MakeRow(ReachHalf(credits), Cardinality(DOMAIN credits), FALSE)]

ContributorHhi(asOf) ==
  [m \in Windows(asOf) |->
     LET credits == ContributorCommitCounts(TrailingWindow(MonthEnd(m)))
     IN  MakeRow(Hhi(credits), Cardinality(DOMAIN credits), FALSE)]

(* A commit's organisation: of its author's periods that day, the one of   *)
(* the best source.                                                        *)
OrganizationAt(id, m) ==
  LET held == {p \in Periods : p.id = id /\ p.from <= m /\ m < p.to}
      best == {p \in held : \A q \in held : p.rank <= q.rank}
  IN  IF held = {} THEN Unknown ELSE Min({p.org : p \in best})

Window(m) == TrailingWindow(MonthEnd(m)) \cap Months

Stored(raw, m) == Min({disk.commits[raw, m], world.commits[raw, m]})

(* Copies of one event are one commit here.                                *)
OrganizationCommitCounts(window) ==
  LET of(org) == {x \in (Raws \ BotIdentifiers) \X window :
                    \E id \in ResolvedIdentity(x[1]) : OrganizationAt(id, x[2]) = org}
  IN  Positive([org \in Orgs |-> MapThenSumSet(LAMBDA x : Stored(x[1], x[2]), of(org))])

(* A person with one commit under a known organisation is known.           *)
ContributorUnknownCount(window) ==
  LET people == {id \in People : \E m \in window : id \in Active(m)}
  IN  [total |-> Cardinality(people),
       unknown |-> Cardinality({id \in people :
                     \A m \in window : id \in Active(m) => OrganizationAt(id, m) = Unknown})]

UnknownCommits(counts) == SumFunctionOnSet(counts, DOMAIN counts \cap {Unknown})

UnknownDominates(counts) ==
  SumFunction(counts) > 0 /\ 2 * UnknownCommits(counts) >= SumFunction(counts)

Known(counts) == DOMAIN counts \ {Unknown}

(* Unknown is one of the organisations ranked.                             *)
ElephantFactor(asOf) ==
  [m \in Windows(asOf) |->
     LET counts == OrganizationCommitCounts(Window(m))
     IN  MakeRow(ReachHalf(counts), Cardinality(Known(counts)), UnknownDominates(counts))]

OrganizationalHhi(asOf) ==
  [m \in Windows(asOf) |->
     LET counts == OrganizationCommitCounts(Window(m))
     IN  MakeRow(Hhi(counts), Cardinality(Known(counts)), UnknownDominates(counts))]

SingleOrgShare(asOf) ==
  [m \in Windows(asOf) |->
     LET counts == OrganizationCommitCounts(Window(m))
         top == Max({counts[org] : org \in Known(counts)} \cup {0})
     IN  MakeRow(IF top = 0 THEN NoFigure ELSE Ratio(top, SumFunction(counts)),
                 Cardinality(Known(counts)), UnknownDominates(counts))]

UnknownAffiliationRate(asOf) ==
  [m \in Windows(asOf) |->
     LET counts == OrganizationCommitCounts(Window(m))
         people == ContributorUnknownCount(Window(m))
     IN  MakeRow(Ratio(UnknownCommits(counts), SumFunction(counts)), SumFunction(counts), FALSE)
           @@ [contributors |-> Ratio(people.unknown, people.total)]]

(* The rows of a night, by metric and month. *)
ComputeAll(asOf) ==
  [active_contributors_monthly |-> ActiveContributorsMonthly(asOf),
   new_contributors_monthly |-> NewContributorsMonthly(asOf),
   unique_reviewers_monthly |-> UniqueReviewersMonthly(asOf),
   reviewer_hhi |-> ReviewerHhi(asOf),
   contributor_absence_factor |-> ContributorAbsenceFactor(asOf),
   contributor_hhi |-> ContributorHhi(asOf),
   elephant_factor |-> ElephantFactor(asOf),
   organizational_hhi |-> OrganizationalHhi(asOf),
   single_org_share |-> SingleOrgShare(asOf),
   unknown_affiliation_rate |-> UnknownAffiliationRate(asOf)]

(* A month is over; the nights that follow compute its rows.               *)
NextMonth ==
  /\ world.now < MaxMonth
  /\ world' = [world EXCEPT !.now = @ + 1]
  /\ UNCHANGED <<faults, disk>>
  /\ report' = ComputeAll(world.now + 1)

Next ==
  \/ NextMonth
  \/ \E raw \in Raws, m \in Months : Commit(raw, m)
  \/ \E m \in Months : Recollect(m)
  \/ \E source \in Sources, raw \in Raws : Review(source, raw)
  \/ \E l \in Links : Link(l)

-----------------------------------------------------------------------------
TypeOK ==
  /\ faults \in Environments
  /\ world.now \in Months /\ world.commits \in [ContributionEvent -> 0..MaxCommits]
  /\ \A x \in ContributionEvent : disk.commits[x] >= world.commits[x]
  /\ disk.reviews \in [ReviewEvent -> 0..MaxReviews]
  /\ disk.links \subseteq IdentityLink /\ Periods \subseteq AffiliationPeriod

(* The commits of people, each once. *)
PeoplesCommits(window) ==
  {x \in (Raws \ BotIdentifiers) \X window : ResolvedIdentity(x[1]) # {} /\ world.commits[x] > 0}

CommitsOf(ids, window) ==
  SumFunctionOnSet(world.commits, {x \in PeoplesCommits(window) : ResolvedIdentity(x[1]) \subseteq ids})

(* No smaller set of people has half of the window's commits than the      *)
(* absence factor says (unless a cut night has doubled some of the rows).  *)
AbsenceFactorIsSmallest ==
  "cut" \notin faults =>
    \A m \in {m \in Windows(world.now) : ContributorAbsenceFactor(world.now)[m].ok} :
      LET half == {ids \in SUBSET People :
                     2 * CommitsOf(ids, Window(m)) >= CommitsOf(People, Window(m))}
      IN  ContributorAbsenceFactor(world.now)[m].value = Figure(Min({Cardinality(ids) : ids \in half}))

(* Whatever periods overlap and whatever was stored twice, each commit of  *)
(* a person counts for one organisation, once.                             *)
OneOrganisationEach ==
  \A m \in Windows(world.now) :
    SumFunction(OrganizationCommitCounts(Window(m))) = CommitsOf(People, Window(m))

(* A person is new in one month, and was active in it.                     *)
NewOnce ==
  SumFunction([m \in DOMAIN NewContributorsMonthly(world.now) |-> NewContributorsMonthly(world.now)[m].n])
    = Cardinality(UNION {Active(m) : m \in DOMAIN ActiveContributorsMonthly(world.now)})

(* The figures of concentration are shown or withheld together, and when   *)
(* shown agree on whether one organisation makes half of the commits.      *)
ConcentrationAgrees ==
  \A m \in Windows(world.now) :
    LET elephant == ElephantFactor(world.now)[m]   share == SingleOrgShare(world.now)[m]   hhi == OrganizationalHhi(world.now)[m]
    IN  /\ (elephant.ok <=> share.ok) /\ (elephant.ok <=> hhi.ok)
        /\ share.ok => /\ (elephant.value = Figure(1)) <=> 2 * share.value[1] >= share.value[2]
                       /\ hhi.value[1] * share.value[2] * share.value[2]
                            >= share.value[1] * share.value[1] * hhi.value[2]
                       /\ 2 * UnknownAffiliationRate(world.now)[m].value[1] < UnknownAffiliationRate(world.now)[m].value[2]

(* What a night shows of a completed month every later night shows too:    *)
(* commits come to months that are not over. A cut night, which stores     *)
(* commits again, changes no headcount and no figure of an organisation.   *)
Distinct == {"active_contributors_monthly", "new_contributors_monthly", "unique_reviewers_monthly",
             "elephant_factor", "organizational_hhi", "single_org_share", "unknown_affiliation_rate"}

HistoryStands ==
  (report # << >> /\ faults \cap {"old", "links"} = {}) =>
    \A metric \in IF "cut" \in faults THEN Distinct ELSE DOMAIN report :
      \A m \in DOMAIN report[metric] :
        m \in DOMAIN report'[metric] /\ report'[metric][m] = report[metric][m]

=============================================================================
