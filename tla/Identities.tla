----------------------------- MODULE Identities -----------------------------
(***************************************************************************)
(* Who is who. Every night makes the identities anew from all identifiers  *)
(* on disk, the merges reviewed by hand and the accounts GitHub knows      *)
(* behind commits; gives them organisations; and ranks people by activity. *)
(* An identity is a number, that of the normalized identifier it is made   *)
(* from: identifiers that are alike after normalization share it.          *)
(***************************************************************************)
EXTENDS Figures

CONSTANTS
  Raws,          \* identifiers as they stand in the tables
  Logins,        \* GitHub accounts, further identifiers
  TypeOf,        \* of identifiers: "git_email", "git_name", "jira_username"
  IdentityOf,    \* of identifiers: the identity of the normalized value
  NameOf,        \* of identifiers: the name they come with, 0 for none
  Bots,          \* identifiers that a bot pattern matches
  Authors,       \* of each activity: the identifiers its rows may bear
  Overrides,     \* [raw, into]: merges a reviewer may decide on
  Associations,  \* [email, login]: what GitHub may say of a commit
  Curated,       \* [key, org, from, to]: affiliations.yaml, by identity of an address or by login
  OrgDomains,    \* [domain, org, from, to]: org_domains.yaml
  DomainOf,      \* of identifiers: the domain of an address, 0 for none
  AliasOf,       \* of the text of a company: the organisation, Unknown for none
  Unknown,       \* UNKNOWN_ORG
  Lookback,      \* github_company_lookback_months
  TopN,          \* TOP_N
  MaxMonth, MaxEvents,  \* months, rows of activity (bounds)
  Environments   \* each a set of what goes on

Months     == 0..MaxMonth
Never      == MaxMonth + 9
Identities == {IdentityOf[r] : r \in Raws}
Activities == DOMAIN Authors
Events     == {e \in Activities \X Raws \X Months : e[2] \in Authors[e[1]]}
Companies  == DOMAIN AliasOf

VARIABLES
  faults,  \* what goes on in this behaviour; never changes
  world,   \* now: the month
  disk,    \* events[activity, raw, month]: rows; overrides, associations, profiles: the tables and files
  report   \* what the last night made of them

vars == <<faults, world, disk, report>>

Init ==
  /\ faults \in Environments
  /\ world = [now |-> 0]
  /\ disk = [events |-> [e \in Events |-> 0], overrides |-> {}, associations |-> {}, profiles |-> {}]
  /\ report = << >>

(* A commit, a review, an issue resolved. *)
Act(e) ==
  /\ e[1] \in faults /\ e[3] = world.now
  /\ SumFunction(disk.events) < MaxEvents
  /\ disk' = [disk EXCEPT !.events[e] = @ + 1]
  /\ UNCHANGED <<faults, world, report>>

(* A resolved issue is given to somebody else: its row tells the last. *)
Reassign(e, raw) ==
  /\ "reassign" \in faults /\ e[1] = "jira_issues_resolved" /\ disk.events[e] > 0
  /\ raw \in Authors[e[1]] \ {e[2]}
  /\ disk' = [disk EXCEPT !.events[e] = @ - 1, !.events[<<e[1], raw, e[3]>>] = @ + 1]
  /\ UNCHANGED <<faults, world, report>>

Override(o) ==
  /\ "hand" \in faults
  /\ disk' = [disk EXCEPT !.overrides = @ \cup {o}]
  /\ UNCHANGED <<faults, world, report>>

Associate(a) ==
  /\ "github" \in faults
  /\ disk' = [disk EXCEPT !.associations = @ \cup {a}]
  /\ UNCHANGED <<faults, world, report>>

Profile(login, company) ==
  /\ "github" \in faults
  /\ disk' = [disk EXCEPT !.profiles = @ \cup {[login |-> login, company |-> company, at |-> world.now]}]
  /\ UNCHANGED <<faults, world, report>>

-----------------------------------------------------------------------------
(* The rows there are. *)
Rows == [e \in {e \in Events : disk.events[e] > 0} |-> disk.events[e]]

ExtractRawIdentifiers == {e[2] : e \in DOMAIN Rows}

Naive(raws) == {[raw |-> r, id |-> IdentityOf[r], manual |-> FALSE] : r \in raws}

(* A merge points the identifier at the other's own identity, whether or   *)
(* not that one is in any table, and whatever it is merged into itself.    *)
ByHand == {[raw |-> o.raw, id |-> IdentityOf[o.into], manual |-> TRUE] : o \in disk.overrides}

(* A trailer's name is the display name itself, of the others the smallest *)
(* of those they came with.                                                *)
CanonicalDisplayName(id, raws) ==
  LET names == {NameOf[r] : r \in {r \in raws : IdentityOf[r] = id}} \ {0}
  IN  IF names = {} THEN 0 ELSE Min(names)

(* Two identities that share a name, for a human to look at.               *)
Candidates(raws) ==
  {pair \in {{IdentityOf[r], IdentityOf[s]} : r \in raws, s \in raws} :
     /\ Cardinality(pair) = 2
     /\ \E r \in raws, s \in raws : pair = {IdentityOf[r], IdentityOf[s]} /\ NameOf[r] = NameOf[s] /\ NameOf[r] # 0}

ResolveIdentities ==
  LET raws == ExtractRawIdentifiers
  IN  [person_identity |-> [id \in {IdentityOf[r] : r \in raws} |-> CanonicalDisplayName(id, raws)],
       identity_link |-> Naive(raws) \cup ByHand,
       identity_candidates |-> Candidates(raws)]

(* An account goes to the identity of each address GitHub knows it by: the *)
(* address's own, whatever it is merged into.                              *)
LinkGithubCommitAuthors(links) ==
  links \cup {[raw |-> a.login, id |-> IdentityOf[a.email], manual |-> FALSE] : a \in disk.associations}

(* The links made by hand go before the others, then the smallest identity. *)
ResolvedIdentity(links, raw) ==
  LET mine == {l \in links : l.raw = raw}
      hand == {l \in mine : l.manual}
      best == IF hand = {} THEN mine ELSE hand
  IN  IF best = {} THEN {} ELSE {Min({l.id : l \in best})}

-----------------------------------------------------------------------------
Period(id, org, rank, from, to) == [id |-> id, org |-> org, rank |-> rank, from |-> from, to |-> to]

KeyOf(raw) == IF raw \in Logins THEN raw ELSE IF TypeOf[raw] = "git_email" THEN IdentityOf[raw] ELSE 0

FromCurated(links) ==
  UNION {{Period(l.id, c.org, 0, c.from, c.to) : c \in {c \in Curated : c.key = KeyOf(l.raw)}} : l \in links}

FromDomains(links) ==
  UNION {{Period(l.id, d.org, 1, d.from, d.to) : d \in {d \in OrgDomains : l.raw \in Raws /\ d.domain = DomainOf[l.raw]}}
           : l \in links}

(* The company of the newest profile of each account.                      *)
GithubCompanyMap ==
  {p \in disk.profiles : \A q \in disk.profiles : q.login = p.login => q.at <= p.at}

FromCompanies(links) ==
  UNION {{Period(l.id, AliasOf[p.company], 2, AddMonths(p.at, -Lookback), Never) :
            p \in {p \in GithubCompanyMap : p.login = l.raw /\ AliasOf[p.company] # Unknown}} : l \in links}

BuildAffiliationPeriods(links) == FromCurated(links) \cup FromDomains(links) \cup FromCompanies(links)

OrganizationAsOf(periods, id, day) ==
  LET held == {p \in periods : p.id = id /\ p.from <= day /\ day < p.to}
      best == {p \in held : \A q \in held : p.rank <= q.rank}
  IN  IF held = {} THEN Unknown ELSE Min({p.org : p \in best})

-----------------------------------------------------------------------------
LeaderboardWindow(asOf) == TrailingWindow(MonthEnd(AddMonths(asOf, -1)))

BotIdentifiers == {raw \in ExtractRawIdentifiers \cap Bots : TypeOf[raw] \in {"git_email", "jira_username"}}

(* Of the identities without a name: the smallest identifier linked.       *)
DisplayName(people, links, id) ==
  IF id \in DOMAIN people /\ people[id] # 0 THEN people[id] ELSE Min({l.raw : l \in {l \in links : l.id = id}})

(* Rows joined with the identities their identifiers resolve to.           *)
CreditsOf(activity, window, links) ==
  LET rows == {e \in DOMAIN Rows : e[1] = activity /\ e[3] \in window /\ e[2] \notin BotIdentifiers}
      of(id) == {e \in rows : id \in ResolvedIdentity(links, e[2])}
  IN  [id \in UNION {ResolvedIdentity(links, e[2]) : e \in rows} |-> SumFunctionOnSet(Rows, of(id))]

RankCredits(credits, window, tables) ==
  LET above(id) == {x \in DOMAIN credits : credits[x] > credits[id] \/ (credits[x] = credits[id] /\ x < id)}
      at(rank) == CHOOSE id \in DOMAIN credits : Cardinality(above(id)) = rank - 1
      entry(id) == [identity_id |-> id, count |-> credits[id],
                    display_name |-> DisplayName(tables.person_identity, tables.identity_link, id),
                    organization |-> OrganizationAsOf(tables.affiliation_period, id, Max(window))]
  IN  [entries |-> [rank \in 1..Min({TopN, Cardinality(DOMAIN credits)}) |-> entry(at(rank))],
       population_size |-> Cardinality(DOMAIN credits), total_count |-> SumFunction(credits)]

Tables ==
  LET resolution == ResolveIdentities
      links == LinkGithubCommitAuthors(resolution.identity_link)
  IN  [person_identity |-> resolution.person_identity, identity_link |-> links,
       identity_candidates |-> resolution.identity_candidates,
       affiliation_period |-> BuildAffiliationPeriods(links)]

BuildLeaderboards(asOf) ==
  LET tables == Tables   window == LeaderboardWindow(asOf)
  IN  [tables |-> tables,
       lists |-> [activity \in Activities |->
                    RankCredits(CreditsOf(activity, window, tables.identity_link), window, tables)]]

NextMonth ==
  /\ world.now < MaxMonth
  /\ world' = [now |-> world.now + 1]
  /\ UNCHANGED <<faults, disk>>
  /\ report' = BuildLeaderboards(world.now + 1)

Next ==
  \/ NextMonth
  \/ \E e \in Events : Act(e) \/ \E raw \in Raws : Reassign(e, raw)
  \/ \E o \in Overrides : Override(o)
  \/ \E a \in Associations : Associate(a)
  \/ \E login \in Logins, company \in Companies : Profile(login, company)

-----------------------------------------------------------------------------
TypeOK ==
  /\ faults \in Environments /\ world.now \in Months
  /\ disk.events \in [Events -> 0..MaxEvents]
  /\ disk.overrides \subseteq Overrides /\ disk.associations \subseteq Associations
  /\ disk.profiles \subseteq [login : Logins, company : Companies, at : Months]

(* Two identifiers are one person only if they are alike, or a reviewer    *)
(* has merged one of them: never by the name they share.                   *)
MergedByHandOnly ==
  LET links == Tables.identity_link
  IN  \A r, s \in ExtractRawIdentifiers :
        ResolvedIdentity(links, r) = ResolvedIdentity(links, s) =>
          IdentityOf[r] = IdentityOf[s] \/ \E o \in disk.overrides : o.raw \in {r, s}

(* What is told of a person by one source, taken from its own file for     *)
(* each identifier that is the person's by normalization, by hand or by    *)
(* GitHub's word.                                                          *)
Claims(id, rank, day) ==
  LET raws == {r \in ExtractRawIdentifiers : IdentityOf[r] = id}
                \cup {o.raw : o \in {o \in disk.overrides : IdentityOf[o.into] = id}}
      logins == {a.login : a \in {a \in disk.associations : IdentityOf[a.email] = id}}
      last(login) == {p \in disk.profiles : p.login = login /\ \A q \in disk.profiles : q.login = login => q.at <= p.at}
  IN  CASE rank = 0 -> {c.org : c \in {c \in Curated : /\ c.key \in logins \cup {KeyOf(r) : r \in raws}
                                                       /\ c.from <= day /\ day < c.to}}
        [] rank = 1 -> {d.org : d \in {d \in OrgDomains : /\ d.domain \in {DomainOf[r] : r \in raws}
                                                          /\ d.from <= day /\ day < d.to}}
        [] rank = 2 -> {AliasOf[p.company] : p \in {p \in UNION {last(l) : l \in logins} :
                                                      AddMonths(p.at, -Lookback) <= day}} \ {Unknown}

(* The organisation beside a name is told of that person by the best       *)
(* source that tells anything for the window's last day.                   *)
OrganisationIsTold ==
  LET lists == BuildLeaderboards(world.now).lists
      told(id, rank) == Claims(id, rank, Max(LeaderboardWindow(world.now)))
  IN  \A activity \in Activities :
        \A e \in Range(lists[activity].entries) :
          IF \A rank \in 0..2 : told(e.identity_id, rank) = {} THEN e.organization = Unknown
          ELSE e.organization \in told(e.identity_id, Min({rank \in 0..2 : told(e.identity_id, rank) # {}}))

(* Every row of a person is counted once, for one person, however many     *)
(* links its identifier has; who is shown has no fewer than who is not.    *)
ListsAddUp ==
  LET lists == BuildLeaderboards(world.now).lists
      rows(activity) == {e \in DOMAIN Rows : /\ e[1] = activity /\ e[3] \in LeaderboardWindow(world.now)
                                             /\ e[2] \notin BotIdentifiers}
  IN  \A activity \in Activities :
        LET list == lists[activity]   entries == list.entries   last == Len(entries)
            shown == SumFunction([k \in DOMAIN entries |-> entries[k].count])
        IN  /\ list.total_count = SumFunctionOnSet(disk.events, rows(activity))
            /\ Cardinality({entries[k].identity_id : k \in DOMAIN entries}) = last
            /\ entries # << >> =>
                 list.total_count - shown <= (list.population_size - last) * entries[last].count

(* An identifier in the tables keeps its identity from night to night,     *)
(* whatever else is collected, unless a reviewer merges that very          *)
(* identifier.                                                             *)
IdentityStands ==
  report # << >> =>
    LET before == report.tables.identity_link   after == report'.tables.identity_link
    IN  \A raw \in {l.raw : l \in before} \cap {l.raw : l \in after} \cap Raws :
          \/ ResolvedIdentity(after, raw) = ResolvedIdentity(before, raw)
          \/ \E l \in after \ before : l.manual /\ l.raw = raw

=============================================================================
