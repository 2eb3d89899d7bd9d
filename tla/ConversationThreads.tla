------------------------- MODULE ConversationThreads -------------------------
(***************************************************************************)
(* What the private run makes of threads whose messages were rated: a tier *)
(* of intensity for each message, and of each thread whether it escalated, *)
(* calmed down, was resolved or abandoned, and whom others piled on; the   *)
(* rates over threads, the answers to newcomers, and the rows of the page  *)
(* that lists the threads. A thread grows between runs, and a run may not  *)
(* have all of its ratings.                                                *)
(*                                                                         *)
(* A rating gives labels a probability, 0..High; one of a label that is    *)
(* left out is 0. Time is the number of messages posted.                   *)
(***************************************************************************)
EXTENDS Integers, FiniteSets, FiniteSetsExt, Sequences, SequencesExt, Functions

CONSTANTS
  High,            \* the highest probability
  Cutoffs,         \* THREAD_DERIVE_CUTOFFS
  Headline,        \* THREAD_DERIVE_HEADLINE_CUTOFF
  Window,          \* DEFAULT_RESOLUTION_WINDOW_K
  Crowd,           \* authors that make a pile-on
  NewcomerN,       \* newcomer_n
  MinQualifying, MinParticipants, MinMessages, MinNewcomers,  \* floors
  MaxPerThread,    \* MAX_MESSAGES_PER_THREAD
  Bots,            \* automated senders
  WeightOf,        \* thread -> its stratum's weight
  MaxPosts, MaxRuns,  \* (bounds)
  Environments     \* each the threads, authors, venue, posts and ratings of a behaviour

Threads == DOMAIN WeightOf
None    == 0

(* The labels present at a cutoff put a message in a tier of intensity.    *)
Tier == [resolution_marker |-> -2, acknowledgment |-> -1, compromise_offer |-> -1,
         technical_disagreement |-> 1, dismissiveness |-> 2, hostility |-> 3, personal_attack |-> 4]

Labels == DOMAIN Tier

IntensityTier(labels) == IF labels = {} THEN 0 ELSE Max({Tier[l] : l \in labels})

LabelsPresentAtCutoff(rating, cutoff) == {l \in DOMAIN rating : rating[l] >= cutoff}

(* A message as it is archived, and as it is derived from at a cutoff.     *)
Message(env) == [at : 1..MaxPosts, author : env.authors, parent : 0..MaxPosts, rating : env.ratings]
ThreadMessage(env) == [id : 1..MaxPosts, at : 1..MaxPosts, author : env.authors, parent : 0..MaxPosts,
                       labels : SUBSET Labels, tier : -2..4]

VARIABLES
  faults,  \* the environment: threads, authors, mail, ratings, gaps, posts; never changes
  world,   \* archive: thread -> messages by time; posted; runs
  disk,    \* rated: what the run just over had a rating of, as <<thread, place>>
  report   \* the figures of the last run, << >> before the first

vars == <<faults, world, disk, report>>

Init ==
  /\ faults \in Environments
  /\ world = [archive |-> [t \in Threads |-> << >>], posted |-> 0, runs |-> 0]
  /\ disk = {}
  /\ report = << >>

-----------------------------------------------------------------------------
(* A mail answers any earlier one of its thread; a comment in JIRA counts  *)
(* as an answer to the one before it. Authors are met in their order.      *)
Post(t, author, parent, rating) ==
  LET thread == world.archive[t]
      met == {m.author : m \in UNION {Range(world.archive[u]) : u \in Threads}}
  IN  /\ world.posted < faults.posts
      /\ parent \in IF faults.mail THEN 0..Len(thread) ELSE {Len(thread)}
      /\ \A a \in faults.authors : a < author => a \in met
      /\ world' = [world EXCEPT !.posted = @ + 1,
                     !.archive[t] = Append(@, [at |-> world.posted + 1, author |-> author, parent |-> parent,
                                               rating |-> rating])]
      /\ UNCHANGED <<faults, disk, report>>

-----------------------------------------------------------------------------
(* The first messages of a thread; of these, what no automaton sent.       *)
Pending(t) ==
  {k \in DOMAIN world.archive[t] : k <= MaxPerThread /\ world.archive[t][k].author \notin Bots}

(* A comment's parent is the comment before it that is pending itself.     *)
ParentOf(t, k) ==
  LET earlier == {j \in Pending(t) : j < k}
  IN  IF faults.mail THEN world.archive[t][k].parent
      ELSE IF earlier = {} THEN None ELSE Max(earlier)

ThreadMessages(rated, t, cutoff) ==
  LET present(k) == LabelsPresentAtCutoff(world.archive[t][k].rating, cutoff)
      message(k) == [id |-> k, at |-> world.archive[t][k].at, author |-> world.archive[t][k].author,
                     parent |-> ParentOf(t, k), labels |-> present(k), tier |-> IntensityTier(present(k))]
      places == SetToSortSeq({k \in Pending(t) : <<t, k>> \in rated}, <)
  IN  [j \in DOMAIN places |-> message(places[j])]

(* Whom a message answers, if that message is there too.                   *)
DirectedAt(m, i) ==
  LET parents == {j \in DOMAIN m : m[j].id = m[i].parent}
  IN  IF parents = {} THEN None ELSE m[CHOOSE j \in parents : TRUE].author

PeakTier(m) == Max({m[i].tier : i \in DOMAIN m})

(* Mutant of DeriveEscalation: one person is enough.                       *)
DeriveEscalationAlone(m) ==
  LET climb(state, x) ==
        IF x.tier > state.height THEN [height |-> x.tier, climbers |-> state.climbers \cup {x.author}] ELSE state
      end == FoldLeft(climb, [height |-> m[1].tier, climbers |-> {}], SubSeq(m, 2, Len(m)))
  IN  Cardinality(end.climbers) >= 1 /\ end.height >= 3

(* Two people climb, each higher than all before, and someone gets to 3.   *)
DeriveEscalation(m) ==
  LET climb(state, x) ==
        IF x.tier > state.height THEN [height |-> x.tier, climbers |-> state.climbers \cup {x.author}] ELSE state
      end == FoldLeft(climb, [height |-> m[1].tier, climbers |-> {}], SubSeq(m, 2, Len(m)))
  IN  Cardinality(end.climbers) >= 2 /\ end.height >= 3

DeriveDeescalation(m, escalation) ==
  LET high == {i \in DOMAIN m : m[i].tier >= 3}
  IN  escalation /\ \E i \in DOMAIN m : i > Max(high) /\ m[i].tier <= 1

DerivePileOnTargets(m) ==
  LET at(target) == {m[i].author : i \in {i \in DOMAIN m : m[i].tier >= 2 /\ DirectedAt(m, i) = target}}
  IN  {target \in {DirectedAt(m, i) : i \in DOMAIN m} \ {None} : Cardinality(at(target)) >= Crowd}

(* Near the end, a marker, or else an offer that another acknowledges.     *)
FindResolutionIndex(m) ==
  LET near == {i \in DOMAIN m : i > Len(m) - Window}
      markers == {i \in near : "resolution_marker" \in m[i].labels}
      thanks(i) == {j \in DOMAIN m : j > i /\ "acknowledgment" \in m[j].labels /\ m[j].author # m[i].author}
      offers == {i \in near : "compromise_offer" \in m[i].labels /\ thanks(i) # {}}
  IN  IF markers # {} THEN Min(markers) ELSE IF offers # {} THEN Min(thanks(Min(offers))) ELSE None

DeriveOutcome(m) ==
  LET resolved == FindResolutionIndex(m)
      friction == {i \in DOMAIN m : m[i].tier >= 2}
      target == DirectedAt(m, Max(friction))
      outcome(name, whom) == [outcome |-> name, target |-> whom]
  IN  IF resolved # None /\ \A i \in DOMAIN m : i > resolved => m[i].tier < 3 THEN outcome("resolved", None)
      ELSE IF friction # {} /\ target # None /\ \A i \in DOMAIN m : i > Max(friction) => m[i].author # target
      THEN outcome("abandoned", target)
      ELSE outcome("indeterminate", None)

DeriveThread(m) ==
  LET escalation == DeriveEscalation(m)
  IN  [n_messages     |-> Len(m),
       participants   |-> {x.author : x \in Range(m)},
       disagreement   |-> \E x \in Range(m) : "technical_disagreement" \in x.labels,
       heated         |-> \E x \in Range(m) : x.tier >= 1,
       friction       |-> \E x \in Range(m) : x.tier >= 2,
       escalation     |-> escalation,
       deescalation   |-> DeriveDeescalation(m, escalation),
       outcome        |-> DeriveOutcome(m).outcome,
       target         |-> DeriveOutcome(m).target,
       pile_on        |-> DerivePileOnTargets(m),
       peak           |-> PeakTier(m)]

(* A thread without a rated message is not there.                          *)
BuildThreadDerivations(rated, cutoff) ==
  [t \in {t \in Threads : \E k \in Pending(t) : <<t, k>> \in rated} |->
     DeriveThread(ThreadMessages(rated, t, cutoff))]

BuildThreadLabelCounts(rated, t) ==
  LET m == ThreadMessages(rated, t, Headline)
  IN  [l \in UNION {x.labels : x \in Range(m)} |-> Cardinality({i \in DOMAIN m : l \in m[i].labels})]

-----------------------------------------------------------------------------
Weight(S) == FoldSet(LAMBDA t, w : w + WeightOf[t], 0, S)

WeightedPredicateRatio(numerator, denominator) == <<Weight(numerator \cap denominator), Weight(denominator)>>

RateEntry(derived, numerator, denominator) ==
  LET people == UNION {derived[t].participants : t \in denominator}
      enough == Cardinality(denominator) >= MinQualifying /\ Cardinality(people) >= MinParticipants
  IN  [qualifying |-> Cardinality(denominator), people |-> Cardinality(people), insufficient |-> ~enough,
       rate |-> IF enough THEN WeightedPredicateRatio(numerator, denominator) ELSE << >>]

PileOnEntry(derived) ==
  LET all == DOMAIN derived
      targets == UNION {derived[t].pile_on : t \in all}
      enough == Cardinality(all) >= MinQualifying /\ Cardinality(targets) >= MinParticipants
      weighted == FoldSet(LAMBDA t, w : w + WeightOf[t] * Cardinality(derived[t].pile_on), 0, all)
  IN  [qualifying |-> Cardinality(all), people |-> Cardinality(targets), insufficient |-> ~enough,
       rate |-> IF enough THEN <<weighted, Weight(all)>> ELSE << >>]

AggregateThreadMetrics(derived) ==
  LET all == DOMAIN derived
      with(S) == {t \in all : S[t]}
      rate(n, d) == RateEntry(derived, with(n), with(d))
  IN  [threads      |-> Cardinality(all),
       escalation   |-> rate([t \in all |-> derived[t].escalation], [t \in all |-> derived[t].disagreement]),
       resolution   |-> rate([t \in all |-> derived[t].outcome = "resolved"], [t \in all |-> derived[t].heated]),
       abandonment  |-> rate([t \in all |-> derived[t].outcome = "abandoned"],
                             [t \in all |-> derived[t].friction]),
       pile_on      |-> PileOnEntry(derived)]

(* What an author had posted anywhere in the venue before.                 *)
PriorMessageCount(author, before) ==
  SumFunction([t \in Threads |-> Cardinality({k \in DOMAIN world.archive[t] :
                world.archive[t][k].author = author /\ world.archive[t][k].at < before})])

IsNewcomer(author, at) == PriorMessageCount(author, at) < NewcomerN

(* The answered message need not have a rating; the answer must.           *)
BuildNewcomerMessages(rated) ==
  LET answer(x) == world.archive[x[1]][x[2]]
      target(x) == world.archive[x[1]][ParentOf(x[1], x[2])].author
      row(x) == [answer |-> x, target |-> target(x),
                 tier |-> IntensityTier(LabelsPresentAtCutoff(answer(x).rating, Headline))]
  IN  {row(x) : x \in {x \in rated : /\ ParentOf(x[1], x[2]) \in Pending(x[1])
                                     /\ IsNewcomer(target(x), answer(x).at)}}

AggregateNewcomerRows(rows) ==
  LET people == {r.target : r \in rows}
      enough == Cardinality(rows) >= MinMessages /\ Cardinality(people) >= MinNewcomers
      share(S) == IF enough THEN <<Cardinality(S), Cardinality(rows)>> ELSE << >>
  IN  [messages |-> Cardinality(rows), newcomers |-> Cardinality(people), insufficient |-> ~enough,
       constructive |-> share({r \in rows : r.tier <= -1}), hostile |-> share({r \in rows : r.tier >= 2})]

-----------------------------------------------------------------------------
(* The page of threads: one bar's segment for each, and the share of the   *)
(* threads that have a label.                                              *)
ChartOutcomeCategory(d) ==
  CASE d.escalation /\ d.deescalation            -> "escalated, then de-escalated"
    [] d.escalation /\ ~d.deescalation           -> "escalated"
    [] ~d.escalation /\ d.outcome = "resolved"   -> "resolved"
    [] ~d.escalation /\ d.outcome = "abandoned"  -> "abandoned after friction"
    [] OTHER                                     -> "none"

YearOutcomeRows(derived) ==
  LET category(t) == ChartOutcomeCategory(derived[t])
  IN  [c \in {category(t) : t \in DOMAIN derived} |-> Cardinality({t \in DOMAIN derived : category(t) = c})]

LabelYearShareRows(counts) ==
  [l \in Labels |-> [count |-> Cardinality({t \in DOMAIN counts : l \in DOMAIN counts[t]}),
                     total |-> Cardinality(DOMAIN counts)]]

Report(rated) ==
  LET derived == [c \in Cutoffs |-> BuildThreadDerivations(rated, c)]
      counts == [t \in DOMAIN derived[Headline] |-> BuildThreadLabelCounts(rated, t)]
      newcomers == BuildNewcomerMessages(rated)
  IN  [derived |-> derived, counts |-> counts, newcomers |-> newcomers,
       metrics |-> [c \in Cutoffs |-> AggregateThreadMetrics(derived[c])],
       answers |-> AggregateNewcomerRows(newcomers),
       outcomes |-> YearOutcomeRows(derived[Headline]),
       shares |-> LabelYearShareRows(counts)]

AllPending == {x \in Threads \X (1..MaxPosts) : x[2] \in Pending(x[1])}

(* A run of which some ratings are missing, or none.                       *)
Run(missing) ==
  /\ world.runs < MaxRuns
  /\ ~faults.gaps => missing = {}
  /\ world' = [world EXCEPT !.runs = @ + 1]
  /\ disk' = AllPending \ missing
  /\ report' = Report(AllPending \ missing)
  /\ UNCHANGED faults

Next ==
  \/ \E t \in faults.threads, author \in faults.authors, parent \in 0..MaxPosts, rating \in faults.ratings :
       Post(t, author, parent, rating)
  \/ \E missing \in {{}} \cup {{x} : x \in AllPending} : Run(missing)

-----------------------------------------------------------------------------
TypeOK ==
  /\ faults \in Environments /\ world.posted \in 0..MaxPosts /\ world.runs \in 0..MaxRuns
  /\ \A t \in Threads : Range(world.archive[t]) \subseteq Message(faults)
  /\ \A t \in Threads : Range(ThreadMessages(disk, t, Headline)) \subseteq ThreadMessage(faults)

Told(c)     == report.derived[c]
Derived(t, c) == ThreadMessages(disk, t, c)

(* A thread escalated if and only if someone was hostile in it and two     *)
(* different people, neither of them with the first message, each went     *)
(* higher than all before them; it was abandoned if and only if it was not *)
(* resolved and whoever the last friction was aimed at is not heard of     *)
(* again.                                                                  *)
EscalationTakesTwo ==
  report # << >> => \A c \in Cutoffs : \A t \in DOMAIN Told(c) :
    LET m == Derived(t, c)
        peak(i) == i > 1 /\ \A j \in 1..(i - 1) : m[j].tier < m[i].tier
        aimed(i, a) == \E j \in 1..(i - 1) : m[j].id = m[i].parent /\ m[j].author = a
        last(i) == m[i].tier >= 2 /\ \A j \in (i + 1)..Len(m) : m[j].tier < 2
    IN  /\ Told(c)[t].escalation <=>
             /\ \E i, j \in DOMAIN m : peak(i) /\ peak(j) /\ m[i].author # m[j].author
             /\ \E i \in DOMAIN m : m[i].tier >= 3
        /\ (Told(c)[t].outcome = "abandoned") <=>
             /\ Told(c)[t].outcome # "resolved"
             /\ \E i \in DOMAIN m, a \in faults.authors :
                  last(i) /\ aimed(i, a) /\ \A j \in (i + 1)..Len(m) : m[j].author # a

(* What is said of one thread fits together, at one cutoff and across      *)
(* them: only a heated thread escalates and only an escalated one calms    *)
(* down, one that is resolved by a calm message after it escalated has     *)
(* calmed down; a lower cutoff shows no less friction and no fewer people  *)
(* piled on; and the pages count each thread once.                         *)
DerivationsAgree ==
  report # << >> =>
    /\ \A c \in Cutoffs : \A t \in DOMAIN Told(c) :
         LET d == Told(c)[t]
             calm == \A m \in Range(Derived(t, c)) :
                       m.labels \cap {"resolution_marker", "acknowledgment"} # {} => m.tier <= 1
         IN  /\ d.deescalation => d.escalation
             /\ d.escalation => d.friction /\ d.peak >= 3 /\ Cardinality(d.participants) >= 2
             /\ calm /\ d.escalation /\ d.outcome = "resolved" => d.deescalation
             /\ d.outcome = "abandoned" => d.friction /\ d.target \in d.participants
             /\ d.pile_on # {} => Cardinality(d.participants) >= Crowd
             /\ \A e \in Cutoffs : e < c => /\ d.friction => Told(e)[t].friction
                                            /\ d.pile_on \subseteq Told(e)[t].pile_on
    /\ SumFunction(report.outcomes) = Cardinality(DOMAIN Told(Headline))
    /\ \A t \in DOMAIN Told(Headline) :
         /\ ("technical_disagreement" \in DOMAIN report.counts[t]) <=> Told(Headline)[t].disagreement
         /\ \A l \in DOMAIN report.counts[t] : report.counts[t][l] <= Told(Headline)[t].n_messages
    /\ ~report.answers.insufficient =>
         report.answers.constructive[1] + report.answers.hostile[1] <= report.answers.messages

(* As threads grow, what was told of them while all of it was rated stays: *)
(* escalations, friction, pile-ons, and who was answered as a newcomer. An *)
(* outcome may change, and so may a calm.                                  *)
ThreadsOnlyGrow ==
  (report # << >> /\ disk \subseteq disk') =>
    /\ \A c \in Cutoffs : \A t \in DOMAIN Told(c) :
         (\A x \in disk, y \in disk' \ disk : x[1] = t /\ y[1] = t => x[2] < y[2]) =>
           /\ Told(c)[t].friction => report'.derived[c][t].friction
           /\ Told(c)[t].escalation => report'.derived[c][t].escalation
           /\ Told(c)[t].pile_on \subseteq report'.derived[c][t].pile_on
    /\ report.newcomers \subseteq report'.newcomers

=============================================================================
