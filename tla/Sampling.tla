------------------------------- MODULE Sampling -------------------------------
(***************************************************************************)
(* The pilot corpus raters label: mails of the frame and comments of a     *)
(* budgeted scan of JIRA, of which a prevalence stratum follows the        *)
(* volume of each source and year and an enrichment stratum is taken from  *)
(* what the filters of rare labels flag; and the smaller corpus taken      *)
(* from it. A rank that depends on an item alone orders every choice; here *)
(* items are numbered by it.                                               *)
(*                                                                         *)
(* A raw body is a sequence of passages; what is left of it a sequence of  *)
(* the labels the author's words hint at, 0 where they hint at none.       *)
(***************************************************************************)
EXTENDS Naturals, FiniteSets, FiniteSetsExt, Sequences, SequencesExt

CONSTANTS
  Mails,        \* rows of the frame: month, sender, parent: a mail or 0, raw
  YearOf,       \* month -> year
  CreatedIn,    \* issue -> the year it was created in
  Years,        \* the frame's
  Bots,         \* automated senders
  MaxComments,  \* comments of an issue (bound)
  IssueTarget, MinPerYear, BlockSize, PageSize, MaxRetries,
  Prevalence, Enrichment, Subsample,   \* targets
  MinWords, RareLabels, GapLabels,
  MaxRuns,      \* runs of the sampler (bound)
  Environments  \* each a behaviour's comments, those still to come, max_calls, and what may go wrong

None == 0
Issues   == DOMAIN CreatedIn
Comments == Issues \X (1..MaxComments)
Items    == 1..(Len(Mails) + Len(CreatedIn) * MaxComments)

Number(c) == Len(Mails) + (c[1] - 1) * MaxComments + c[2]
CommentOf(x) == CHOOSE c \in Comments : Number(c) = x
IsMail(x) == x <= Len(Mails)

Stages == {"idle", "mail", "count", "search", "comments", "corpus", "manifest", "submanifest"}

VARIABLES
  faults,  \* the environment; never changes
  world,   \* comments: issue -> comments, in order; gone: issues; posts, runs so far
  disk,    \* corpus, manifest; sub, submanifest: of the smaller corpus
  run      \* stage, calls; count, offsets, found: by year; turn: <<round, year>>; exhausted, scanned,
           \* page: comments of the issue so far; mails, seen: candidates

vars == <<faults, world, disk, run>>

NoRun == [stage |-> "idle", calls |-> 0, count |-> [y \in Years |-> 0], offsets |-> [y \in Years |-> << >>],
          found |-> << >>, turn |-> <<1, 1>>, exhausted |-> FALSE, scanned |-> 0, page |-> 0,
          mails |-> {}, seen |-> {}]

Init ==
  /\ faults \in Environments
  /\ world = [comments |-> faults.comments, gone |-> {}, posts |-> faults.posts, runs |-> 0]
  /\ disk = [corpus |-> << >>, manifest |-> << >>, sub |-> << >>, submanifest |-> << >>]
  /\ run = NoRun

-----------------------------------------------------------------------------
(* How the samplers share a target among keys (sources, years, labels,     *)
(* strata): by weight, the largest remainders first, and what a key cannot *)
(* take goes to the others. Weights are in a common unit.                  *)

Total(f) == MapThenSumSet(LAMBDA k : f[k], DOMAIN f)

(* The n keys with the most; of two with as much, the smaller.             *)
Most(f, n) == {k \in DOMAIN f : Cardinality({j \in DOMAIN f : f[j] > f[k] \/ (f[j] = f[k] /\ j < k)}) < n}

RoundedUp(floors, favoured) == [k \in DOMAIN floors |-> floors[k] + (IF k \in favoured THEN 1 ELSE 0)]

Shares(target, weight, total) ==
  LET floors == [k \in DOMAIN weight |-> (target * weight[k]) \div total]
      rest == [k \in DOMAIN weight |-> (target * weight[k]) % total]
  IN  RoundedUp(floors, Most(rest, target - Total(floors)))

LargestRemainderAllocate(target, weight) ==
  IF Total(weight) = 0 THEN [k \in DOMAIN weight |-> 0] ELSE Shares(target, weight, Total(weight))

Placed(s, taken) ==
  [given |-> [k \in DOMAIN s.given |-> s.given[k] + (IF k \in DOMAIN taken THEN taken[k] ELSE 0)],
   left |-> s.left - Total(taken)]

Capped(share, room) == [k \in DOMAIN share |-> Min({share[k], room[k]})]

Offered(left, weight, room) ==
  Capped(LargestRemainderAllocate(left, [k \in {k \in DOMAIN room : room[k] > 0} |-> weight[k]]), room)

(* A round shares what is left among the keys that have room.              *)
Round(s, weight, capacity) ==
  Placed(s, Offered(s.left, weight, [k \in DOMAIN weight |-> capacity[k] - s.given[k]]))

(* Round by round, until all is placed or nothing can be: each round but   *)
(* the last places something.                                              *)
AllocateWithCapacity(target, weight, capacity) ==
  LET round[n \in 0..target] ==
        IF n = 0 THEN [given |-> [k \in DOMAIN weight |-> 0], left |-> target]
        ELSE Round(round[n - 1], weight, capacity)
  IN  round[target].given

-----------------------------------------------------------------------------
(* A comment is posted between two runs; an issue is deleted at any time.  *)
Post(i, comment) ==
  /\ run.stage = "idle" /\ world.posts > 0 /\ Len(world.comments[i]) < MaxComments
  /\ world' = [world EXCEPT !.posts = @ - 1, !.comments[i] = Append(@, comment)]
  /\ UNCHANGED <<faults, disk, run>>

Vanish(i) ==
  /\ "vanish" \in faults.what /\ world.gone = {}
  /\ world' = [world EXCEPT !.gone = {i}]
  /\ UNCHANGED <<faults, disk, run>>

-----------------------------------------------------------------------------
(* Everything from a line of attribution, or a signature, on is cut; other *)
(* quotes are dropped; code, traces and logs leave a placeholder.          *)
Words(raw, kinds) ==
  LET cut == {k \in DOMAIN raw : raw[k].kind \in {"attribution", "signature"}}
      kept == SubSeq(raw, 1, IF cut = {} THEN Len(raw) ELSE Min(cut) - 1)
      told == SelectSeq(kept, LAMBDA p : p.kind \in kinds)
  IN  [k \in DOMAIN told |-> IF told[k].kind = "own" THEN told[k].label ELSE 0]

PreprocessText(raw) == Words(raw, {"own", "code"})

RawOf(x) == IF IsMail(x) THEN Mails[x].raw ELSE world.comments[CommentOf(x)[1]][CommentOf(x)[2]].raw
YearIn(x) == IF IsMail(x) THEN YearOf[Mails[x].month]
             ELSE world.comments[CommentOf(x)[1]][CommentOf(x)[2]].year

Eligible(x) == Len(PreprocessText(RawOf(x))) >= MinWords

(* (A bare refusal of a long proposal is another sign of one label, but    *)
(* is shorter than what is eligible.)                                      *)
EnrichmentHits(x) == Range(PreprocessText(RawOf(x))) \ {0}

(* A mail's parent is looked for in its month and the one before it, an    *)
(* issue's comment has the comment before it.                              *)
ResolveParent(x) ==
  IF IsMail(x)
  THEN LET p == Mails[x].parent IN IF p # None /\ Mails[x].month - Mails[p].month \in {0, 1} THEN p ELSE None
  ELSE IF CommentOf(x)[2] = 1 THEN None ELSE x - 1

-----------------------------------------------------------------------------
(* A request is retried, every attempt counts, and the last that fails     *)
(* ends the run.                                                           *)
Attempts == IF "outage" \in faults.what THEN 1..MaxRetries ELSE {1}

Begin ==
  /\ run.stage = "idle" /\ world.runs < MaxRuns
  /\ world' = [world EXCEPT !.runs = @ + 1]
  /\ run' = [NoRun EXCEPT !.stage = "mail"]
  /\ UNCHANGED <<faults, disk>>

(* The frame's mails, of the months the archive still has, less automata's. *)
ScanDevCandidates(lost) ==
  /\ run.stage = "mail" /\ lost \in {None} \cup (IF "outage" \in faults.what THEN DOMAIN YearOf ELSE {})
  /\ run' = [run EXCEPT !.stage = "count",
               !.mails = {x \in DOMAIN Mails : /\ Mails[x].month # lost /\ Mails[x].sender \notin Bots
                                               /\ YearOf[Mails[x].month] \in Years}]
  /\ UNCHANGED <<faults, world, disk>>

InOrder(S) == [k \in 1..Cardinality(S) |-> CHOOSE x \in S : Cardinality({z \in S : z < x}) = k - 1]

Listed(y) == InOrder({i \in Issues \ world.gone : CreatedIn[i] = y})

(* A year is counted while the budget lasts; the last count settles how    *)
(* many issues of each year are wanted, and from which places of its list  *)
(* blocks of them are taken. Two blocks may overlap.                       *)
IssuesTarget(count) ==
  LET proportional == AllocateWithCapacity(IssueTarget, count, count)
  IN  [y \in Years |-> Min({count[y], Max({proportional[y], MinPerYear})})]

LastPlace(n) == Max({n, BlockSize}) - BlockSize

Places(target, n) ==
  IF target = 0 THEN {{}}
  ELSE IF LastPlace(n) = 0 THEN {{0}}
  ELSE kSubset(Min({Max({1, (target + BlockSize - 1) \div BlockSize}), LastPlace(n) + 1}), 0..LastPlace(n))

OneOfEach(places) == {f \in [Years -> UNION Range(places)] : \A y \in Years : f[y] \in places[y]}

Blocks(count, target) == OneOfEach([y \in Years |-> Places(target[y], count[y])])

NextYear == run.turn[2] + 1

CountYear(n) ==
  LET y == run.turn[2]
      asked == run.calls < faults.budget
      count == [run.count EXCEPT ![y] = IF asked THEN Len(Listed(y)) ELSE 0]
      next == [run EXCEPT !.count = count, !.calls = @ + (IF asked THEN n ELSE 0)]
  IN  /\ run.stage = "count" /\ n \in Attempts
      /\ asked \/ n = 1
      /\ IF NextYear \in Years THEN run' = [next EXCEPT !.turn[2] = NextYear]
         ELSE \E places \in Blocks(count, IssuesTarget(count)) :
                run' = [next EXCEPT !.stage = "search", !.turn = <<1, 1>>,
                          !.offsets = [z \in Years |-> InOrder(places[z])]]
      /\ UNCHANGED <<faults, world, disk>>

Rounds == Max({Len(run.offsets[y]) : y \in Years})

(* The years take turns, so that a budget that runs out leaves out a part  *)
(* of each.                                                                *)
SearchBlock(n) ==
  LET r == run.turn[1]
      y == run.turn[2]
      spent == run.calls >= faults.budget
      asks == ~spent /\ r <= Len(run.offsets[y])
      first == run.offsets[y][r]
      keys == IF asks THEN SubSeq(Listed(y), first + 1, Min({first + BlockSize, Len(Listed(y))})) ELSE << >>
      found == run.found \o SelectSeq(keys, LAMBDA i : i \notin Range(run.found))
  IN  /\ run.stage = "search" /\ r <= Rounds /\ n \in Attempts /\ (asks \/ n = 1)
      /\ run' = IF spent THEN [run EXCEPT !.exhausted = TRUE, !.turn = <<Rounds + 1, 1>>]
                ELSE [run EXCEPT !.found = found, !.calls = @ + (IF asks THEN n ELSE 0),
                                 !.turn = IF NextYear \in Years THEN <<r, NextYear>> ELSE <<r + 1, 1>>]
      /\ UNCHANGED <<faults, world, disk>>

(* The comments of an issue, page by page: those of an issue the budget    *)
(* cuts are dropped, though it was counted as scanned; of one that is gone *)
(* there is what was read. The years are walked one after the other.       *)
Walked == FlattenSeq([y \in Years |-> SelectSeq(run.found, LAMBDA i : CreatedIn[i] = y)])

BeginComments ==
  /\ run.stage = "search" /\ run.turn[1] > Rounds
  /\ run' = [run EXCEPT !.stage = "comments", !.found = Walked, !.turn = <<1, 1>>]
  /\ UNCHANGED <<faults, world, disk>>

Candidates(i, n) ==
  {Number(<<i, k>>) : k \in {k \in 1..n : LET c == world.comments[i][k]
                                         IN  c.year \in Years /\ c.author \notin Bots}}

ReadComments(n) ==
  LET i == run.found[run.turn[1]]
      gone == i \in world.gone
      upto == IF gone THEN run.page ELSE Min({run.page + PageSize, Len(world.comments[i])})
      scanned == run.scanned + (IF run.page = 0 THEN 1 ELSE 0)
      asked == [run EXCEPT !.calls = @ + n, !.scanned = scanned]
  IN  /\ run.stage = "comments" /\ run.turn[1] <= Len(run.found) /\ run.calls < faults.budget /\ n \in Attempts
      /\ run' = IF ~gone /\ upto < Len(world.comments[i]) THEN [asked EXCEPT !.page = upto]
                ELSE [asked EXCEPT !.seen = @ \cup Candidates(i, upto), !.page = 0, !.turn[1] = @ + 1]
      /\ UNCHANGED <<faults, world, disk>>

EndScan ==
  /\ run.stage = "comments"
  /\ \/ run.turn[1] > Len(run.found) /\ run' = [run EXCEPT !.stage = "corpus"]
     \/ /\ run.turn[1] <= Len(run.found) /\ run.calls >= faults.budget
        /\ run' = [run EXCEPT !.stage = "corpus", !.exhausted = TRUE]
  /\ UNCHANGED <<faults, world, disk>>

-----------------------------------------------------------------------------
(* deterministic_sample: the first n by rank.                              *)
DeterministicSample(S, n) == {x \in S : Cardinality({z \in S : z < x}) < n}

DevEligible  == {x \in run.mails : Eligible(x)}
JiraEligible == {x \in run.seen : Eligible(x)}

(* Each year's part of a source: by weight, as far as the year has items.  *)
PickByYear(S, weight, n) ==
  LET of == [y \in Years |-> {x \in S : YearIn(x) = y}]
      share == AllocateWithCapacity(n, weight, [y \in Years |-> Cardinality(of[y])])
  IN  UNION {DeterministicSample(of[y], share[y]) : y \in Years}

(* The sources' weights: the mails there are, and the comments there would *)
(* be if all issues had as many as those scanned (both times the scanned). *)
SourceWeights ==
  LET unit == Max({run.scanned, 1})
      issues == Total(run.count)
  IN  <<unit * Cardinality(DevEligible), IF run.scanned = 0 THEN 0 ELSE issues * Cardinality(JiraEligible)>>

(* A year is weighted by its mails, or by the issues created in it; what a *)
(* source cannot fill does not go to the other.                            *)
SelectPrevalence ==
  LET share == LargestRemainderAllocate(Prevalence, SourceWeights)
      mails == [y \in Years |-> Cardinality({x \in DevEligible : YearIn(x) = y})]
  IN  PickByYear(DevEligible, mails, share[1]) \cup PickByYear(JiraEligible, run.count, share[2])

(* An item goes to the first label it hints at, and each label gives its   *)
(* part.                                                                   *)
EnrichmentOf(pool) ==
  LET hits == [x \in pool |-> EnrichmentHits(x)]
      bucket == [l \in RareLabels |-> {x \in pool : hits[x] # {} /\ Min(hits[x]) = l}]
      size == [l \in RareLabels |-> Cardinality(bucket[l])]
      share == AllocateWithCapacity(Enrichment, size, size)
  IN  UNION {DeterministicSample(bucket[l], share[l]) : l \in RareLabels}


SelectEnrichment(taken) == EnrichmentOf((DevEligible \cup JiraEligible) \ taken)

(* Rows are presented in an order of their own, whatever their stratum.    *)
Presented(rows) ==
  LET place(r) == 2 * r.item + r.stratum
  IN  [k \in 1..Cardinality(rows) |->
         CHOOSE r \in rows : Cardinality({o \in rows : place(o) < place(r)}) = k - 1]

Rows(S, stratum) ==
  {[item |-> x, stratum |-> stratum, parent |-> ResolveParent(x), hits |-> EnrichmentHits(x)] : x \in S}

(* The strata by name: enrichment before prevalence.                       *)
Corpus(prevalence) == Presented(Rows(prevalence, 2) \cup Rows(SelectEnrichment(prevalence), 1))

BuildCorpus == Corpus(SelectPrevalence)

(* A kill may leave of the file its first rows.                            *)
WriteCorpus ==
  /\ run.stage = "corpus"
  /\ LET rows == BuildCorpus
     IN  \/ disk' = [disk EXCEPT !.corpus = rows] /\ run' = [run EXCEPT !.stage = "manifest"]
         \/ /\ "kill" \in faults.what
            /\ disk' = [disk EXCEPT !.corpus = SubSeq(rows, 1, Min({1, Len(rows)}))] /\ run' = NoRun
  /\ UNCHANGED <<faults, world>>

Strata(rows) == [s \in 1..2 |-> {rows[k] : k \in {k \in DOMAIN rows : rows[k].stratum = s}}]

(* The manifest tells the corpus's checksum, its rows and what the scan    *)
(* saw.                                                                    *)
WriteManifest ==
  /\ run.stage = "manifest"
  /\ disk' = [disk EXCEPT !.manifest =
                <<[checksum |-> disk.corpus, total |-> Len(disk.corpus), exhausted |-> run.exhausted,
                   scanned |-> run.scanned, calls |-> run.calls]>>]
  /\ run' = NoRun
  /\ UNCHANGED <<faults, world>>

-----------------------------------------------------------------------------
(* The smaller corpus: both strata in proportion, of the enrichment first  *)
(* the rows that hint at a label the first corpus has too few of.          *)
SelectSubsample(rows) ==
  LET of == Strata(rows)
      size == [s \in 1..2 |-> Cardinality(of[s])]
      share == AllocateWithCapacity(Min({Subsample, Len(rows)}), size, size)
      items(S) == {r.item : r \in S}
      gap == items({r \in of[1] : r.hits \cap GapLabels # {}})
      reserved == DeterministicSample(gap, Min({Cardinality(gap), share[1]}))
      others == DeterministicSample(items(of[1]) \ gap, share[1] - Cardinality(reserved))
  IN  DeterministicSample(items(of[2]), share[2]) \cup reserved \cup others

WriteSubsample ==
  /\ run.stage = "idle" /\ disk.corpus # << >> /\ disk.sub = << >>
  /\ LET taken == SelectSubsample(disk.corpus)
     IN  disk' = [disk EXCEPT !.sub = SelectSeq(disk.corpus, LAMBDA r : r.item \in taken)]
  /\ run' = [run EXCEPT !.stage = "submanifest"]
  /\ UNCHANGED <<faults, world>>

WriteSubmanifest ==
  /\ run.stage = "submanifest"
  /\ disk' = [disk EXCEPT !.submanifest = <<[source |-> disk.corpus, checksum |-> disk.sub, total |-> Len(disk.sub)]>>]
  /\ run' = NoRun
  /\ UNCHANGED <<faults, world>>

-----------------------------------------------------------------------------
(* A request that fails for good ends the run; a kill may come at any time. *)
Raise ==
  /\ "outage" \in faults.what /\ run.stage \in {"mail", "count", "search", "comments"}
  /\ run' = NoRun /\ UNCHANGED <<faults, world, disk>>

Kill ==
  /\ "kill" \in faults.what /\ run.stage # "idle"
  /\ run' = NoRun /\ UNCHANGED <<faults, world, disk>>

Next ==
  \/ \E i \in Issues : Vanish(i) \/ \E comment \in faults.said : Post(i, comment)
  \/ Begin
  \/ \E lost \in {None} \cup DOMAIN YearOf : ScanDevCandidates(lost)
  \/ \E n \in 1..MaxRetries : CountYear(n) \/ SearchBlock(n) \/ ReadComments(n)
  \/ BeginComments \/ EndScan
  \/ WriteCorpus \/ WriteManifest
  \/ WriteSubsample \/ WriteSubmanifest
  \/ Raise \/ Kill

Spec == Init /\ [][Next]_vars

-----------------------------------------------------------------------------
Row == [item : Items, stratum : 1..2, parent : Items \cup {None}, hits : SUBSET RareLabels]

TypeOK ==
  /\ world.gone \subseteq Issues /\ world.runs \in 0..MaxRuns /\ world.posts \in 0..faults.posts
  /\ Range(disk.corpus) \subseteq Row /\ Range(disk.sub) \subseteq Row
  /\ Len(disk.manifest) <= 1 /\ Len(disk.submanifest) <= 1
  /\ run.stage \in Stages /\ run.calls \in Nat /\ run.count \in [Years -> 0..Cardinality(Issues)]
  /\ Range(run.found) \subseteq Issues /\ run.mails \subseteq Items /\ run.seen \subseteq Items

(* A scan goes over its budget by the attempts of one request, no more.    *)
BudgetKept == run.calls <= faults.budget + MaxRetries - 1

(* A scan its budget did not cut has read every comment of every issue it  *)
(* found, and found of each year with issues a block and one more issue    *)
(* for each further block, or all; unless one went away meanwhile.         *)
UncutIsRead ==
  run.stage = "corpus" /\ ~run.exhausted /\ world.gone = {} =>
    /\ \A i \in Range(run.found) : Candidates(i, Len(world.comments[i])) \subseteq run.seen
    /\ \A y \in Years : Cardinality({i \in Range(run.found) : CreatedIn[i] = y})
                        >= Min({run.count[y], BlockSize + Max({Len(run.offsets[y]), 1}) - 1})

(* No item is in a corpus twice, not in one stratum and not in both: what  *)
(* is picked for a rare label counts for no prevalence. The enrichment has *)
(* hints only the author's own words give.                                 *)
OwnHints(x) == Range(Words(RawOf(x), {"own"})) \ {0}

CorpusSound ==
  LET rows == disk.corpus
      of == Strata(rows)
  IN  /\ \A j, k \in DOMAIN rows : rows[j].item = rows[k].item => j = k
      /\ Cardinality(of[2]) <= Prevalence /\ Cardinality(of[1]) <= Enrichment
      /\ \A r \in of[1] : r.hits # {} /\ r.hits \subseteq OwnHints(r.item)

(* At the selection: the shares of a stratum add up to its target, or to   *)
(* all that could be had, and no year or label gives more than it has.     *)
SharesAddUp ==
  run.stage = "corpus" =>
    LET prevalence == SelectPrevalence
        share == LargestRemainderAllocate(Prevalence, SourceWeights)
        picked(S) == Cardinality(prevalence \cap S)
        reach == {x \in JiraEligible : run.count[YearIn(x)] > 0}
        flagged == {x \in (DevEligible \cup JiraEligible) \ prevalence : EnrichmentHits(x) # {}}
    IN  /\ Total(share) = IF Total(SourceWeights) = 0 THEN 0 ELSE Prevalence
        /\ picked(DevEligible) = Min({share[1], Cardinality(DevEligible)})
        /\ picked(JiraEligible) = Min({share[2], Cardinality(reach)})
        /\ Cardinality(SelectEnrichment(prevalence)) = Min({Enrichment, Cardinality(flagged)})

(* Unless a run was killed between the two files, a manifest tells of the  *)
(* corpus next to it, and a smaller corpus's of the one it was taken from. *)
ManifestTells ==
  /\ "kill" \notin faults.what /\ run.stage # "manifest" /\ disk.corpus # << >> =>
       disk.manifest # << >> /\ disk.manifest[1].checksum = disk.corpus
  /\ disk.submanifest # << >> /\ run.stage # "submanifest" =>
       LET m == disk.submanifest[1]
       IN  m.checksum = disk.sub /\ Range(disk.sub) \subseteq Range(m.source)

(* The smaller corpus is as large as asked for, if the first was, and      *)
(* leaves out no row that hints at a wanted label for one that does not.   *)
GapsFirst ==
  disk.submanifest # << >> =>
    LET source == disk.submanifest[1].source
        gap == {r \in Strata(source)[1] : r.hits \cap GapLabels # {}}
        taken == Strata(disk.sub)[1]
    IN  /\ Len(disk.sub) = Min({Subsample, Len(source)})
        /\ taken \subseteq gap \/ gap \subseteq taken

=============================================================================
