--------------------------- MODULE Classification ---------------------------
(***************************************************************************)
(* The batch classifier: a worker for each message, as many calls to the   *)
(* API at once as a semaphore admits, a cache of records on disk keyed by  *)
(* a hash of the text that was sent, and a cost cap, looked at before a    *)
(* call and charged after it. The operator runs it again over the same     *)
(* cache until it completes; pilot, benchmark and private run then join    *)
(* their messages to the cached records.                                   *)
(*                                                                         *)
(* Messages may share a text. A text over the length budget is cut before  *)
(* it is hashed and sent; the API may still refuse it, and the worker then *)
(* tries once more at half the budget. A call costs one unit, the price of *)
(* the dearest; money is spent when the answer is read.                    *)
(***************************************************************************)
EXTENDS Naturals, FiniteSets

CONSTANTS
  NumMessages,   \* messages of a run, in their order
  Texts,         \* preprocessed texts, with the text of the parent
  Text,          \* Text[m]: the text of message m
  OverBudget,    \* texts longer than TEXT_BUDGET_CHARS
  Verdict,       \* Verdict[t]: what the API answers to text t
  Concurrency,   \* calls in flight at once
  Cap,           \* monthly_cap_usd
  MaxPaid,       \* calls paid for a text are counted up to here (bound)
  Environments   \* each a set of what may go wrong

Messages == 1..NumMessages
Forms    == {"raw", "cut", "half"}
Records  == [text : Texts, form : Forms, message : Messages]
Verdicts == {"fits", "fits halved", "too long", "bad"}
Faults   == {"no credits", "error", "kill"}

ASSUME ClassificationAssumption ==
  /\ NumMessages \in Nat
  /\ Text \in [Messages -> Texts]
  /\ OverBudget \subseteq Texts
  /\ Verdict \in [Texts -> Verdicts]
  /\ Concurrency \in Nat \ {0}
  /\ Cap \in Nat
  /\ MaxPaid \in Nat
  /\ Environments \subseteq SUBSET Faults /\ Environments # {}

VARIABLES
  faults,   \* what goes wrong in this behaviour; never changes
  cache,    \* the records on disk, and in memory during a run
  phase,    \* idle, running, aborting (an exception is leaving gather), ended
  next,     \* the message whose worker gets the next slot of the semaphore
  call,     \* the form in which each message's text is out, or NoForm
  answer,   \* `records`: the form each message's record is for, or NoForm
  skipped,  \* messages skipped after a 400
  pause,    \* pause_reason
  spentUsd, \* CostCap.spent_usd
  paid      \* calls paid and read for each text, in all runs

batchVars == <<faults, cache, phase, next, call, answer, skipped, pause, spentUsd, paid>>

NoForm  == "none"
Nothing == [m \in Messages |-> NoForm]

(* The form in which a message's text is hashed and sent at first.         *)
First(m) == IF Text[m] \in OverBudget THEN "cut" ELSE "raw"

(* The input hash stands for a text and the form it is sent in. A record   *)
(* carries the message that brought it.                                    *)
Cached(m, form) == \E r \in cache : r.text = Text[m] /\ r.form = form

InFlight == {m \in Messages : call[m] # NoForm}

BatchInit ==
  /\ faults \in Environments
  /\ cache = {}
  /\ phase = "idle"
  /\ next = 1
  /\ call = Nothing /\ answer = Nothing
  /\ skipped = {}
  /\ pause = "none"
  /\ spentUsd = 0
  /\ paid = [t \in Texts |-> 0]

-----------------------------------------------------------------------------
(* Mutant of BeginBatch: what was spent is carried over from run to run.   *)
BeginBatchCarried ==
  /\ phase \in {"idle", "ended"}
  /\ phase' = "running"
  /\ next' = 1 /\ call' = Nothing /\ answer' = Nothing /\ skipped' = {}
  /\ pause' = "none" /\ spentUsd' = spentUsd
  /\ UNCHANGED <<faults, cache, paid>>

(* The cache is loaded; the cap starts from nothing in every run.          *)
BeginBatch ==
  /\ phase \in {"idle", "ended"}
  /\ phase' = "running"
  /\ next' = 1 /\ call' = Nothing /\ answer' = Nothing /\ skipped' = {}
  /\ pause' = "none" /\ spentUsd' = 0
  /\ UNCHANGED <<faults, cache, paid>>

Running == phase \in {"running", "aborting"}

(* The semaphore serves the workers in order.                              *)
SlotFree == Cardinality(InFlight) < Concurrency

Starts(m) == Running /\ m = next /\ SlotFree /\ next' = m + 1

(* After a pause the remaining workers return at once.                     *)
GiveUp(m) ==
  /\ Starts(m)
  /\ pause # "none"
  /\ UNCHANGED <<faults, cache, phase, call, answer, skipped, pause, spentUsd, paid>>

HitCache(m) ==
  /\ Starts(m)
  /\ pause = "none"
  /\ Cached(m, First(m))
  /\ answer' = [answer EXCEPT ![m] = First(m)]
  /\ UNCHANGED <<faults, cache, phase, call, skipped, pause, spentUsd, paid>>

(* Mutant of Exceeded: the cap itself may still be spent from. *)
ExceededAbove == spentUsd > Cap

Exceeded == spentUsd >= Cap

HitCap(m) ==
  /\ Starts(m)
  /\ pause = "none"
  /\ ~Cached(m, First(m))
  /\ Exceeded
  /\ pause' = "cost_cap"
  /\ UNCHANGED <<faults, cache, phase, call, answer, skipped, spentUsd, paid>>

Send(m) ==
  /\ Starts(m)
  /\ pause = "none"
  /\ ~Cached(m, First(m))
  /\ ~Exceeded
  /\ call' = [call EXCEPT ![m] = First(m)]
  /\ UNCHANGED <<faults, cache, phase, answer, skipped, pause, spentUsd, paid>>

-----------------------------------------------------------------------------
(* The API comes back. A call that is out is not stopped by a pause.       *)

Out(m) == Running /\ call[m] # NoForm

Returned(m) == call' = [call EXCEPT ![m] = NoForm]

Accepts(m) == \/ Verdict[Text[m]] = "fits"
              \/ Verdict[Text[m]] = "fits halved" /\ call[m] = "half"

Record(m) == [text |-> Text[m], form |-> call[m], message |-> m]

(* Mutant of Append: the record of a text that was cut is dropped. *)
AppendUncut(m) ==
  IF Cached(m, call[m]) \/ call[m] = "cut" THEN cache ELSE cache \cup {Record(m)}

(* A record whose hash is cached already is dropped.                       *)
Append(m) == IF Cached(m, call[m]) THEN cache ELSE cache \cup {Record(m)}

Answer(m) ==
  /\ Out(m) /\ Accepts(m)
  /\ cache' = Append(m)
  /\ answer' = [answer EXCEPT ![m] = call[m]]
  /\ spentUsd' = spentUsd + 1
  /\ paid' = [paid EXCEPT ![Text[m]] = IF @ < MaxPaid THEN @ + 1 ELSE @]
  /\ Returned(m)
  /\ UNCHANGED <<faults, phase, next, skipped, pause>>

(* 400 max_tokens_exceeded, for the first time: once more at half the      *)
(* budget, which is neither looked up in the cache nor held back by the    *)
(* cap or a pause.                                                         *)
Halve(m) ==
  /\ Out(m)
  /\ Verdict[Text[m]] \in {"fits halved", "too long"} /\ call[m] # "half"
  /\ call' = [call EXCEPT ![m] = "half"]
  /\ UNCHANGED <<faults, cache, phase, next, answer, skipped, pause, spentUsd, paid>>

(* Any other 400.                                                          *)
Skip(m) ==
  /\ Out(m)
  /\ \/ Verdict[Text[m]] = "too long" /\ call[m] = "half"
     \/ Verdict[Text[m]] = "bad"
  /\ skipped' = skipped \cup {m}
  /\ Returned(m)
  /\ UNCHANGED <<faults, cache, phase, next, answer, pause, spentUsd, paid>>

(* 402. The first reason to pause is the one that is kept.                 *)
OutOfCredits(m) ==
  /\ "no credits" \in faults
  /\ Out(m)
  /\ pause' = IF pause = "none" THEN "no_credits" ELSE pause
  /\ Returned(m)
  /\ UNCHANGED <<faults, cache, phase, next, answer, skipped, spentUsd, paid>>

(* Anything else is raised out of gather: the run is lost, but the other   *)
(* workers may get on while the client is being closed.                    *)
Raise(m) ==
  /\ "error" \in faults
  /\ Out(m)
  /\ phase' = "aborting"
  /\ Returned(m)
  /\ UNCHANGED <<faults, cache, next, answer, skipped, pause, spentUsd, paid>>

(* asyncio.run cancels the rest; or the process is killed.                 *)
Stop ==
  /\ \/ phase = "aborting"
     \/ "kill" \in faults /\ phase = "running"
  /\ phase' = "idle"
  /\ next' = 1 /\ call' = Nothing /\ answer' = Nothing /\ skipped' = {}
  /\ pause' = "none" /\ spentUsd' = 0
  /\ UNCHANGED <<faults, cache, paid>>

EndBatch ==
  /\ phase = "running"
  /\ next = NumMessages + 1 /\ InFlight = {}
  /\ phase' = "ended"
  /\ UNCHANGED <<faults, cache, next, call, answer, skipped, pause, spentUsd, paid>>

Worker(m) ==
  GiveUp(m) \/ HitCache(m) \/ HitCap(m) \/ Send(m) \/ Answer(m) \/ Halve(m) \/ Skip(m)

Batch == BeginBatch \/ EndBatch \/ \E m \in Messages : Worker(m)

Fault == Stop \/ \E m \in Messages : OutOfCredits(m) \/ Raise(m)

BatchNext == Batch \/ Fault

BatchSpec == BatchInit /\ [][BatchNext]_batchVars

(* The operator runs the command again, and every call is answered.        *)
FairBatchSpec == BatchSpec /\ WF_batchVars(Batch)

-----------------------------------------------------------------------------
(* The status, and what the commands make of the cache after a run.        *)

Completed == phase = "ended" /\ pause = "none"

(* Mutant of FanOut: joined by the record's message. *)
FanOutByMessage == {m \in Messages : \E r \in cache : r.message = m /\ r.form # "half"}

(* The private run joins by the hash of the text, cut to the budget.       *)
FanOut == {m \in Messages : Cached(m, First(m))}

(* The benchmark hashes the text as it is.                                 *)
BenchmarkFanOut == {m \in Messages : Cached(m, "raw")}

-----------------------------------------------------------------------------
BatchTypeOK ==
  /\ faults \in Environments
  /\ cache \subseteq Records
  /\ phase \in {"idle", "running", "aborting", "ended"}
  /\ next \in 1..(NumMessages + 1)
  /\ call \in [Messages -> Forms \cup {NoForm}]
  /\ answer \in [Messages -> Forms \cup {NoForm}]
  /\ skipped \subseteq Messages
  /\ pause \in {"none", "cost_cap", "no_credits"}
  /\ spentUsd \in Nat
  /\ paid \in [Texts -> 0..MaxPaid]
  /\ phase \in {"idle", "ended"} => InFlight = {}
  /\ Cardinality(InFlight) <= Concurrency

(* A run overspends its cap by less than the calls that can be in flight:  *)
(* the cap is looked at before a call and charged after it.                *)
SpendBounded == spentUsd + Cardinality(InFlight) <= Cap + Concurrency - 1

(* After a completed run every message has its record or was skipped, and  *)
(* the private run finds the record of every message that was not halved,  *)
(* the ones that share another message's text too. The benchmark finds     *)
(* those within the budget.                                                *)
FanOutComplete ==
  Completed =>
    \A m \in Messages \ skipped :
      /\ answer[m] # NoForm /\ Cached(m, answer[m])
      /\ \/ answer[m] = "half"
         \/ m \in FanOut /\ (Text[m] \notin OverBudget => m \in BenchmarkFanOut)

(* Over all runs, whatever ends them, a text is paid for again only by the *)
(* messages that share it and were sent at once; unless it must be halved, *)
(* when the halved text is sent and paid for in every run.                 *)
Sharing(t) == {m \in Messages : Text[m] = t}
PaidOnce ==
  \A t \in Texts :
    Verdict[t] = "fits" => /\ paid[t] <= Concurrency
                           /\ paid[t] <= Cardinality(Sharing(t))

(* The cap only delays: run again, and all messages get their records but  *)
(* for those the API refuses; as long as the messages that must be halved, *)
(* and are paid for in every run, do not use up the cap by themselves.     *)
EventuallyClassified ==
  (faults = {} /\ Cardinality({m \in Messages : Verdict[Text[m]] = "fits halved"}) < Cap) =>
    <>[](\A m \in Messages :
           \/ Cached(m, First(m)) \/ Cached(m, "half")
           \/ Verdict[Text[m]] \in {"too long", "bad"})

=============================================================================
