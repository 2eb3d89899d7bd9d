---------------------------- MODULE RequestRetry ----------------------------
(***************************************************************************)
(* How the collectors ask the outside world: each client paces its         *)
(* requests, retries what it takes for transient with a growing delay or   *)
(* the server's Retry-After, and gives up after a number of attempts. The  *)
(* collectors have a loop each, which differ in what they retry, return or *)
(* stop at. Time is counted in steps and forgotten once it no longer       *)
(* matters.                                                                *)
(***************************************************************************)
EXTENDS Naturals, FiniteSetsExt

CONSTANTS
  Interval,    \* min_request_interval
  MaxRetries,  \* max_retries: attempts of a request
  MaxDelay,    \* BACKOFF_CAP; the longest Retry-After (bound)
  MaxCalls,    \* budget of calls of a run
  MaxRequests, \* looks at the budget of a run, a request or the first page of some each (bound)
  MaxFollowed  \* pages asked for after one look (bound)

Outcomes == {"answer", "timeout", "transport", "429", "5xx", "403", "403 quota", "404", "422",
             "garbled", "errors"}

VARIABLES
  policy,   \* the collector's; never changes
  client,   \* since: time since _last_request_at, up to Interval; calls: call_count
  request,  \* pc; left: requests still to make; page: asked for since the last look at the budget;
            \* attempt; wait: time left to sleep; last: outcome
  gap       \* time between the client's last two requests, up to Interval

vars == <<policy, client, request, gap>>

Unanswered == {"timeout", "transport"}
Transient  == Unanswered \cup {"429", "5xx"}

(* One record for each loop: what it retries, what it hands to its caller, *)
(* what ends the batch, of which outcomes it heeds the Retry-After, and    *)
(* how many pages it follows before the budget is looked at again.         *)
Policy(paced, counted, retried, returned, heeded) ==
  [paced |-> paced, counted |-> counted, retried |-> retried, returned |-> returned,
   stops |-> {}, heeded |-> heeded, pages |-> 1]

PonyMail          == Policy(TRUE, FALSE, Transient \cup {"garbled"}, {}, {"429", "5xx"})
Jira              == Policy(TRUE, FALSE, Transient \cup {"garbled"}, {}, {"429", "5xx"})
JiraComments      == Policy(TRUE, TRUE, Transient \cup {"garbled"}, {"404"}, {"429", "5xx"})
CommentBackfill   == Policy(TRUE, FALSE, JiraComments.retried, {"404"}, {"429", "5xx"})
GitHubChecks      == [Policy(TRUE, TRUE, Transient \cup {"403 quota", "garbled"},
                             {"404", "422"}, {"429", "5xx"}) EXCEPT !.pages = MaxFollowed]
GraphQL           == Transient \cup {"403", "403 quota", "garbled"}
GitHub            == Policy(TRUE, FALSE, GraphQL, {}, GraphQL \ (Unanswered \cup {"garbled"}))
GitHubIssues      == Policy(TRUE, FALSE, GraphQL, {}, GraphQL \ (Unanswered \cup {"garbled"}))
CommitAuthors     == Policy(TRUE, FALSE, GraphQL, {}, GraphQL \ (Unanswered \cup {"garbled"}))
ReleaseLines      == Policy(TRUE, FALSE, Transient, {}, {})
SubprojectActions == Policy(TRUE, FALSE, Transient \cup {"403 quota", "garbled"}, {}, {})
AsfRoster         == Policy(FALSE, FALSE, Transient, {}, {})
TextFetch         == Policy(TRUE, FALSE, Transient, {"404"}, {"429", "5xx"})
PilotScan         == Policy(TRUE, TRUE, Transient, {"404"}, {"429", "5xx"})
Release           == Policy(FALSE, FALSE, Transient, {}, {})
Security          == Policy(FALSE, FALSE, Transient, {}, {})

(* The profiles' loop stops the batch at a rate limit. *)
RateLimited    == {"429", "403 quota"}
GitHubProfiles == [Policy(TRUE, FALSE, Unanswered \cup {"5xx", "garbled"}, {"404"}, {"5xx"})
                     EXCEPT !.stops = RateLimited]

Policies == {PonyMail, Jira, JiraComments, CommentBackfill, GitHubChecks, GitHub, GitHubIssues,
             CommitAuthors, ReleaseLines, SubprojectActions, TextFetch, PilotScan, AsfRoster, Release,
             Security, GitHubProfiles}

Init ==
  /\ policy \in Policies
  /\ client = [since |-> Interval, calls |-> 0]
  /\ request = [pc |-> "idle", left |-> MaxRequests, page |-> 1, attempt |-> 0, wait |-> 0, last |-> "answer"]
  /\ gap = Interval

-----------------------------------------------------------------------------
(* Time passes whatever the client does.                                   *)
Tick ==
  /\ client.since < Interval \/ request.wait > 0
  /\ client' = [client EXCEPT !.since = Min({@ + 1, Interval})]
  /\ request' = [request EXCEPT !.wait = Max({@, 1}) - 1]
  /\ UNCHANGED <<policy, gap>>

(* The budget of calls is looked at before each issue, each request of the *)
(* pilot's scan and each commit whose check runs are asked for.            *)
Begin ==
  /\ request.pc = "idle" /\ request.left > 0
  /\ policy.counted => client.calls < MaxCalls
  /\ request' = [request EXCEPT !.pc = "pace", !.left = @ - 1, !.page = 1, !.attempt = 0]
  /\ UNCHANGED <<policy, client, gap>>

Pace ==
  /\ request.pc = "pace" /\ request.wait = 0
  /\ request' = [request EXCEPT !.pc = "send",
                   !.wait = IF policy.paced THEN Interval - client.since ELSE 0]
  /\ UNCHANGED <<policy, client, gap>>

(* Mutant of Send: a client that retries does not note when it asks. *)
SendNotedOnce ==
  /\ request.pc = "send" /\ request.wait = 0
  /\ request' = [request EXCEPT !.pc = "sent", !.attempt = @ + 1]
  /\ client' = [client EXCEPT !.since = IF request.attempt > 0 THEN @ ELSE 0, !.calls = @ + 1]
  /\ gap' = IF request.attempt > 0 THEN 0 ELSE client.since
  /\ UNCHANGED policy

Send ==
  /\ request.pc = "send" /\ request.wait = 0
  /\ request' = [request EXCEPT !.pc = "sent", !.attempt = @ + 1]
  /\ client' = [client EXCEPT !.since = 0, !.calls = @ + 1]
  /\ gap' = client.since
  /\ UNCHANGED policy

ExponentialBackoff(attempt) == Min({2 ^ (attempt - 1), MaxDelay})

(* A delay the server asks for may be none at all.                         *)
Retry(o) ==
  /\ o \in policy.retried /\ request.attempt < MaxRetries
  /\ \E delay \in {ExponentialBackoff(request.attempt)}
                  \cup (IF o \in policy.heeded THEN 0..MaxDelay ELSE {}) :
       request' = [request EXCEPT !.pc = "pace", !.wait = delay, !.last = o]
  /\ UNCHANGED <<policy, client, gap>>

(* The page is full: the next is asked for, and the budget not looked at.  *)
FollowPage ==
  /\ request.page < policy.pages
  /\ request' = [request EXCEPT !.pc = "pace", !.page = @ + 1, !.attempt = 0, !.wait = 0, !.last = "answer"]
  /\ UNCHANGED <<policy, client, gap>>

(* A whole answer, or an absence the caller understands.                   *)
Return(o) ==
  /\ o \in {"answer"} \cup policy.returned
  /\ request' = [request EXCEPT !.pc = "idle", !.wait = 0, !.last = o]
  /\ UNCHANGED <<policy, client, gap>>

(* CollectionError, RateLimitExhausted or the status as it is.             *)
Raise(o) ==
  /\ o # "answer" /\ o \notin policy.returned
  /\ o \in policy.retried => request.attempt >= MaxRetries
  /\ request' = [request EXCEPT !.pc = IF o \in policy.stops THEN "stopped" ELSE "idle", !.wait = 0,
                                !.last = o]
  /\ UNCHANGED <<policy, client, gap>>

Answered == request.pc = "sent" /\ (FollowPage \/ \E o \in Outcomes : Retry(o) \/ Return(o) \/ Raise(o))

Work == Begin \/ Pace \/ Send \/ Answered

Next == Work \/ Tick

Spec == Init /\ [][Next]_vars

(* The client goes on, time passes, a request is answered or times out.    *)
FairSpec == Spec /\ WF_vars(Work) /\ WF_vars(Tick)

-----------------------------------------------------------------------------
TypeOK ==
  /\ policy \in Policies
  /\ client \in [since : 0..Interval, calls : 0..(MaxRequests * MaxFollowed * MaxRetries)]
  /\ request.pc \in {"idle", "pace", "send", "sent", "stopped"}
  /\ request.page \in 1..policy.pages /\ request.attempt \in 0..MaxRetries /\ request.wait \in 0..MaxDelay + Interval
  /\ gap \in 0..Interval

(* A paced client never asks twice within its interval, between two        *)
(* requests or two attempts of one, whatever delay the server asks for.    *)
SpacingKept == policy.paced => gap = Interval

(* The budget counts attempts and is looked at before an issue or a        *)
(* commit: a run goes over it by the attempts of the pages asked for since *)
(* the last look and no more, which is one request but for check runs,     *)
(* whose pages are followed to the last.                                   *)
OvershootBounded ==
  policy.counted => /\ client.calls <= MaxCalls - 1 + request.page * MaxRetries
                    /\ policy # GitHubChecks => request.page = 1

(* Every request comes to an end.                                          *)
Ended == request.pc \in {"idle", "stopped"}

EveryRequestEnds == []<>Ended

=============================================================================
