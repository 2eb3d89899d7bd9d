-------------------------- MODULE MCGitCollection --------------------------
(* Small instances of GitCollection for TLC.                               *)
EXTENDS GitCollection

(* Commit 2 has a trailer only the second parser can read. *)
MCCredited == [v \in 1..MaxParser |-> IF v = 1 THEN Commits \ {2} ELSE Commits]

(* Everything goes wrong where the local branch is walked. *)
AllFaults == [defaultIsHead |-> TRUE, faults |-> FaultKinds]

(* No night is cut between its writes where the fetched branch is walked. *)
WholeNights ==
  [defaultIsHead |-> FALSE,
   faults |-> {"outage", "reparse_error", "job_lost", "cache_evicted"}]

MCEnvironments == {AllFaults, WholeNights}
QuietHead      == {[defaultIsHead |-> TRUE, faults |-> {}]}

=============================================================================
