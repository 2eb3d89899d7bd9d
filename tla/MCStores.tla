------------------------------ MODULE MCStores ------------------------------
(***************************************************************************)
(* Small instances of the parts of the data directory.                     *)
(***************************************************************************)
EXTENDS Stores

(* The mailing lists. A list's second message of a month answers the first *)
(* of the month before; an automaton opens the second month; one sender    *)
(* answers itself.                                                         *)
MCThreads == [x \in (1..3) \X (1..2) |->
                IF x[2] = 1 THEN x ELSE IF x[1] = 1 THEN <<1, 1>> ELSE <<x[1] - 1, 1>>]
MCSenders == [x \in (1..3) \X (1..2) |->
                IF x = <<2, 1>> THEN 3 ELSE IF x = <<3, 2>> THEN 1 ELSE x[2]]

(* The look-ups.                                                           *)
MCLoginOf == <<1, 2, 0, 3, 1>>

(* The private run: two issues of one quarter, of which one is in the      *)
(* sample, one of the next, and a thread of mail.                          *)
Say(author, text) == [author |-> author, text |-> text]
Doing(threads, posts, messages, what) == [threads |-> threads, posts |-> posts, messages |-> messages, what |-> what]

MCDiscussions == 1..4
MCVenueOf == <<"jira", "jira", "jira", "mail">>
MCQuarterOf == <<1, 1, 2, 3>>
MCYearOf == <<1, 1, 2>>
MCTrendWindows == [early |-> {1}, recent |-> {2}]
MCRating == <<[hostility |-> 0, acknowledgment |-> 2], [hostility |-> 1, acknowledgment |-> 0]>>
MCPrivateEnvironments ==
  {Doing({1, 2, 3}, 2, {Say(1, 1), Say(2, 2)}, {"publish"}),
   Doing({1}, 3, {Say(1, 1), Say(2, 2)}, {"edit", "publish"}),
   Doing({1}, 2, {Say(1, 1), Say(2, 2)}, {"skip", "no_classify", "sample_only"}),
   Doing({1, 4}, 2, {Say(1, 1), Say(3, 2)}, {"kill", "publish"})}

(* The pilot: three issues of one year, one of them without comments, and  *)
(* one of the next; a mail quotes, one has its own words under code.       *)
Own(label) == [kind |-> "own", label |-> label]
Other(kind) == [kind |-> kind, label |-> 2]
Plain == <<Own(0)>>
Flagged == <<Own(1)>>
Quoting == <<Own(0), Other("quote")>>
Under == <<Other("code"), Own(2), Other("attribution"), Own(1)>>
Mailed(month, sender, parent, raw) == [month |-> month, sender |-> sender, parent |-> parent, raw |-> raw]
Said(year, author, raw) == [year |-> year, author |-> author, raw |-> raw]
Scanning(posts, said, budget, what) ==
  [comments |-> <<<<Said(1, 1, Flagged), Said(2, 1, Plain)>>, <<Said(1, 1, Quoting)>>, << >>,
                  <<Said(2, 1, Flagged), Said(2, 3, Flagged)>>>>,
   posts |-> posts, said |-> said, budget |-> budget, what |-> what]

MCMails == <<Mailed(1, 1, 0, Plain), Mailed(2, 1, 1, Under), Mailed(2, 3, 1, Flagged), Mailed(3, 1, 1, Quoting)>>
MCYearOfMonth == <<1, 2, 2>>
MCCreatedIn == <<1, 1, 1, 2>>
MCPilotEnvironments ==
  {Scanning(1, {Said(0, 1, Flagged), Said(2, 1, Under)}, 12, {}), Scanning(0, {}, 7, {"outage"}),
   Scanning(0, {}, 3, {"kill"}), Scanning(0, {}, 12, {"vanish"})}

(* GitHub's issues: a bot's and a person's in one repository; in the other *)
(* only a person's.                                                        *)
MCAuthorOf == <<<<1, 9>>, <<1>>>>

(* The rows: the newer parser finds a second reviewer, or none where one   *)
(* was found.                                                              *)
MCCredits == <<<<{1}, {1}, {2}>>, <<{1, 2}, {}, {2}>>>>

=============================================================================
