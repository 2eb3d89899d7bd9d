------------------------------ MODULE Labeling ------------------------------
(***************************************************************************)
(* The labeling tool: a server shows a rater the first item of a corpus    *)
(* that has no record and appends what the rater saves to a file, which a  *)
(* later session resumes from. Each request has a thread of its own. The   *)
(* set of labels a session presents is chosen when it starts.              *)
(*                                                                         *)
(* A message is an item with the labels that were presented; the values    *)
(* of the marks are only passed on.                                        *)
(***************************************************************************)
EXTENDS Naturals, Sequences, FiniteSets, FiniteSetsExt

CONSTANTS
  NumItems,     \* items of the corpus, in its order
  NumThreads,   \* requests served at a time (bound)
  MaxLines,     \* lines of the label file (bound)
  Modes,        \* --label-set: sets of labels
  Environments  \* each a set of what may go wrong

Items   == 1..NumItems
Threads == 1..NumThreads
None    == 0                     \* no such item
Torn    == [item |-> None, labels |-> {}]

Ratable == UNION Modes
Gap     == CHOOSE m \in Modes : \A n \in Modes : m \subseteq n

(* What a page sends: an item it was shown, or another; marks for labels.  *)
Bodies  == [item : Items \cup {None}, labels : SUBSET Ratable]

VARIABLES
  faults,  \* what goes wrong in this behaviour; never changes
  server,  \* up; mode: labels presented; records: items with a record in memory
  disk,    \* the label file: a sequence of records
  threads  \* thread |-> what it has been sent and how far it is

vars == <<faults, server, disk, threads>>

Free == [pc |-> "free", item |-> None, labels |-> {}]
Down == [up |-> FALSE, mode |-> {}, records |-> {}]

Init ==
  /\ faults \in Environments
  /\ server = Down
  /\ disk = << >>
  /\ threads = [t \in Threads |-> Free]

Lines == {disk[k] : k \in 1..Len(disk)}

-----------------------------------------------------------------------------
(* A blank line is passed over, a torn one raises.                         *)
ReadLabelRecords == {l.item : l \in Lines}

(* The labels must match the questions, and the file must be readable.     *)
BuildAppState ==
  /\ ~server.up
  /\ Torn \notin Lines
  /\ \E m \in IF "modes" \in faults THEN Modes ELSE {Gap} :
       server' = [up |-> TRUE, mode |-> m, records |-> ReadLabelRecords]
  /\ UNCHANGED <<faults, disk, threads>>

(* What a page is shown: the first item without a record.                  *)
NextItem == Min((Items \ server.records) \cup {NumItems + 1})
Complete == NextItem > NumItems

(* Every label that is presented has a mark, and no other.                 *)
ValidateSavePayload(body) ==
  /\ body.item \in Items
  /\ body.labels = server.mode

(* A save arrives: of the item that is shown, in two pages it may be, or   *)
(* of any other (a rater goes back, a page of an earlier session).         *)
ReceiveSave(t) ==
  /\ server.up /\ threads[t].pc = "free" /\ Len(disk) + NumThreads <= MaxLines
  /\ \E body \in Bodies :
       /\ \/ body.item = NextItem
          \/ "stale pages" \in faults
       /\ ValidateSavePayload(body)
       /\ threads' = [threads EXCEPT ![t] = [pc |-> "append", item |-> body.item,
                                              labels |-> body.labels]]
  /\ UNCHANGED <<faults, server, disk>>

AppendLabelRecord(t) ==
  /\ threads[t].pc = "append"
  /\ disk' = Append(disk, [item |-> threads[t].item, labels |-> threads[t].labels])
  /\ threads' = [threads EXCEPT ![t].pc = "record"]
  /\ UNCHANGED <<faults, server>>

(* The record in memory, and the next item for the page.                   *)
RecordSave(t) ==
  /\ threads[t].pc = "record"
  /\ server' = [server EXCEPT !.records = @ \cup {threads[t].item}]
  /\ threads' = [threads EXCEPT ![t] = Free]
  /\ UNCHANGED <<faults, disk>>

(* The server is stopped between two steps, or in the middle of a line.    *)
Stop ==
  /\ "stop" \in faults /\ server.up
  /\ server' = Down
  /\ threads' = [t \in Threads |-> Free]
  /\ disk' \in {disk} \cup {Append(disk, Torn) :
                  t \in {u \in Threads : threads[u].pc = "append" /\ "torn" \in faults}}
  /\ UNCHANGED faults

(* The rater removes a line the server cannot read.                        *)
Repair ==
  /\ ~server.up
  /\ \E k \in 1..Len(disk) :
       /\ disk[k] = Torn
       /\ disk' = SubSeq(disk, 1, k - 1) \o SubSeq(disk, k + 1, Len(disk))
  /\ UNCHANGED <<faults, server, threads>>

Serve == \E t \in Threads : AppendLabelRecord(t) \/ RecordSave(t)
Rate  == \E t \in Threads : ReceiveSave(t)

Next == BuildAppState \/ Serve \/ Rate \/ Stop \/ Repair

Spec == Init /\ [][Next]_vars

(* The rater starts a session and goes on, and the server serves.          *)
FairSpec == Spec /\ WF_vars(BuildAppState) /\ WF_vars(Serve) /\ WF_vars(Rate)

-----------------------------------------------------------------------------
TypeOK ==
  /\ server.up \in BOOLEAN /\ server.mode \in Modes \cup {{}} /\ server.records \subseteq Items
  /\ \A l \in Lines : l = Torn \/ (l.item \in Items /\ l.labels \in Modes)
  /\ \A t \in Threads : threads[t].pc \in {"free", "append", "late", "record"}

(* What the page counts as done is in the file: stopped at any moment, the *)
(* session that resumes shows nothing again that was counted.              *)
DoneIsSaved == server.records \subseteq ReadLabelRecords

(* A session ends only with a mark of every presented label for every      *)
(* item, as long as the sessions of a file present the same labels. (A     *)
(* record counts for its item whatever labels it was asked for.)           *)
CompleteIsLabeled ==
  (server.up /\ Complete /\ "modes" \notin faults) =>
    \A i \in Items : [item |-> i, labels |-> server.mode] \in Lines

(* Page after page, the corpus gets labeled.                               *)
Finished == faults \cap {"stop", "stale pages"} = {} => server.up /\ Complete

EventuallyFinished == <>[]Finished

=============================================================================
