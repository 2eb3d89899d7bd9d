-------------------------- MODULE AtLeastOnceFeed --------------------------
(***************************************************************************)
(* What every incremental collector of the pipeline promises about the     *)
(* data branch, whatever its source: a reader of the branch sees a set of  *)
(* delivered events that only grows, and the position the branch records   *)
(* for the source (its watermark) never claims an event that is not there. *)
(* An event may be delivered more than once, and the position may move     *)
(* back; neither loses anything.                                           *)
(***************************************************************************)
CONSTANT Events       \* the events of the source

VARIABLES delivered,  \* events with at least one row on the data branch
          settled     \* events the recorded position will never ask for again

feed == <<delivered, settled>>

FeedTypeOK == /\ delivered \subseteq Events
              /\ settled \subseteq Events

(***************************************************************************)
(* The branch may start with any history whose position is covered.        *)
(***************************************************************************)
FeedInit == /\ delivered \in SUBSET Events
            /\ settled \in SUBSET delivered

(***************************************************************************)
(* One push of the data branch.                                            *)
(***************************************************************************)
Deliver == /\ delivered' \in SUBSET Events
           /\ delivered \subseteq delivered'
           /\ settled' \subseteq delivered'

FeedSpec == FeedInit /\ [][Deliver]_feed

-----------------------------------------------------------------------------
(* A settled event can be read: nothing the collector will skip is missing. *)
SettledIsDelivered == settled \subseteq delivered

=============================================================================
