-------------------------- MODULE MCClassification --------------------------
EXTENDS Classification

(* Three messages read alike, one must be halved, one is over the budget   *)
(* and one is refused.                                                     *)
MCText    == <<"alike", "long", "alike", "over", "alike", "huge", "odd">>
MCVerdict == [t \in Texts |-> CASE t = "long" -> "fits halved"
                                [] t = "huge" -> "too long"
                                [] t = "odd"  -> "bad"
                                [] OTHER      -> "fits"]

=============================================================================
