-------------------------- MODULE MCDiscoveryCache --------------------------
(* Instances of DiscoveryCache small enough for TLC.                       *)
EXTENDS DiscoveryCache, TLC

(* All callers ask for one query; one of them may first ask for another,   *)
(* which then competes for the slots.                                      *)
CONSTANTS shared, curious
SharingNext ==
  /\ Next
  /\ \A c \in Callers : call'[c].phase # "idle" =>
       call'[c].key = shared \/ (c = curious /\ now' = 0)
SharingSpec == Init /\ [][SharingNext]_vars /\ Fairness
=============================================================================
