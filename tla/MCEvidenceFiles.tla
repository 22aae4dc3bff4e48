-------------------------- MODULE MCEvidenceFiles ---------------------------
(* Instances of EvidenceFiles small enough for TLC.  Every host allows its *)
(* first page only.                                                        *)
EXTENDS EvidenceFiles, TLC

EvidenceRow(h, p) == [host |-> h, page |-> p]
FirstPageOnly == [h \in 1..3 |-> {1}]
(* a selection, what may replace it, and one with two pages of a host      *)
ThreeSelections ==
  <<<<EvidenceRow(1, 1), EvidenceRow(2, 1), EvidenceRow(3, 1)>>, <<EvidenceRow(2, 1)>>,
    <<EvidenceRow(1, 2), EvidenceRow(1, 1)>>>>
TwoPagesOfAHost == <<<<EvidenceRow(1, 1), EvidenceRow(1, 2)>>>>
=============================================================================
