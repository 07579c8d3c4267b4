------------------------------ MODULE MCExporter ------------------------------
(* Instances of SdkExporter for TLC.                                       *)
EXTENDS SdkExporter, TLC

CONSTANTS c1, c2, w1, w2

Symmetry == Permutations(Workers) \cup Permutations(Callers)
TwoAndOne == [lane \in Lanes |-> IF lane = "records" THEN 2 ELSE 1]
ThreeAndOne == [lane \in Lanes |-> IF lane = "records" THEN 3 ELSE 1]
NoneOrOne == {0, 1}
=============================================================================
