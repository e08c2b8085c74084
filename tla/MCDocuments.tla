---------------------------- MODULE MCDocuments -----------------------------
(* Instances of Documents for TLC.                                           *)
EXTENDS Documents

CONSTANTS p1, p2, l1, l2, f1, f2, f3

ThreeFlows  == {f1, f2, f3}
TwoProjects == {p1, p2}
TwoLines    == {l1, l2}
ThirdFlow   == f3
SameKind    == Permutations(TwoProjects) \cup Permutations(TwoLines) \cup Permutations({f1, f2})
=============================================================================
