---------------------------- MODULE MCJobQueue -----------------------------
(* Instances of JobQueue for TLC.                                            *)
EXTENDS JobQueue

CONSTANTS d1, d2, j1, j2, j3

ThreeJobs    == {j1, j2, j3}
OneDaemon    == {d1}
BothDaemons  == {d1, d2}
AnyJobOrNode == Permutations(ThreeJobs) \cup Permutations(BothDaemons)
=============================================================================
