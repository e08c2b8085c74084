------------------------------ MODULE MCMirror ------------------------------
(* Three jobs of one client on one node.                                     *)
EXTENDS Mirror

CONSTANTS d1, j1, j2, j3

ThreeJobs == {j1, j2, j3}
OneDaemon == {d1}
AnyJob    == Permutations(ThreeJobs)
=============================================================================
