----------------------------- MODULE MCJobExec ------------------------------
(* Instances of JobExec for TLC.                                             *)
EXTENDS JobExec, TLC

CONSTANTS d1, d2, j1, j2

BothDaemons == {d1, d2}
OneDaemon   == {d1}
OneJob      == {j1}
BothJobs    == {j1, j2}
SecondJob   == {j2}
NoJobs      == {}
Swap        == Permutations(BothDaemons)

(* Behaviours in which clients submit one job, of whichever kind.            *)
OneSubmitted == Cardinality({j \in Jobs : status[j] # "none"}) <= 1
AloneSpec == Init /\ [][Next /\ OneSubmitted']_vars
=============================================================================
