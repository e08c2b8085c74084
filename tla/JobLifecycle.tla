---------------------------- MODULE JobLifecycle ----------------------------
(***************************************************************************)
(* What the maestro promises its clients about a job: it is split into      *)
(* parts once, it is reported FINISHED only when every one of its parts     *)
(* has ended well, and the first stop that is reported is the last word.    *)
(***************************************************************************)
EXTENDS FiniteSets

CONSTANTS Daemons, Jobs

VARIABLES
    status,     \* what the clients are told
    parts,      \* the nodes that were given a part of the job
    done        \* the nodes whose part ended well

vars == <<status, parts, done>>

Live == {"initial", "queued", "running"}

Init ==
    /\ status = [j \in Jobs |-> "none"]
    /\ parts = [j \in Jobs |-> {}]
    /\ done = [j \in Jobs |-> {}]

Enter(j) ==
    /\ status[j] = "none"
    /\ \E s \in {"initial", "queued", "failed"} : status' = [status EXCEPT ![j] = s]
    /\ UNCHANGED <<parts, done>>

Split(j) ==
    /\ status[j] # "none" /\ parts[j] = {}
    /\ \E S \in (SUBSET Daemons) \ {{}} : parts' = [parts EXCEPT ![j] = S]
    /\ UNCHANGED <<status, done>>

PartDone(j, d) ==
    /\ d \in parts[j]
    /\ done' = [done EXCEPT ![j] = @ \cup {d}]
    /\ UNCHANGED <<status, parts>>

Begin(j) ==
    /\ status[j] \in Live /\ parts[j] # {}
    /\ status' = [status EXCEPT ![j] = "running"]
    /\ UNCHANGED <<parts, done>>

Finish(j) ==
    /\ status[j] \in Live /\ parts[j] # {} /\ done[j] = parts[j]
    /\ status' = [status EXCEPT ![j] = "finished"]
    /\ UNCHANGED <<parts, done>>

Abort(j) ==
    /\ status[j] \in Live
    /\ \E s \in {"failed", "canceled"} : status' = [status EXCEPT ![j] = s]
    /\ UNCHANGED <<parts, done>>

Next ==
    \E j \in Jobs :
        \/ Enter(j) \/ Split(j) \/ Begin(j) \/ Finish(j) \/ Abort(j)
        \/ \E d \in Daemons : PartDone(j, d)

Spec == Init /\ [][Next]_vars
=============================================================================
