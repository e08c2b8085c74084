------------------------------ MODULE GebrdJob ------------------------------
(***************************************************************************)
(* gebrd, the daemon of a processing node (gebrd-client.c, gebrd-job.c,     *)
(* gebrd.c) and the operating-system process of a flow                      *)
(* (libgebr/comm/gebr-comm-process.c), for a REGULAR (non MOAB) node.       *)
(***************************************************************************)
EXTENDS Wire

CONSTANTS
    IssueChoices,   \* whether assembling a command line may report issues
    GroupChoices    \* how the race between setpgrp() and setpgid() may end

ASSUME GebrdAssumption ==
    /\ IssueChoices \subseteq BOOLEAN /\ IssueChoices # {}
    /\ GroupChoices \subseteq {"own", "stray"} /\ GroupChoices # {}

VARIABLES
    alive,          \* gebrd is up on the node
    gjob,           \* GebrdJob->parent.status, "none" when not in user->jobs
    proc,           \* the flow's process
    userFinished    \* GebrdJob->user_finished

gebrdVars == <<alive, gjob, proc, userFinished>>

(* "own": the child leads its own process group, as setpgrp() in the child   *)
(* asks; "stray": it was moved into gebrd's group by the parent's setpgid(). *)
(* The two calls race after fork(), so either one may be the last.           *)
(* "dying": killpg() reached it.  "ok"/"bad": gone, WEXITSTATUS zero or not. *)
ProcState  == {"none", "own", "stray", "dying", "ok", "bad"}
Executing  == {"own", "stray", "dying"}

GebrdTypeOK ==
    /\ alive \in [Daemons -> BOOLEAN]
    /\ gjob \in [Daemons -> [Jobs -> {"none"} \cup TaskStatus]]
    /\ proc \in [Daemons -> [Jobs -> ProcState]]
    /\ userFinished \in [Daemons -> [Jobs -> BOOLEAN]]

GebrdInit ==
    /\ alive = [d \in Daemons |-> TRUE]
    /\ gjob = [d \in Daemons |-> [j \in Jobs |-> "none"]]
    /\ proc = [d \in Daemons |-> [j \in Jobs |-> "none"]]
    /\ userFinished = [d \in Daemons |-> [j \in Jobs |-> FALSE]]

Receives(d, op) == alive[d] /\ down[d] # <<>> /\ Head(down[d]).op = op

(* Mutant: the error path of job_run_flow reports the job as it is, INITIAL.  *)
GebrdRunSilent(d) ==
    /\ Receives(d, "run")
    /\ LET j == Head(down[d]).job
       IN /\ gjob' = [gjob EXCEPT ![d][j] = "initial"]
          /\ up' = Sent(up, {d}, <<Tsk(j, FALSE), Sta(j, "initial")>>)
    /\ down' = Popped(down, d)
    /\ UNCHANGED <<conn, alive, proc, userFinished>>

(* RUN on a regular node: job_new, job_send_clients_job_notify (TSK), then   *)
(* job_run_flow, which either fails at once (critical_error) or reports      *)
(* RUNNING and forks.                                                        *)
GebrdRun(d) ==
    /\ Receives(d, "run")
    /\ \E issues \in IssueChoices, critical_error \in BOOLEAN, group \in GroupChoices :
         LET j == Head(down[d]).job
             s == IF critical_error THEN "failed" ELSE "running"
         IN /\ gjob' = [gjob EXCEPT ![d][j] = s]
            /\ proc' = [proc EXCEPT ![d][j] = IF critical_error THEN @ ELSE group]
            /\ up' = Sent(up, {d}, <<Tsk(j, issues), Sta(j, s)>>)
    /\ down' = Popped(down, d)
    /\ UNCHANGED <<conn, alive, userFinished>>

(* Mutant: the user's wish is noted, the process group is not signalled.     *)
GebrdKilNoSignal(d) ==
    /\ Receives(d, "kil")
    /\ LET j == Head(down[d]).job
       IN userFinished' = [userFinished EXCEPT ![d][j] = @ \/ gjob[d][j] # "none"]
    /\ down' = Popped(down, d)
    /\ UNCHANGED <<conn, up, alive, gjob, proc>>

(* KIL: job_find by run id, then job_kill.  killpg(pid) only reaches a child *)
(* that leads its own group; a process that is gone has pid 0.               *)
GebrdKil(d) ==
    /\ Receives(d, "kil")
    /\ LET j == Head(down[d]).job
       IN IF gjob[d][j] = "none" THEN UNCHANGED <<proc, userFinished>>
          ELSE /\ userFinished' = [userFinished EXCEPT ![d][j] = TRUE]
               /\ proc' = [proc EXCEPT ![d][j] = IF @ = "own" THEN "dying" ELSE @]
    /\ down' = Popped(down, d)
    /\ UNCHANGED <<conn, up, alive, gjob>>

(* CLR: job_clear frees the job, unless it is RUNNING.                       *)
GebrdClr(d) ==
    /\ Receives(d, "clr")
    /\ LET j == Head(down[d]).job
       IN IF gjob[d][j] = "running" THEN UNCHANGED gjob
          ELSE gjob' = [gjob EXCEPT ![d][j] = "none"]
    /\ down' = Popped(down, d)
    /\ UNCHANGED <<conn, up, alive, proc, userFinished>>

(* The child watch: job_process_finished.  A process killed by a signal has  *)
(* WEXITSTATUS 0, the same as one that ends well.                            *)
ProcessFinished(d, j) ==
    /\ gjob[d][j] = "running"
    /\ proc[d][j] \in Executing
    /\ \E exit \in {"ok", "bad"} :
         LET s == IF exit = "bad" THEN "failed"
                  ELSE IF userFinished[d][j] THEN "canceled" ELSE "finished"
         IN /\ proc' = [proc EXCEPT ![d][j] = exit]
            /\ gjob' = [gjob EXCEPT ![d][j] = s]
            /\ up' = Sent(up, {d}, <<Sta(j, s)>>)
    /\ UNCHANGED <<conn, down, alive, userFinished>>

(* A process outlives the gebrd that started it and then ends unseen, even   *)
(* if the node has a new gebrd by then.                                      *)
OrphanFinished(d, j) ==
    /\ gjob[d][j] = "none"
    /\ proc[d][j] \in Executing
    /\ \E exit \in {"ok", "bad"} : proc' = [proc EXCEPT ![d][j] = exit]
    /\ UNCHANGED <<wireVars, alive, gjob, userFinished>>

(* gebrd_quit, on SIGTERM or SIGINT (the maestro's /stop sends one), on       *)
(* HARAKIRI and when the maestro's connection is lost: FAILED is reported for *)
(* every job of the list, also the ones that already ended, in list order,    *)
(* over whatever connection is left.  The processes go on.                    *)
Listed(d) == {j \in Jobs : gjob[d][j] # "none"}

Orders(S) == {q \in [1..Cardinality(S) -> S] : \A a, b \in DOMAIN q : q[a] = q[b] => a = b}

GebrdQuit(d) ==
    /\ alive[d]
    /\ \E q \in Orders(Listed(d)) :
         up' = Sent(up, {d}, [i \in DOMAIN q |-> Sta(q[i], "failed")])
    /\ alive' = [alive EXCEPT ![d] = FALSE]
    /\ gjob' = [gjob EXCEPT ![d] = [j \in Jobs |-> "none"]]
    /\ UNCHANGED <<conn, down, proc, userFinished>>

(* The maestro starts a new gebrd over ssh; the old one held the run lock.   *)
GebrdStart(d) ==
    /\ ~alive[d]
    /\ alive' = [alive EXCEPT ![d] = TRUE]
    /\ UNCHANGED <<gjob, proc, userFinished>>
=============================================================================
