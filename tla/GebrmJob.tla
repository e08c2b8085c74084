------------------------------ MODULE GebrmJob ------------------------------
(***************************************************************************)
(* The maestro's view of the jobs it has handed to daemons: GebrmJob        *)
(* (gebrm-job.c), GebrmTask (gebrm-task.c), the message handlers and the     *)
(* task counter of GebrmDaemon (gebrm-daemon.c), and the handlers of         *)
(* gebrm-app.c that tie them together.  A task is named by its job and its   *)
(* daemon: a job has at most one fraction on each daemon.                    *)
(***************************************************************************)
EXTENDS Wire

CONSTANTS
    ChildJobs,      \* jobs submitted with a parent: they start out QUEUED
    MpiJobs         \* jobs whose flow has an MPI program

ASSUME KindAssumption == ChildJobs \subseteq Jobs /\ MpiJobs \subseteq Jobs

VARIABLES
    status,         \* GebrmJob->status, "none" before /run
    jobs,           \* app->jobs: the ids a client can still name
    waiting,        \* jobs whose GebrCommRunner has not been run
    runner,         \* servers of the GebrCommRunner that were asked for load
    assigned,       \* daemons that were sent a fraction of the job
    total,          \* GebrmJob->total
    tasks,          \* GebrmJob->tasks
    taskStatus,     \* GebrmTask->status
    tasksMap,       \* get_tasks_map(): the tasks gebrm_task_find finds
    issued,         \* jobs with has_issued
    uncompleted,    \* GebrmDaemon->uncompleted_tasks
    killed,         \* jobs a client has asked to kill
    crashed         \* the maestro dereferenced the NULL of a failed look-up

gebrmVars == <<status, jobs, waiting, runner, assigned, total, tasks,
               taskStatus, tasksMap, issued, uncompleted, killed, crashed>>

GebrmTypeOK ==
    /\ status \in [Jobs -> {"none"} \cup JobStatus]
    /\ jobs \in SUBSET Jobs
    /\ waiting \in SUBSET Jobs
    /\ runner \in [Jobs -> SUBSET Daemons]
    /\ assigned \in [Jobs -> SUBSET Daemons]
    /\ total \in [Jobs -> Nat]
    /\ tasks \in [Jobs -> SUBSET Daemons]
    /\ taskStatus \in [Jobs -> [Daemons -> {"none"} \cup TaskStatus]]
    /\ tasksMap \in SUBSET (Jobs \X Daemons)
    /\ issued \in SUBSET Jobs
    /\ uncompleted \in [Daemons -> Int]
    /\ killed \in SUBSET Jobs
    /\ crashed \in BOOLEAN

GebrmInit ==
    /\ status = [j \in Jobs |-> "none"]
    /\ jobs = {} /\ waiting = {} /\ issued = {} /\ killed = {} /\ tasksMap = {}
    /\ runner = [j \in Jobs |-> {}]
    /\ assigned = [j \in Jobs |-> {}]
    /\ total = [j \in Jobs |-> 0]
    /\ tasks = [j \in Jobs |-> {}]
    /\ taskStatus = [j \in Jobs |-> [d \in Daemons |-> "none"]]
    /\ uncompleted = [d \in Daemons |-> 0]
    /\ crashed = FALSE

IsStopped(j) == status[j] \in Stopped

-----------------------------------------------------------------------------
(* gebrm_job_get_partial_status: what decides whether a job can be closed or *)
(* killed.  With tasks still to come it is the status of some task that      *)
(* does not run; which one never matters to the two tests.                   *)
PartialStatus(j) ==
    LET ended == {d \in tasks[j] : taskStatus[j][d] # "running"}
    IN IF status[j] = "queued" THEN "queued"
       ELSE IF tasks[j] = {} THEN "initial"
       ELSE IF Cardinality(tasks[j]) = total[j] THEN status[j]
       ELSE IF ended # {} THEN CHOOSE s \in {taskStatus[j][d] : d \in ended} : TRUE
       ELSE "running"

CanClose(j) == PartialStatus(j) \in Stopped
CanKill(j)  == PartialStatus(j) \in {"queued", "running"}

(* Mutant: FINISHED without the loop over the other tasks.                   *)
ChangedStatusAnyTask(j, tk, ts, new) ==
    IF IsStopped(j) THEN status[j]
    ELSE IF new \in {"canceled", "failed"} \/ Cardinality(tk) = total[j] THEN new
    ELSE status[j]

(* Mutant: without the early return for a job that is stopped.               *)
ChangedStatusReopens(j, tk, ts, new) ==
    LET complete == Cardinality(tk) = total[j]
    IN IF new \in {"canceled", "failed"} THEN new
       ELSE IF complete /\ new = "running" THEN "running"
       ELSE IF complete /\ new = "finished" /\ \A d \in tk : ts[d] = "finished"
            THEN "finished"
       ELSE status[j]

(* gebrm_job_change_task_status: the job's status after one of its tasks    *)
(* (now tk, with statuses ts) reports new.                                  *)
ChangedStatus(j, tk, ts, new) ==
    LET complete == Cardinality(tk) = total[j]
    IN IF IsStopped(j) THEN status[j]
       ELSE IF new \in {"canceled", "failed"} THEN new
       ELSE IF complete /\ new = "running" THEN "running"
       ELSE IF complete /\ new = "finished" /\ \A d \in tk : ts[d] = "finished"
            THEN "finished"
       ELSE status[j]

(* Mutant: a task that shows up after its job has stopped is let run.        *)
ToKillNoLate(j, d, tk, ts, new) ==
    IF ~IsStopped(j) /\ ChangedStatus(j, tk, ts, new) = "failed" THEN tk ELSE {}

(* The KIL messages of the same step: a task of a stopped job is killed; a   *)
(* job that turns FAILED kills all its tasks                                 *)
(* (gebrm_app_job_controller_on_status_change).                              *)
ToKill(j, d, tk, ts, new) ==
    IF IsStopped(j) THEN {d}
    ELSE IF ChangedStatus(j, tk, ts, new) = "failed" THEN tk ELSE {}

-----------------------------------------------------------------------------
(* gebrm_app_handle_run: a job enters the table, INITIAL or, with a parent,  *)
(* QUEUED; FAILED at once when no node of the group supports its flow.       *)
Submit(j) ==
    /\ ~crashed
    /\ status[j] = "none"
    /\ \E supported \in BOOLEAN :
         /\ status' = [status EXCEPT ![j] = IF ~supported THEN "failed"
                                            ELSE IF j \in ChildJobs THEN "queued" ELSE "initial"]
         /\ waiting' = IF supported THEN waiting \cup {j} ELSE waiting
    /\ jobs' = jobs \cup {j}
    /\ UNCHANGED <<wireVars, runner, assigned, total, tasks, taskStatus,
                   tasksMap, issued, uncompleted, killed, crashed>>

(* gebr_comm_runner_run_async on the nodes of the job's group: those that    *)
(* can execute are asked for their load; with none, the job is cancelled     *)
(* (gebrm_job_kill_immediately: it has no task yet).  A job that waited its  *)
(* turn is looked up first, and one that was closed meanwhile is NULL.  The  *)
(* runner of a job that was killed while it waited may stay in the run queue *)
(* and is run all the same (JobQueue has the queues).                        *)
RunAsync(j) ==
    /\ ~crashed
    /\ j \in waiting
    /\ waiting' = waiting \ {j}
    /\ \E group \in (SUBSET Daemons) \ {{}} :
         LET asked == {d \in group : conn[d]}
         IN /\ runner' = [runner EXCEPT ![j] = asked]
            /\ status' = IF asked = {} /\ j \in jobs
                         THEN [status EXCEPT ![j] = "canceled"] ELSE status
            /\ crashed' = (asked = {} /\ j \notin jobs)
    /\ UNCHANGED <<wireVars, jobs, assigned, total, tasks, taskStatus,
                   tasksMap, issued, uncompleted, killed>>

(* Mutant: total is the number of nodes that were asked for their load.      *)
DivideTotalOfServers(j) ==
    /\ ~crashed
    /\ j \notin MpiJobs
    /\ \E d \in runner[j] : conn[d]
    /\ \E S \in (SUBSET runner[j]) \ {{}} :
         /\ assigned' = [assigned EXCEPT ![j] = S]
         /\ total' = [total EXCEPT ![j] = Cardinality(runner[j])]
         /\ uncompleted' = [d \in Daemons |-> uncompleted[d] + IF d \in S THEN 1 ELSE 0]
         /\ down' = Sent(down, S, <<Run(j)>>)
    /\ runner' = [runner EXCEPT ![j] = {}]
    /\ UNCHANGED <<conn, up, status, jobs, waiting, tasks, taskStatus, tasksMap,
                   issued, killed, crashed>>

(* The last load answer: divide_and_run_flows sends one fraction to each of  *)
(* the nodes that got a part of the work, counts the task on the node (also  *)
(* on one that was lost meanwhile), and on_execution_response sets total.    *)
DivideAndRunFlows(j) ==
    /\ ~crashed
    /\ j \notin MpiJobs
    /\ \E d \in runner[j] : conn[d]
    /\ \E S \in (SUBSET runner[j]) \ {{}} :
         /\ assigned' = [assigned EXCEPT ![j] = S]
         /\ total' = [total EXCEPT ![j] = Cardinality(S)]
         /\ uncompleted' = [d \in Daemons |-> uncompleted[d] + IF d \in S THEN 1 ELSE 0]
         /\ down' = Sent(down, S, <<Run(j)>>)
    /\ runner' = [runner EXCEPT ![j] = {}]
    /\ UNCHANGED <<conn, up, status, jobs, waiting, tasks, taskStatus, tasksMap,
                   issued, killed, crashed>>

(* mpi_run_flow: one node owns the MPI run, its task is not counted, and     *)
(* on_execution_response waits for an idle source.                           *)
MpiRunFlow(j) ==
    /\ ~crashed
    /\ j \in MpiJobs
    /\ \E d \in runner[j] : conn[d]
    /\ \E owner \in runner[j] :
         /\ assigned' = [assigned EXCEPT ![j] = {owner}]
         /\ down' = Sent(down, {owner}, <<Run(j)>>)
    /\ runner' = [runner EXCEPT ![j] = {}]
    /\ UNCHANGED <<conn, up, status, jobs, waiting, total, tasks, taskStatus, tasksMap,
                   issued, uncompleted, killed, crashed>>

(* call_ran_func, the idle source of mpi_run_flow.                           *)
MpiRan(j) ==
    /\ ~crashed
    /\ j \in MpiJobs /\ assigned[j] # {} /\ total[j] = 0
    /\ total' = [total EXCEPT ![j] = 1]
    /\ UNCHANGED <<wireVars, status, jobs, waiting, runner, assigned, tasks, taskStatus,
                   tasksMap, issued, uncompleted, killed, crashed>>

-----------------------------------------------------------------------------
(* Mutant: every report counts, RUNNING too.                                 *)
CompletedAny(d, new) == [uncompleted EXCEPT ![d] = @ - 1]

(* gebrm_daemon_on_task_status_change.                                       *)
Completed(d, new) == [uncompleted EXCEPT ![d] = IF new \in Stopped THEN @ - 1 ELSE @]

Delivers(d, op) == ~crashed /\ conn[d] /\ up[d] # <<>> /\ Head(up[d]).op = op

(* TSK: gebrm_task_new, then gebrm_app_job_controller_on_task_def, which     *)
(* gives up when the job is not in the table and otherwise appends the task  *)
(* and replays its issues and its status (RUNNING) on the job.               *)
TaskDefine(d) ==
    /\ Delivers(d, "tsk")
    /\ LET j  == Head(up[d]).job
           tk == tasks[j] \cup {d}
           ts == [taskStatus[j] EXCEPT ![d] = "running"]
           complete == Cardinality(tk) = total[j]
           replays == IF Head(up[d]).issues THEN <<Kil(j), Kil(j)>> ELSE <<Kil(j)>>
       IN /\ tasksMap' = tasksMap \cup {<<j, d>>}
          /\ taskStatus' = [taskStatus EXCEPT ![j] = ts]
          /\ IF j \notin jobs THEN UNCHANGED <<tasks, status, issued, down>>
             ELSE /\ tasks' = [tasks EXCEPT ![j] = tk]
                  /\ status' = [status EXCEPT ![j] = ChangedStatus(j, tk, ts, "running")]
                  /\ issued' = IF Head(up[d]).issues /\ complete /\ ~IsStopped(j)
                               THEN issued \cup {j} ELSE issued
                  /\ down' = Sent(down, ToKill(j, d, tk, ts, "running"), replays)
    /\ up' = Popped(up, d)
    /\ UNCHANGED <<conn, jobs, waiting, runner, assigned, total, uncompleted, killed, crashed>>

(* STA: gebrm_task_find, then gebrm_task_emit_status_changed_signal: the     *)
(* daemon's counter first, then the job, if the task was ever appended.  The *)
(* result of gebrm_task_find is not checked.                                 *)
StatusChanged(d) ==
    /\ Delivers(d, "sta")
    /\ LET j   == Head(up[d]).job
           new == Head(up[d]).status
           ts  == [taskStatus[j] EXCEPT ![d] = new]
       IN IF <<j, d>> \notin tasksMap
          THEN crashed' = TRUE /\ UNCHANGED <<taskStatus, uncompleted, status, down>>
          ELSE /\ UNCHANGED crashed
               /\ taskStatus' = [taskStatus EXCEPT ![j] = ts]
               /\ uncompleted' = Completed(d, new)
               /\ IF d \notin tasks[j] THEN UNCHANGED <<status, down>>
                  ELSE /\ status' = [status EXCEPT ![j] = ChangedStatus(j, tasks[j], ts, new)]
                       /\ down' = Sent(down, ToKill(j, d, tasks[j], ts, new), <<Kil(j)>>)
    /\ up' = Popped(up, d)
    /\ UNCHANGED <<conn, jobs, waiting, runner, assigned, total, tasks, tasksMap, issued, killed>>

-----------------------------------------------------------------------------
(* /kill, from a client that has seen the job QUEUED or RUNNING.  A QUEUED   *)
(* job is unqueued; otherwise every task the job has by now is killed.       *)
KillRequest(j) ==
    /\ ~crashed
    /\ j \in jobs \ killed
    /\ status[j] # "initial"
    /\ IF status[j] = "queued"
       THEN status' = [status EXCEPT ![j] = "canceled"] /\ UNCHANGED down
       ELSE /\ UNCHANGED status
            /\ down' = IF CanKill(j) THEN Sent(down, tasks[j], <<Kil(j)>>) ELSE down
    /\ killed' = killed \cup {j}
    /\ UNCHANGED <<conn, up, jobs, waiting, runner, assigned, total, tasks, taskStatus,
                   tasksMap, issued, uncompleted, crashed>>

(* /close, from a client that has seen the job INITIAL or stopped (gebr      *)
(* gebr_job_can_close).  gebrm_job_close may refuse; the job leaves the      *)
(* table all the same.                                                       *)
CloseRequest(j) ==
    /\ ~crashed
    /\ j \in jobs
    /\ IsStopped(j) \/ j \notin ChildJobs
    /\ IF CanClose(j)
       THEN /\ down' = Sent(down, tasks[j], <<Clr(j)>>)
            /\ tasksMap' = tasksMap \ ({j} \X tasks[j])
       ELSE UNCHANGED <<down, tasksMap>>
    /\ jobs' = jobs \ {j}
    /\ UNCHANGED <<conn, up, status, waiting, runner, assigned, total, tasks, taskStatus,
                   issued, uncompleted, killed, crashed>>

(* gebrm_server_op_state_changed with DISCONNECTED: only the counter goes.   *)
ForgetDaemon(d) ==
    /\ uncompleted' = [uncompleted EXCEPT ![d] = 0]
    /\ UNCHANGED <<status, jobs, waiting, runner, assigned, total, tasks, taskStatus,
                   tasksMap, issued, killed, crashed>>
=============================================================================
