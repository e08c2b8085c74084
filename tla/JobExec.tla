------------------------------ MODULE JobExec -------------------------------
(***************************************************************************)
(* The execution of jobs: the maestro (GebrmJob) and the daemons of its     *)
(* processing nodes (GebrdJob) joined by their connections (Wire), with the *)
(* requests of the GUI clients and the ways in which a node goes away.      *)
(***************************************************************************)
EXTENDS GebrdJob, GebrmJob

CONSTANT MaxLoss    \* bound: how often a node is lost without a clean request

ASSUME LossAssumption == MaxLoss \in Nat

VARIABLES
    losses,         \* number of losses so far
    removing        \* nodes whose "remove-immediately" is on its way to a GUI

vars == <<wireVars, gebrdVars, gebrmVars, losses, removing>>

(* The types of the maestro, of the nodes and of what is between them.       *)
TypeOK ==
    /\ WireTypeOK
    /\ GebrdTypeOK
    /\ GebrmTypeOK
    /\ losses \in Nat
    /\ removing \in SUBSET Daemons

Init ==
    /\ WireInit
    /\ GebrdInit
    /\ GebrmInit
    /\ losses = 0
    /\ removing = {}

-----------------------------------------------------------------------------
(* The maestro's end of the connection closes: gebrm_daemon_disconnect, or   *)
(* the HUP of gebr-comm-socket.c.  What the daemon has said and the maestro  *)
(* has not read is gone; what is on its way to the daemon may still arrive   *)
(* before the daemon, too, notices.                                          *)
Unplug(d) ==
    /\ conn[d]
    /\ conn' = [conn EXCEPT ![d] = FALSE]
    /\ up' = [up EXCEPT ![d] = <<>>]
    /\ ForgetDaemon(d)
    /\ UNCHANGED <<down, gebrdVars>>

(* The node, its network or its gebrd fails, or a user confirms in the       *)
(* dialog that a busy node shall be disconnected (/disconnect?confirm=yes).  *)
(* The end of a gebrd that is gone already is not a further loss.            *)
LoseDaemon(d) ==
    /\ IF alive[d] THEN losses < MaxLoss /\ losses' = losses + 1 ELSE UNCHANGED losses
    /\ Unplug(d)
    /\ UNCHANGED removing

(* Mutant: off by one in the test of the counter.                            *)
ClientDisconnectOffByOne(d) ==
    /\ ~crashed
    /\ uncompleted[d] <= 1
    /\ Unplug(d)
    /\ UNCHANGED <<losses, removing>>

(* /disconnect without a confirmation: only when no task is counted.         *)
ClientDisconnect(d) ==
    /\ ~crashed
    /\ uncompleted[d] <= 0
    /\ Unplug(d)
    /\ UNCHANGED <<losses, removing>>

(* /disconnect?confirm=remove: with no task counted, the GUI is told to go   *)
(* on by itself (CFRM remove-immediately) ...                                *)
ClientRemove(d) ==
    /\ ~crashed
    /\ conn[d] /\ uncompleted[d] <= 0 /\ d \notin removing
    /\ removing' = removing \cup {d}
    /\ UNCHANGED <<wireVars, gebrdVars, gebrmVars, losses>>

(* ... and answers /disconnect?confirm=yes, which is not checked again.      *)
RemoveYes(d) ==
    /\ ~crashed
    /\ d \in removing
    /\ removing' = removing \ {d}
    /\ Unplug(d)
    /\ UNCHANGED losses

(* A gebrd that is signalled, or that has lost its maestro, quits.           *)
DaemonQuit(d) ==
    /\ GebrdQuit(d)
    /\ IF conn[d] THEN losses < MaxLoss /\ losses' = losses + 1 ELSE UNCHANGED losses
    /\ UNCHANGED <<gebrmVars, removing>>

(* gebrm_daemon_connect: a node that was lost comes back with a new gebrd.   *)
Reconnect(d) ==
    /\ ~crashed
    /\ ~conn[d]
    /\ GebrdStart(d)
    /\ conn' = [conn EXCEPT ![d] = TRUE]
    /\ up' = [up EXCEPT ![d] = <<>>]
    /\ down' = [down EXCEPT ![d] = <<>>]
    /\ UNCHANGED <<gebrmVars, losses, removing>>

-----------------------------------------------------------------------------
Maestro(j) ==
    /\ \/ Submit(j)
       \/ RunAsync(j)
       \/ DivideAndRunFlows(j)
       \/ MpiRunFlow(j)
       \/ MpiRan(j)
       \/ KillRequest(j)
       \/ CloseRequest(j)
    /\ UNCHANGED <<gebrdVars, losses, removing>>

MaestroReceives(d) ==
    /\ TaskDefine(d) \/ StatusChanged(d)
    /\ UNCHANGED <<gebrdVars, losses, removing>>

GebrdReceives(d) ==
    /\ GebrdRun(d) \/ GebrdKil(d) \/ GebrdClr(d)
    /\ UNCHANGED <<gebrmVars, losses, removing>>

ProcessEnds(d, j) ==
    /\ ProcessFinished(d, j) \/ OrphanFinished(d, j)
    /\ UNCHANGED <<gebrmVars, losses, removing>>

NodeChanges(d) ==
    \/ LoseDaemon(d)
    \/ ClientDisconnect(d)
    \/ ClientRemove(d)
    \/ RemoveYes(d)
    \/ DaemonQuit(d)
    \/ Reconnect(d)

Work ==
    \/ \E j \in Jobs : Maestro(j)
    \/ \E d \in Daemons : MaestroReceives(d) \/ GebrdReceives(d)
    \/ \E d \in Daemons, j \in Jobs : ProcessEnds(d, j)

Next == Work \/ \E d \in Daemons : NodeChanges(d)

Spec == Init /\ [][Next]_vars

(* What the code's scheduling promises: both main loops dispatch what their  *)
(* sockets deliver, the maestro's idle source runs, an answered load request *)
(* is acted on, and a process group that got SIGKILL ends.  Nothing says     *)
(* that a user's program ends by itself or that a client asks for anything.  *)
Fairness ==
    /\ \A d \in Daemons :
         /\ WF_vars(MaestroReceives(d))
         /\ WF_vars(GebrdReceives(d))
    /\ \A j \in Jobs :
         /\ WF_vars((DivideAndRunFlows(j) \/ MpiRunFlow(j) \/ MpiRan(j)) /\ Maestro(j))
    /\ \A d \in Daemons, j \in Jobs :
         WF_vars(proc[d][j] = "dying" /\ ProcessEnds(d, j))

(* The behaviours in which no node goes away.                                *)
SteadySpec == Init /\ [][Work]_vars /\ Fairness

-----------------------------------------------------------------------------
(* Safety.                                                                   *)

Carries(ch, m) == \E i \in DOMAIN ch : ch[i] = m
TskInFlight(d, j) == \E i \in DOMAIN up[d] : up[d][i].op = "tsk" /\ up[d][i].job = j

(* A job the maestro reports FINISHED was handed out, every one of its       *)
(* fractions was announced, and each of their processes has ended with exit  *)
(* status 0: no STA that was early, late or of another fraction counts       *)
(* (gebrm_job_change_task_status).                                           *)
FinishedMeansAllOk ==
    \A j \in Jobs : status[j] = "finished" =>
        /\ assigned[j] # {} /\ tasks[j] = assigned[j]
        /\ \A d \in assigned[j] : proc[d][j] = "ok"

(* The early return for incomplete jobs in gebrm_job_change_task_status      *)
(* drops FINISHED reports, but never the one that matters: once all the      *)
(* fractions are in and all of them have finished, the job has stopped.  An  *)
(* MPI job gets its total from an idle source, and is left out.              *)
NoLostFinish ==
    \A j \in Jobs \ MpiJobs :
        tasks[j] # {} /\ tasks[j] = assigned[j]
        /\ (\A d \in tasks[j] : taskStatus[j][d] = "finished") => IsStopped(j)

(* One fraction fails and the job is FAILED: every other fraction that still *)
(* runs has been told to stop, or the message that says so is on its way, or *)
(* the maestro will be reminded by the fraction's own TSK                    *)
(* (gebrm_app_job_controller_on_status_change and the first test of          *)
(* gebrm_job_change_task_status).                                            *)
FailedToldToDie ==
    \A j \in Jobs, d \in Daemons :
        /\ status[j] = "failed" /\ gjob[d][j] = "running" /\ conn[d]
        /\ j \in jobs \/ d \in tasks[j]
        => userFinished[d][j] \/ Carries(down[d], Kil(j)) \/ TskInFlight(d, j)

(* uncompleted_tasks, on which /disconnect, /stop and the node's removal     *)
(* rely, never falls below the number of fractions that the node runs or has *)
(* been sent, through losses and reconnections (gebrm_daemon_iface_add_task, *)
(* gebrm_daemon_on_task_status_change, gebrm_server_op_state_changed).       *)
UncompletedCounts ==
    \A d \in Daemons : conn[d] /\ alive[d] =>
        uncompleted[d] >= Cardinality({j \in Jobs \ MpiJobs :
                              gjob[d][j] = "running" \/ Carries(down[d], Run(j))})

(* The same Boolean for one request: /disconnect without a confirmation      *)
(* never cuts off a node that runs a fraction.                               *)
CleanDisconnect ==
    [][\A d \in Daemons : conn[d] /\ ~conn'[d] /\ losses' = losses /\ d \notin removing
          => \A j \in Jobs : gjob[d][j] # "running"]_vars

(* The job's life as the clients are promised it (JobLifecycle).             *)
Lifecycle == INSTANCE JobLifecycle WITH
    parts <- assigned,
    done  <- [j \in Jobs |-> {d \in Daemons : proc[d][j] = "ok"}]

(* The maestro, the daemons and the network together implement JobLifecycle: *)
(* a job is split once, FINISHED is reported only when all its parts ended   *)
(* well, and FINISHED, FAILED and CANCELED are final.                        *)
ImplementsLifecycle == Lifecycle!Spec

-----------------------------------------------------------------------------
(* Liveness, under SteadySpec.                                               *)

(* A job that was handed out and not closed gets out of INITIAL and QUEUED:  *)
(* all its TSK messages are eventually counted up to total.                  *)
DispatchedStarts ==
    \A j \in Jobs \ MpiJobs :
        assigned[j] # {} ~> status[j] \in TaskStatus \/ j \notin jobs \/ crashed

(* A job that a client asks to kill does stop, whatever crosses the request: *)
(* late TSK messages, fractions that end by themselves or that fail.         *)
KillStops ==
    \A j \in Jobs : j \in killed ~> IsStopped(j) \/ crashed

(* When a job fails, the fractions that still run on other nodes end, if the *)
(* client has not closed the job before they were announced.                 *)
FailedFractionsEnd ==
    \A j \in Jobs, d \in Daemons :
        status[j] = "failed" /\ gjob[d][j] = "running"
            ~> gjob[d][j] # "running" \/ j \notin jobs \/ crashed

-----------------------------------------------------------------------------
(* An expectation that the code does not meet: a run of its own refutes it.  *)

(* The manual's jobs tab: only jobs that are not being executed can be       *)
(* cleared.  A FAILED job can be, while its other fractions still run;       *)
(* their next STA then finds no task, and the maestro dereferences NULL.     *)
ClearedNotExecuting ==
    [][\A j \in jobs \ jobs' : IsStopped(j) =>
          \A d \in Daemons : gjob[d][j] # "running"]_vars
=============================================================================
