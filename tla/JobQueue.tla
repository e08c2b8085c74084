------------------------------ MODULE JobQueue ------------------------------
(***************************************************************************)
(* How the maestro decides when a job runs (gebrm-app.c): the run queue,    *)
(* the list of children that wait for each job, the queue of job            *)
(* definitions the clients have not seen, and the load requests of          *)
(* GebrCommRunner (libgebr/comm/gebr-comm-runner.c) that go through the      *)
(* requests FIFO of each node's GebrCommProtocolSocket.  What a job does     *)
(* once its fractions are sent is the business of JobExec; here it runs and  *)
(* it stops.                                                                 *)
(***************************************************************************)
EXTENDS Integers, Sequences, FiniteSets, SequencesExt

CONSTANTS
    Jobs,
    Daemons,
    NoParent,       \* the empty parent_id
    MaxLoss         \* bound: how often a node's connection is lost

ASSUME QueueAssumption ==
    NoParent \notin Jobs /\ IsFiniteSet(Jobs) /\ IsFiniteSet(Daemons) /\ MaxLoss \in Nat

VARIABLES
    status,         \* GebrmJob->status, the stopped ones taken together
    jobs,           \* app->jobs
    parent,         \* parent_id as submitted
    queue,          \* info.parent_id, which a kill may change
    servers,        \* the servers the runner was made with
    phase,          \* the runner: not yet run, waiting for answers, or freed
    pending,        \* its requests minus its responses
    runQueue,       \* job_run_queue
    defQueue,       \* job_def_queue
    children,       \* the "children" data of the jobs
    known,          \* jobs whose definition the clients have got
    conn,           \* nodes that can execute
    fifo,           \* requests_fifo of the nodes' sockets
    answers,        \* /sys-load requests the node will answer
    losses,
    crashed         \* a closed job was looked up and dereferenced

jobVars  == <<status, jobs, parent, queue, servers>>
runVars  == <<phase, pending, fifo, answers>>
listVars == <<runQueue, defQueue, children, known>>
vars     == <<jobVars, runVars, listVars, conn, losses, crashed>>

Status == {"none", "initial", "queued", "running", "stopped"}
Phase  == {"none", "waiting", "asked", "dead", "ran"}

(* The types of what gebrm-app.c keeps about the jobs.                       *)
TypeOK ==
    /\ status \in [Jobs -> Status]
    /\ jobs \in SUBSET Jobs
    /\ parent \in [Jobs -> Jobs \cup {NoParent}]
    /\ queue \in [Jobs -> Jobs \cup {NoParent}]
    /\ servers \in [Jobs -> SUBSET Daemons]
    /\ phase \in [Jobs -> Phase]
    /\ pending \in [Jobs -> Nat]
    /\ runQueue \in Seq(Jobs)
    /\ defQueue \in Seq(Jobs)
    /\ children \in [Jobs -> Seq(Jobs)]
    /\ known \in SUBSET Jobs
    /\ conn \in [Daemons -> BOOLEAN]
    /\ fifo \in [Daemons -> Seq(Jobs)]
    /\ answers \in [Daemons -> Nat]
    /\ losses \in Nat
    /\ crashed \in BOOLEAN

Init ==
    /\ status = [j \in Jobs |-> "none"]
    /\ jobs = {} /\ known = {}
    /\ parent = [j \in Jobs |-> NoParent]
    /\ queue = [j \in Jobs |-> NoParent]
    /\ servers = [j \in Jobs |-> {}]
    /\ phase = [j \in Jobs |-> "none"]
    /\ pending = [j \in Jobs |-> 0]
    /\ runQueue = <<>> /\ defQueue = <<>>
    /\ children = [j \in Jobs |-> <<>>]
    /\ conn \in [Daemons -> BOOLEAN]
    /\ fifo = [d \in Daemons |-> <<>>]
    /\ answers = [d \in Daemons |-> 0]
    /\ losses = 0
    /\ crashed = FALSE

Popped(q) == IF q = <<>> THEN q ELSE Tail(q)

-----------------------------------------------------------------------------
(* Running the runners of a set S of jobs served by svs, when the children   *)
(* of the jobs are ch.  gebr_comm_runner_run_async succeeds when some server *)
(* can execute.  Otherwise gebrm_job_kill_immediately stops the job, and     *)
(* gebrm_app_job_controller_on_status_change runs its children, which may    *)
(* fail in turn: Cascade is everything that is run.                          *)
CanRun(x, svs) == \E d \in svs[x] : conn[d]

Cascade(S, svs, ch) ==
    {x \in Jobs : \A T \in SUBSET Jobs :
        S \subseteq T /\ (\A y \in T : CanRun(y, svs) \/ ToSet(ch[y]) \subseteq T)
        => x \in T}

(* The sequence of the jobs of R in the order in which all are run.          *)
InOrder(R, order) ==
    {q \in SetToSeqs(R) : \A i, k \in DOMAIN q : i < k =>
        \E a, b \in DOMAIN order : a < b /\ q[i] = order[a] /\ q[k] = order[b]}

(* st, ff and an are the statuses, the requests FIFOs and the answers due at *)
(* that point of the handler.  Each runner that runs sends one /sys-load to  *)
(* each of its servers that is there; the order of several runners in the    *)
(* FIFO is left open.                                                        *)
Launch(S, st, svs, ch, ph, pe, ff, an) ==
    LET all  == Cascade(S, svs, ch)
        dead == {x \in all : ~CanRun(x, svs)}
    IN /\ status' = [x \in Jobs |-> IF x \in dead THEN "stopped" ELSE st[x]]
       /\ phase' = [x \in Jobs |-> IF x \in dead THEN "dead"
                                   ELSE IF x \in all THEN "asked" ELSE ph[x]]
       /\ pending' = [x \in Jobs |-> IF x \in all
                                     THEN Cardinality({d \in svs[x] : conn[d]}) ELSE pe[x]]
       /\ children' = [x \in Jobs |-> IF x \in dead THEN <<>> ELSE ch[x]]
       /\ \E order \in SetToSeqs(all), sent \in [Daemons -> UNION {SetToSeqs(R) : R \in SUBSET all}] :
            /\ \A d \in Daemons : sent[d] \in InOrder({x \in all : conn[d] /\ d \in svs[x]}, order)
            /\ fifo' = [d \in Daemons |-> ff[d] \o sent[d]]
            /\ answers' = [d \in Daemons |-> an[d] + Len(sent[d])]
       /\ servers' = svs

-----------------------------------------------------------------------------
(* gebrm_app_handle_run, what all its cases share.  A job with a parent_id   *)
(* is QUEUED even when it will not wait.                                     *)
Enter(j, p) ==
    /\ ~crashed
    /\ status[j] = "none"
    /\ p \in {NoParent} \cup {x \in Jobs : status[x] # "none"}
    /\ jobs' = jobs \cup {j}
    /\ parent' = [parent EXCEPT ![j] = p]
    /\ queue' = [queue EXCEPT ![j] = p]
    /\ UNCHANGED <<conn, losses, crashed>>

(* get_comm_servers_list: one node, logged or not, or the logged nodes of a  *)
(* group.                                                                    *)
Groups == {{d} : d \in Daemons} \cup ((SUBSET {d \in Daemons : conn[d]}) \ {{}})

(* Mutant: the wrong constant for a job that waits.                          *)
EnteredRequeued(j, p) == [status EXCEPT ![j] = IF p = NoParent THEN "initial" ELSE "requeued"]

(* gebrm_job_init_details.                                                   *)
Entered(j, p) == [status EXCEPT ![j] = IF p = NoParent THEN "initial" ELSE "queued"]

(* No node of the group supports the flow: FAILED, and the clients are told. *)
RunUnsupported(j, p) ==
    /\ Enter(j, p)
    /\ status' = [status EXCEPT ![j] = "stopped"]
    /\ known' = known \cup {j}
    /\ UNCHANGED <<servers, runVars, runQueue, defQueue, children>>

(* Mutant: the test of the parent leaves INITIAL out.                        *)
RunNowInitial(j, p) ==
    /\ Enter(j, p)
    /\ p \in jobs => status[p] \in {"initial", "stopped"}
    /\ \E group \in Groups :
         Launch(IF runQueue = <<>> THEN {j} ELSE {}, Entered(j, p),
                [servers EXCEPT ![j] = group], children,
                [phase EXCEPT ![j] = "waiting"], pending, fifo, answers)
    /\ defQueue' = <<j>> \o defQueue
    /\ runQueue' = Append(runQueue, j)
    /\ UNCHANGED known

(* Without a parent that it has to wait for, the job joins the run queue,    *)
(* and is run when it is the only one there.  The runner stays in the queue  *)
(* when that fails.                                                          *)
RunNow(j, p) ==
    /\ Enter(j, p)
    /\ p \in jobs => status[p] = "stopped"
    /\ \E group \in Groups :
         LET svs == [servers EXCEPT ![j] = group]
             S   == IF runQueue = <<>> THEN {j} ELSE {}
         IN Launch(S, Entered(j, p), svs, children,
                   [phase EXCEPT ![j] = "waiting"], pending, fifo, answers)
    /\ defQueue' = <<j>> \o defQueue
    /\ runQueue' = Append(runQueue, j)
    /\ UNCHANGED known

(* g_queue_insert_after the first p.                                         *)
InsertedAfter(q, p, j) == InsertAt(q, 1 + SelectInSeq(q, LAMBDA x : x = p), j)

(* Mutant: a job that has to wait joins the run queue as well.               *)
RunAfterQueued(j, p) ==
    /\ Enter(j, p)
    /\ p \in jobs /\ status[p] # "stopped"
    /\ status' = Entered(j, p)
    /\ phase' = [phase EXCEPT ![j] = "waiting"]
    /\ \E group \in Groups : servers' = [servers EXCEPT ![j] = group]
    /\ children' = [children EXCEPT ![p] = <<j>> \o @]
    /\ runQueue' = Append(runQueue, j)
    /\ UNCHANGED <<pending, fifo, answers, defQueue, known>>

(* The job waits among its parent's children.  Its definition follows its    *)
(* parent's, or is sent at once when no definition is held back.             *)
RunAfter(j, p) ==
    /\ Enter(j, p)
    /\ p \in jobs /\ status[p] # "stopped"
    /\ status' = Entered(j, p)
    /\ phase' = [phase EXCEPT ![j] = "waiting"]
    /\ \E group \in Groups : servers' = [servers EXCEPT ![j] = group]
    /\ children' = [children EXCEPT ![p] = <<j>> \o @]
    /\ defQueue' = IF Contains(defQueue, p) THEN InsertedAfter(defQueue, p, j) ELSE defQueue
    /\ known' = IF defQueue = <<>> THEN known \cup {j} ELSE known
    /\ UNCHANGED <<pending, fifo, answers, runQueue>>

-----------------------------------------------------------------------------
(* Mutant: the next runner is not run when one is done.                      *)
ResponseNoNext(d) ==
    LET j  == Head(fifo[d])
        pe == [pending EXCEPT ![j] = @ - 1]
    IN /\ ~crashed
       /\ conn[d] /\ answers[d] > 0 /\ fifo[d] # <<>>
       /\ fifo' = [fifo EXCEPT ![d] = Tail(@)]
       /\ answers' = [answers EXCEPT ![d] = @ - 1]
       /\ pending' = pe
       /\ phase' = IF pe[j] = 0 THEN [phase EXCEPT ![j] = "ran"] ELSE phase
       /\ runQueue' = IF pe[j] = 0 THEN Popped(runQueue) ELSE runQueue
       /\ defQueue' = IF pe[j] = 0 THEN Popped(defQueue) ELSE defQueue
       /\ known' = IF pe[j] = 0 THEN known \cup {j} ELSE known
       /\ UNCHANGED <<status, servers, children, crashed, jobs, parent, queue, conn, losses>>

(* A /sys-load answer is taken for the oldest request of the socket's FIFO,  *)
(* on_response_received.  The last one sends the fractions and calls         *)
(* on_execution_response: one entry leaves each queue, whoever it belongs    *)
(* to, the clients get the definition, the next runner is run, and this one  *)
(* is freed.                                                                 *)
Response(d) ==
    LET j    == Head(fifo[d])
        ff   == [fifo EXCEPT ![d] = Tail(@)]
        an   == [answers EXCEPT ![d] = @ - 1]
        pe   == [pending EXCEPT ![j] = @ - 1]
        rq   == Popped(runQueue)
        next == IF rq = <<>> THEN {} ELSE {Head(rq)}
    IN /\ ~crashed
       /\ conn[d] /\ answers[d] > 0 /\ fifo[d] # <<>>
       /\ IF pe[j] > 0
          THEN /\ fifo' = ff /\ answers' = an /\ pending' = pe
               /\ UNCHANGED <<status, servers, phase, children, runQueue, defQueue, known, crashed>>
          ELSE /\ runQueue' = rq
               /\ defQueue' = Popped(defQueue)
               /\ known' = known \cup {j}
               /\ Launch(next, status, servers, children,
                         [phase EXCEPT ![j] = "ran"], pe, ff, an)
               /\ crashed' = \E x \in next : ~CanRun(x, servers) /\ x \notin jobs
       /\ UNCHANGED <<jobs, parent, queue, conn, losses>>

(* All the fractions of the job, which is still in the table, have been      *)
(* announced (JobExec).  On INITIAL to RUNNING the definitions that were     *)
(* held back go out, in the loop over the connections: if there is a client. *)
Starts(j, told) ==
    /\ ~crashed
    /\ j \in jobs /\ phase[j] = "ran" /\ status[j] \in {"initial", "queued"}
    /\ status' = [status EXCEPT ![j] = "running"]
    /\ IF status[j] = "initial" /\ told
       THEN known' = known \cup ToSet(defQueue) /\ defQueue' = <<>>
       ELSE UNCHANGED <<known, defQueue>>
    /\ UNCHANGED <<jobs, parent, queue, servers, runVars, runQueue, children, conn, losses, crashed>>

(* The job stops (JobExec): its children are run, past the run queue.        *)
Stops(j) ==
    /\ ~crashed
    /\ phase[j] = "ran" /\ status[j] \in {"initial", "queued", "running"}
    /\ Launch(ToSet(children[j]), [status EXCEPT ![j] = "stopped"], servers,
              [children EXCEPT ![j] = <<>>], phase, pending, fifo, answers)
    /\ UNCHANGED <<jobs, parent, queue, runQueue, defQueue, known, conn, losses, crashed>>

-----------------------------------------------------------------------------
(* /kill of a QUEUED job.  It leaves its parent's children, and its own are  *)
(* handed to the parent; the loop that does so reads the link it has just    *)
(* freed, so it may end after the first.  Then gebrm_job_unqueue stops the   *)
(* job, which runs the children that are left.  Without a parent in the      *)
(* table the new list is stored nowhere.                                     *)
Unqueue(j) ==
    /\ ~crashed
    /\ j \in jobs /\ status[j] = "queued"
    /\ \E n \in {1, Len(children[j])} :
         LET p     == queue[j]
             moved == SubSeq(children[j], 1, n)
             rest  == SubSeq(children[j], n + 1, Len(children[j]))
             ch    == [x \in Jobs |->
                         IF x = p /\ p \in jobs
                         THEN Reverse(moved) \o RemoveFirst(children[p], j)
                         ELSE IF x = j THEN <<>> ELSE children[x]]
         IN /\ n <= Len(children[j])
            /\ queue' = [x \in Jobs |-> IF x \in ToSet(moved) THEN p ELSE queue[x]]
            /\ known' = known \cup ToSet(moved)
            /\ Launch(ToSet(rest), [status EXCEPT ![j] = "stopped"], servers, ch,
                      phase, pending, fifo, answers)
    /\ UNCHANGED <<jobs, parent, runQueue, defQueue, conn, losses, crashed>>

KillQueued(j) == j \in known /\ Unqueue(j)

(* /close: the job leaves the table, also when gebrm_job_close refuses.      *)
Forget(j) ==
    /\ ~crashed
    /\ j \in jobs
    /\ jobs' = jobs \ {j}
    /\ UNCHANGED <<status, parent, queue, servers, runVars, listVars, conn, losses, crashed>>

(* A client asks for it when it sees the job INITIAL or stopped.             *)
Close(j) == j \in known /\ status[j] \in {"initial", "stopped"} /\ Forget(j)

(* on_new_connection: a client that connects is sent every job of the table. *)
ClientConnects ==
    /\ ~crashed
    /\ known' = jobs
    /\ UNCHANGED <<jobVars, runVars, runQueue, defQueue, children, conn, losses, crashed>>

(* Mutant: the FIFO is emptied and the runners that wait are not told.       *)
LoseClears(d) ==
    /\ conn[d] /\ losses < MaxLoss
    /\ losses' = losses + 1
    /\ conn' = [conn EXCEPT ![d] = FALSE]
    /\ answers' = [answers EXCEPT ![d] = 0]
    /\ fifo' = [fifo EXCEPT ![d] = <<>>]
    /\ UNCHANGED <<jobVars, phase, pending, listVars, crashed>>

(* A node goes: nothing clears the requests FIFO of its socket.              *)
Lose(d) ==
    /\ conn[d] /\ losses < MaxLoss
    /\ losses' = losses + 1
    /\ conn' = [conn EXCEPT ![d] = FALSE]
    /\ answers' = [answers EXCEPT ![d] = 0]
    /\ UNCHANGED <<jobVars, phase, pending, fifo, listVars, crashed>>

Connect(d) ==
    /\ ~conn[d]
    /\ conn' = [conn EXCEPT ![d] = TRUE]
    /\ UNCHANGED <<jobVars, runVars, listVars, losses, crashed>>

-----------------------------------------------------------------------------
Work ==
    \/ \E j \in Jobs, p \in Jobs \cup {NoParent} :
          RunUnsupported(j, p) \/ RunNow(j, p) \/ RunAfter(j, p)
    \/ \E j \in Jobs, told \in BOOLEAN : Starts(j, told)
    \/ \E j \in Jobs : Stops(j) \/ KillQueued(j) \/ Close(j)
    \/ \E d \in Daemons : Response(d)
    \/ ClientConnects

Next == Work \/ \E d \in Daemons : Lose(d) \/ Connect(d)

Spec == Init /\ [][Next]_vars

(* No node goes away: the maestro's main loop dispatches the answers.        *)
SteadySpec ==
    /\ Init /\ [][Work]_vars
    /\ \A d \in Daemons : WF_vars(Response(d))

-----------------------------------------------------------------------------
Asked(j) == phase[j] \in {"asked", "ran"}

(* The run queue never rests: whatever pops an entry, its own runner or the  *)
(* runner of a child that never was in the queue, the one that is first then *)
(* has been run (on_execution_response, gebrm_app_handle_run).               *)
HeadLaunched == runQueue # <<>> /\ ~crashed => phase[Head(runQueue)] # "waiting"

(* No runner is run a second time: not one that waits for answers, whose     *)
(* counters would start again, nor one that has been freed                   *)
(* (gebr_comm_runner_run_async has no test of its own).                      *)
RunOnce ==
    [][\A j \in Jobs :
         /\ phase[j] \in {"ran", "dead"} => phase'[j] = phase[j]
         /\ phase[j] = "asked" /\ phase'[j] = "asked" => pending'[j] <= pending[j]]_vars

(* A job is run only after the job it waits for, in the table, has stopped,  *)
(* also when the queue was mended by a kill in between.                      *)
OrderKept ==
    \A j \in Jobs : Asked(j) /\ queue[j] \in jobs => status[queue[j]] = "stopped"

(* The load answers that are due are requests of the FIFO, and every runner  *)
(* that waits is counted there, once per answer it still needs: the FIFO is  *)
(* not cleared when a node is lost, but no request is forgotten or doubled.  *)
RequestsCounted ==
    \A j \in Jobs : phase[j] = "asked" =>
        pending[j] = Cardinality({r \in Daemons \X (1..Cardinality(Jobs)) :
                                      r[2] \in DOMAIN fifo[r[1]] /\ fifo[r[1]][r[2]] = j})

(* Every job of the run queue is eventually run.  Not so when the runner of  *)
(* a job whose nodes are down is at the head: nothing pops it.               *)
QueueMoves ==
    \A j \in Jobs : Contains(runQueue, j) ~> phase[j] # "waiting"

(* The manual's flows tab: the execution starts immediately.  In a domain    *)
(* whose nodes are all up every job of the run queue gets its turn, whatever *)
(* is killed, closed or chained (on_execution_response).                     *)
QueueMovesWhenUp == (\A d \in Daemons : conn[d]) => QueueMoves

=============================================================================
