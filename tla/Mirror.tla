------------------------------- MODULE Mirror -------------------------------
(***************************************************************************)
(* What a user sees of the jobs.  The GUI keeps the jobs the maestro has     *)
(* told it of (GebrMaestroServer), the jobs it has asked for and not heard   *)
(* of (temp_jobs), the rows of the jobs tab (GebrJobControl) and the queues  *)
(* a new job may be put in (queues_model).  It lives on JOB, STA and JCL     *)
(* messages that gebrm-app.c sends around the steps of JobQueue, and its     *)
(* requests reach the maestro late, made from a picture that may be old.     *)
(* There is one client, whose connection may be lost; the maestro then goes  *)
(* on without it, and the client that comes back begins with empty tables.   *)
(***************************************************************************)
EXTENDS JobQueue

CONSTANTS
    MaxAsks,        \* bound: requests on their way to the maestro
    MaxWire,        \* bound: messages on their way when the maestro takes a step
    MaxFaults       \* bound: losses of a node or of the client's connection

ASSUME MirrorAssumption == {MaxAsks, MaxWire, MaxFaults} \subseteq Nat

VARIABLES
    gui,            \* the client
    wire,           \* messages of the maestro that the client has not read
    asks,           \* requests of the client that the maestro has not read
    returns         \* how often the client's connection was lost

mirrorVars == <<gui, wire, asks, returns>>
queueVars  == <<jobVars, runVars, listVars, conn, losses, crashed>>
allVars    == <<queueVars, mirrorVars>>

Message == [type : {"JOB", "STA", "JCL"}, job : Jobs, status : Status,
            queue : Jobs \cup {NoParent}]
Request == [op : {"run", "kill", "close"}, job : Jobs, after : Jobs \cup {NoParent}]
Client  == [on      : BOOLEAN,
            table   : [Jobs -> Status],             \* priv->jobs, "none" when absent
            queueOf : [Jobs -> Jobs \cup {NoParent}],
            temp    : SUBSET Jobs,                  \* priv->temp_jobs, the fake jobs
            rows    : SUBSET Jobs,                  \* the rows of the jobs tab
            queues  : SUBSET Jobs,                  \* priv->queues_model
            dead    : BOOLEAN]                      \* a NULL job was dereferenced

(* The types of the client and of what is under way between it and the       *)
(* maestro; no row of the jobs tab is without its job.                       *)
MirrorTypeOK ==
    /\ gui \in Client
    /\ wire \in Seq(Message)
    /\ asks \in Seq(Request)
    /\ returns \in 0..MaxFaults
    /\ \A j \in gui.rows : j \in gui.temp \/ gui.table[j] # "none"
    /\ \A j \in gui.temp : gui.table[j] = "none"

(* gebr_maestro_controller_connect makes a new GebrMaestroServer.            *)
NewClient == [on |-> TRUE, table |-> [j \in Jobs |-> "none"],
              queueOf |-> [j \in Jobs |-> NoParent],
              temp |-> {}, rows |-> {}, queues |-> {}, dead |-> FALSE]

MirrorInit ==
    /\ Init
    /\ gui = NewClient
    /\ wire = <<>> /\ asks = <<>>
    /\ returns = 0

-----------------------------------------------------------------------------
(* What the maestro says in a step, about the job as the step leaves it.     *)
JobDef(j)    == [type |-> "JOB", job |-> j, status |-> status'[j], queue |-> queue'[j]]
JobStatus(j) == [type |-> "STA", job |-> j, status |-> status'[j], queue |-> NoParent]
JobClosed(j) == [type |-> "JCL", job |-> j, status |-> "none", queue |-> NoParent]

JobDefs(q) == [i \in DOMAIN q |-> JobDef(q[i])]

(* It says it to every connection there is.                                  *)
Tells(q) == Len(wire) < MaxWire /\ wire' = IF gui.on THEN wire \o q ELSE wire

(* on_status_change, for the jobs the step has stopped, after q.             *)
TellsEnds(q) ==
    LET ended == {x \in Jobs : status[x] # "stopped" /\ status'[x] = "stopped"}
    IN \E order \in SetToSeqs(ended) : Tells(q \o [i \in DOMAIN order |-> JobStatus(order[i])])

-----------------------------------------------------------------------------
(* The maestro reads a request: gebrm_app_handle_run.  The definition of a   *)
(* job that joins the run queue, or waits behind one that has, is held back. *)
HandleRun(j, p) ==
    /\ asks # <<>> /\ Head(asks) = [op |-> "run", job |-> j, after |-> p]
    /\ asks' = Tail(asks)
    /\ \/ RunUnsupported(j, p) /\ Tells(<<JobDef(j)>>)
       \/ RunNow(j, p) /\ TellsEnds(<<>>)
       \/ RunAfter(j, p) /\ Tells(IF defQueue = <<>> THEN <<JobDef(j)>> ELSE <<>>)
    /\ UNCHANGED <<gui, returns>>

(* Mutant: the children that a kill has moved are not sent again.            *)
HandleKillSilent(j) ==
    /\ asks # <<>> /\ Head(asks) = [op |-> "kill", job |-> j, after |-> NoParent]
    /\ asks' = Tail(asks)
    /\ IF j \in jobs /\ status[j] = "queued"
       THEN Unqueue(j) /\ TellsEnds(<<>>)
       ELSE UNCHANGED <<queueVars, wire>>
    /\ UNCHANGED <<gui, returns>>

(* /kill: the children that move to another queue are sent again.  A job     *)
(* that is no longer QUEUED is killed on its nodes, and Stops will follow.   *)
HandleKill(j) ==
    /\ asks # <<>> /\ Head(asks) = [op |-> "kill", job |-> j, after |-> NoParent]
    /\ asks' = Tail(asks)
    /\ IF j \in jobs /\ status[j] = "queued"
       THEN /\ Unqueue(j)
            /\ \E moved \in SetToSeqs({x \in Jobs : queue'[x] # queue[x]}) :
                 TellsEnds(JobDefs(moved))
       ELSE UNCHANGED <<queueVars, wire>>
    /\ UNCHANGED <<gui, returns>>

(* Mutant: the clients are not told that the job was cleared.                *)
HandleCloseSilent(j) ==
    /\ asks # <<>> /\ Head(asks) = [op |-> "close", job |-> j, after |-> NoParent]
    /\ asks' = Tail(asks)
    /\ IF j \in jobs THEN Forget(j) ELSE UNCHANGED queueVars
    /\ UNCHANGED <<gui, wire, returns>>

(* /close of a job that is in the table.                                     *)
HandleClose(j) ==
    /\ asks # <<>> /\ Head(asks) = [op |-> "close", job |-> j, after |-> NoParent]
    /\ asks' = Tail(asks)
    /\ IF j \in jobs THEN Forget(j) /\ Tells(<<JobClosed(j)>>) ELSE UNCHANGED <<queueVars, wire>>
    /\ UNCHANGED <<gui, returns>>

-----------------------------------------------------------------------------
(* Mutant: what is sent is the definition that leaves the queue.             *)
AnsweredPopped(d) ==
    /\ Response(d)
    /\ TellsEnds(IF pending[Head(fifo[d])] = 1 THEN JobDefs(SubSeq(defQueue, 1, 1)) ELSE <<>>)
    /\ UNCHANGED <<gui, asks, returns>>

(* Mutant: the definition is sent to those who come later only.              *)
AnsweredSilent(d) ==
    /\ Response(d)
    /\ TellsEnds(<<>>)
    /\ UNCHANGED <<gui, asks, returns>>

(* The answer that completes a runner sends its job's definition first.      *)
Answered(d) ==
    /\ Response(d)
    /\ LET j == Head(fifo[d])
       IN TellsEnds(IF pending[j] = 1 THEN <<JobDef(j)>> ELSE <<>>)
    /\ UNCHANGED <<gui, asks, returns>>

(* on_status_change sends the STA and empties job_def_queue in its loop over *)
(* the connections: without one, the queue stays as it is.                   *)
Started(j) ==
    /\ Starts(j, gui.on)
    /\ Tells(<<JobStatus(j)>> \o IF status[j] = "initial" THEN JobDefs(defQueue) ELSE <<>>)
    /\ UNCHANGED <<gui, asks, returns>>

Ended(j) ==
    /\ Stops(j)
    /\ TellsEnds(<<>>)
    /\ UNCHANGED <<gui, asks, returns>>

Network ==
    /\ \E d \in Daemons : (losses + returns < MaxFaults /\ Lose(d)) \/ Connect(d)
    /\ UNCHANGED mirrorVars

-----------------------------------------------------------------------------
(* Mutant: a job that is stopped stays on offer as a queue.                  *)
UpdateQueuesModelKeeps(j, st) ==
    IF st \in {"queued", "running"} THEN gui.queues \cup {j} ELSE gui.queues

(* update_queues_model.                                                      *)
UpdateQueuesModel(j, st) ==
    CASE st = "stopped"               -> gui.queues \ {j}
      [] st \in {"queued", "running"} -> gui.queues \cup {j}
      [] OTHER                        -> gui.queues

(* Mutant: the fake job stays in temp_jobs.                                  *)
OnJobKeepsFake(m) ==
    [gui EXCEPT !.table[m.job] = m.status, !.queueOf[m.job] = m.queue,
                !.rows = @ \cup {m.job},
                !.queues = UpdateQueuesModel(m.job, m.status)]

(* gebr_job_control_add: a row, when there is none.                          *)
AddRow(j) == gui.rows \cup {j}

(* JOB: a job that is new, was a fake one, or has changed its queue is       *)
(* defined to the jobs tab.                                                  *)
OnJob(m) ==
    LET j == m.job
        define == gui.table[j] = "none" \/ gui.queueOf[j] # m.queue
    IN [gui EXCEPT !.table[j] = m.status, !.queueOf[j] = m.queue,
                   !.temp = @ \ {j},
                   !.rows = IF define THEN AddRow(j) ELSE @,
                   !.queues = UpdateQueuesModel(j, m.status)]

(* STA: the look-up's NULL is dereferenced for a job that is not known.      *)
OnSta(m) ==
    LET j == m.job
    IN IF gui.table[j] = "none" THEN [gui EXCEPT !.dead = TRUE]
       ELSE [gui EXCEPT !.table[j] = m.status, !.queues = UpdateQueuesModel(j, m.status)]

(* JCL: the row goes, the table keeps the job.                               *)
OnJcl(m) == IF gui.table[m.job] = "none" THEN gui ELSE [gui EXCEPT !.rows = @ \ {m.job}]

(* parse_messages.                                                           *)
Receive ==
    /\ gui.on /\ ~gui.dead /\ wire # <<>>
    /\ LET m == Head(wire)
       IN gui' = CASE m.type = "JOB" -> OnJob(m)
                   [] m.type = "STA" -> OnSta(m)
                   [] m.type = "JCL" -> OnJcl(m)
    /\ wire' = Tail(wire)
    /\ UNCHANGED <<queueVars, asks, returns>>

-----------------------------------------------------------------------------
Asks(op, j, p) ==
    LET r == [op |-> op, job |-> j, after |-> p]
    IN /\ gui.on /\ ~gui.dead
       /\ Len(asks) < MaxAsks /\ ~Contains(asks, r)
       /\ asks' = Append(asks, r)
       /\ UNCHANGED <<queueVars, wire, returns>>

(* The user runs a flow, at once, in a queue of the list, or after the flow  *)
(* that was run just before it: a fake job is shown until the maestro sends  *)
(* the real one (run_flow of ui_flow_execution.c).                           *)
AskRun(j, p) ==
    /\ status[j] = "none" /\ j \notin gui.temp
    /\ \E d \in Daemons : conn[d]
    /\ \/ p \in {NoParent} \cup gui.queues
       \/ asks # <<>> /\ Last(asks).op = "run" /\ Last(asks).job = p
    /\ Asks("run", j, p)
    /\ gui' = [gui EXCEPT !.temp = @ \cup {j}, !.rows = AddRow(j)]

(* gebr_job_kill, gebr_job_close: what the user sees decides.  Nothing is    *)
(* sent about a fake job.                                                    *)
AskKill(j) ==
    /\ j \in gui.rows \ gui.temp /\ gui.table[j] \in {"queued", "running"}
    /\ Asks("kill", j, NoParent)
    /\ UNCHANGED gui

AskClose(j) ==
    /\ j \in gui.rows \ gui.temp /\ gui.table[j] \in {"initial", "stopped"}
    /\ Asks("close", j, NoParent)
    /\ UNCHANGED gui

(* The connection is lost, or the client has died: on_client_disconnect, and *)
(* clear_jobs_for_maestro on the other side.                                 *)
ClientGoes ==
    /\ gui.on /\ losses + returns < MaxFaults
    /\ returns' = returns + 1
    /\ gui' = [NewClient EXCEPT !.on = FALSE]
    /\ wire' = <<>> /\ asks' = <<>>
    /\ UNCHANGED queueVars

(* on_new_connection: the client is sent every job of the table.             *)
ClientReturns ==
    /\ ~gui.on
    /\ gui' = NewClient
    /\ ClientConnects
    /\ \E order \in SetToSeqs(jobs) : wire' = JobDefs(order)
    /\ UNCHANGED <<asks, returns>>

-----------------------------------------------------------------------------
MirrorNext ==
    \/ \E j \in Jobs, p \in Jobs \cup {NoParent} : HandleRun(j, p) \/ AskRun(j, p)
    \/ \E j \in Jobs : HandleKill(j) \/ HandleClose(j) \/ Started(j) \/ Ended(j)
                       \/ AskKill(j) \/ AskClose(j)
    \/ \E d \in Daemons : Answered(d)
    \/ Network
    \/ Receive
    \/ ClientGoes
    \/ ClientReturns

MirrorSpec == MirrorInit /\ [][MirrorNext]_allVars

-----------------------------------------------------------------------------
Settled == gui.on /\ ~gui.dead /\ wire = <<>>

(* Once the client has read everything, it knows every job of the maestro    *)
(* that was handed out or refused, and what it shows of a job (the status,   *)
(* the queue, the row, the offer to queue behind it) is what the maestro     *)
(* has, whatever was held back, moved by a kill, or sent to an earlier       *)
(* connection.                                                               *)
MirrorRight ==
    Settled => \A j \in jobs :
        /\ phase[j] \in {"ran", "none"} => gui.table[j] # "none"
        /\ gui.table[j] # "none" =>
             /\ gui.table[j] = status[j]
             /\ gui.queueOf[j] = queue[j]
             /\ j \in gui.rows
             /\ j \in gui.queues <=> status[j] \in {"queued", "running"}

(* A fake row is the row of a job that the maestro has still to read of, or  *)
(* still holds back: no fake row stays for ever beside the real job, or      *)
(* without one.                                                              *)
FakesPending ==
    Settled => \A j \in gui.temp :
        \/ Contains(asks, [op |-> "run", job |-> j, after |-> NoParent])
        \/ \E p \in Jobs : Contains(asks, [op |-> "run", job |-> j, after |-> p])
        \/ j \in jobs /\ phase[j] \in {"waiting", "asked"}

(* A queue the user may choose is a job that has not stopped: a job that is  *)
(* put behind it waits for something.                                        *)
QueuesAlive ==
    Settled => \A j \in gui.queues : status[j] # "stopped"

(* The maestro sends the status of a job only after its definition, so that  *)
(* the client never looks up a job it does not know, except for a job that   *)
(* was stopped before it was handed out, and for one that was cleared before *)
(* this client came.                                                         *)
NoStranger ==
    [][gui'.dead /\ ~gui.dead =>
         phase[Head(wire).job] = "dead" \/ Head(wire).job \notin jobs]_allVars

(* A client that was there all along shows no row of a job that was cleared. *)
(* One that came later may: on_execution_response sends the definition of a  *)
(* job that was cleared while its answers were due, and the row stays.       *)
RowsHaveJobs == Settled /\ returns = 0 => gui.rows \subseteq jobs \cup gui.temp
=============================================================================
