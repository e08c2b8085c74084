-------------------------------- MODULE Wire --------------------------------
(***************************************************************************)
(* The connections between the maestro and its daemons, and the messages    *)
(* of the "old" protocol (libgebr/comm/gebr-comm-protocol*.c) that carry    *)
(* the execution of jobs.  One TCP connection per daemon, FIFO both ways.   *)
(***************************************************************************)
EXTENDS Integers, Sequences, FiniteSets

CONSTANTS
    Daemons,    \* processing nodes the maestro knows
    Jobs        \* run ids

ASSUME WireAssumption == IsFiniteSet(Daemons) /\ IsFiniteSet(Jobs)

VARIABLES
    conn,       \* [Daemons -> BOOLEAN]: the maestro's GebrCommServer is LOGGED
    up,         \* daemon -> maestro, TSK and STA messages in flight
    down        \* maestro -> daemon, RUN, KIL and CLR messages in flight

wireVars == <<conn, up, down>>

(* GebrCommJobStatus.  "none" stands for "no such object".  A task or a      *)
(* daemon's job never is QUEUED or REQUEUED on a regular (non MOAB) node.    *)
Stopped    == {"finished", "failed", "canceled"}
TaskStatus == {"running"} \cup Stopped
JobStatus  == {"initial", "queued"} \cup TaskStatus

Run(j) == [op |-> "run", job |-> j]
Kil(j) == [op |-> "kil", job |-> j]
Clr(j) == [op |-> "clr", job |-> j]
DownMsg == [op : {"run", "kil", "clr"}, job : Jobs]

Tsk(j, issues) == [op |-> "tsk", job |-> j, issues |-> issues]
Sta(j, s)      == [op |-> "sta", job |-> j, status |-> s]
UpMsg == [op : {"tsk"}, job : Jobs, issues : BOOLEAN]
         \cup [op : {"sta"}, job : Jobs, status : TaskStatus]

(* gebr_comm_protocol_socket_oldmsg_send returns without sending when the    *)
(* socket is not connected; otherwise it appends to the write queue.         *)
Sent(ch, S, msgs) ==
    [d \in Daemons |-> IF d \in S /\ conn[d] THEN ch[d] \o msgs ELSE ch[d]]

(* g_list_last / g_list_delete_link: the oldest message is consumed.         *)
Popped(ch, d) == [ch EXCEPT ![d] = Tail(@)]

WireTypeOK ==
    /\ conn \in [Daemons -> BOOLEAN]
    /\ up \in [Daemons -> Seq(UpMsg)]
    /\ down \in [Daemons -> Seq(DownMsg)]

WireInit ==
    /\ conn = [d \in Daemons |-> TRUE]
    /\ up = [d \in Daemons |-> <<>>]
    /\ down = [d \in Daemons |-> <<>>]
=============================================================================
