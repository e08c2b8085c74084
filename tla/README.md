# A TLA+ model of GêBR

GêBR runs data-processing flows on a domain of machines. A user works in a GUI
(`src/gebr`). A *maestro* (`src/maestro`) keeps the jobs of the domain and
decides which processing nodes run them. On each node a daemon, *gebrd*
(`src/gebrd`), starts the processes. All three talk over TCP connections that
`src/libgebr/comm` opens through ssh tunnels. Each program is single-threaded
around a GLib main loop, so one callback is one atomic step. What is hard is
between the programs: messages that cross, nodes that go away, requests made
from an old picture, and the lists, counters and caches each program keeps to
have an overview. Inside the GUI the same holds between the documents on the
disk, the documents in memory and the validator that caches what it has seen of
them.

The models follow four stories: the life of a job from `/run` to its end
(JobExec, JobQueue) and what the user sees of it (Mirror); how nodes join the
domain (Connections); the variables of a flow (Validator, Dictionary); and the
projects, lines and flows on the disk (Documents).

## 1. Inventory

| Part | State | Operations | Interacts with | What makes it correct |
|---|---|---|---|---|
| Maestro, jobs and tasks (`gebrm-job.c`, `gebrm-task.c`) | status, list of tasks, total of a job; status of a task; a table of tasks | append a task, change of a task's status, kill, close, unqueue, kill immediately | told of TSK and STA by a node; sends KIL and CLR | a stopped job stays stopped; FINISHED only when every fraction ended well; no report that matters is dropped |
| Maestro, application (`gebrm-app.c`) | table of jobs, run queue, definition queue, children of each job, list of nodes, clients | `/run`, `/kill`, `/close`, `/disconnect`, `/stop`, `/remove`, `/server`, `/connect-daemons`, job, task and login signals, timers | clients (HTTP-like requests), runners, nodes | every job gets its turn, in the order of its chain, once; a failed job takes its fractions with it; clients are told the truth; connect-all goes on and ends |
| Maestro, nodes (`gebrm-daemon.c`) | connection state, ids, errors, `uncompleted_tasks`, tags | TSK, OUT, STA, login, connect, disconnect | gebrd | the counter never says idle of a node that works; one file system, one login per machine |
| Runner (`gebr-comm-runner.c`) | servers, requests, responses, scores, total | `run_async`, load answers, dispatch (divided or MPI) | nodes (`/sys-load`, RUN) | each runner runs once and gets its answers |
| gebrd (`gebrd-job.c`, `gebrd-client.c`, `gebrd.c`, `gebrd-server.c`) | list of jobs with their status and process; its one connection | RUN, KIL, CLR, end of a process, new connection, quit | maestro, operating system | what it reports is true |
| Child processes (`gebr-comm-process.c`) | pid, process group | start, kill, child watch | operating system | a kill reaches the flow |
| Protocol and sockets (`gebr-comm-protocol*.c`, `gebr-comm-socket.c`) | buffers, messages, `requests_fifo` | send, receive, disconnect | both ends | FIFO, nothing half-read, an answer goes to its request |
| Connections (`gebr-comm-server.c`) | state machine, port providers | connect, password, login, disconnect | ssh | a node that is left is left; reconnects cleanly |
| GUI, jobs (`gebr-maestro-server.c`, `gebr-job-control.c`, `gebr-job.c`, `ui_flow_execution.c`) | tables of jobs and of fake jobs, rows of the jobs tab, list of queues | JOB, STA, JCL; run, kill, close | maestro | shows and offers what the maestro has |
| Validator (`gebr-validator.c`, `gebr-arith-expr.c`) | table of variables with weights, errors and uses; stacks of documents; a bc process and the scope it was filled for | insert, remove, rename, move, change, push, pop, evaluate | documents, the dialogs | its caches follow the documents |
| GUI, dictionary (`ui_document.c`) | rows and their marks | every edit of the dialog, opening, closing | validator | a mark is what the document deserves |
| GUI, projects, lines and flows (`project.c`, `line.c`, `flow.c`, `document.c`, `ui_project_line.c`) | rows with their documents, selection, cache by name, clipboard | new, delete, move, copy, paste, import, load, save | files | memory and disk agree, nothing is lost or comes back, also when GêBR dies between two writes |
| Documents (`geoxml/*.c`) | XML trees | sequences, saving | – | order of references; the file is whole after a save |
| Menus, programs, reports, preferences, menu editor (debr), widgets, utilities | – | editing | – | not modelled |

`PROJECT.json` lists every part with its status, and under *hazards* the places
where the code is hard to test.

## 2. Modules

```
Wire            connections and messages of the old protocol
GebrdJob        gebrd and its processes               EXTENDS Wire
GebrmJob        the maestro's jobs, tasks, counters   EXTENDS Wire
JobExec         both, with losses and users           EXTENDS GebrdJob, GebrmJob
JobLifecycle    what clients are promised of a job    (abstract)
JobQueue        run queue, chains, load requests
Mirror          the client's picture of the jobs      EXTENDS JobQueue
Connections     states of nodes, connect-all, login
Validator       variables, weights, errors, bc
Dictionary      the dialog and the selection          EXTENDS Validator
Documents       projects, lines and flows, with files
MCJobExec, MCJobQueue, MCMirror, MCConnections, MCDictionary, MCDocuments
                                                      instances for TLC
JobExec_proofs        type correctness                EXTENDS JobExec, TLAPS
JobLifecycle_proofs   invariant and refinement        EXTENDS JobExec_proofs
JobReports_proofs     what is in the channels, and uncompleted_tasks
                                                      EXTENDS JobLifecycle_proofs
Lists_proofs          lemmas on lists
JobQueue_proofs       queues, chains and requests     EXTENDS JobQueue, Lists_proofs
Mirror_proofs         the client's picture            EXTENDS Mirror, JobQueue_proofs
Connections_proofs    logins, rows of the GUI, timers of connect-all
                                                      EXTENDS Connections, Lists_proofs
Documents_proofs      projects, lines and flows       EXTENDS Documents, Lists_proofs
```

**Wire.** `up[d]` and `down[d]` are the two directions of the connection with
node `d`; `conn[d]` says that the maestro's end is up. A send on a closed
connection is lost without a word (`gebr_comm_protocol_socket_oldmsg_send`). A
message is a record with the fields that matter: the job, and the issues or the
status. gebrd writes statuses as words (`status_enum_to_string`) and the
maestro reads them back (`gebrm_task_translate_status`). The two tables agree on
RUNNING, FINISHED, FAILED and CANCELED, the statuses a regular node sends, so the
message carries the status itself. What framing does to a message that arrives in
pieces is left out.

**GebrdJob.** `gjob[d][j]` is the status of the job in the list of gebrd, `proc`
the operating system's process. `GebrdRun` is the whole RUN handler: the job
enters the list, TSK is sent, then `job_run_flow` either fails (FAILED is sent,
no process) or sends RUNNING and forks. `setpgrp()` in the child and `setpgid()`
in the parent race, so the process ends up in its own group or in gebrd's
(`GroupChoices`). `killpg` reaches it in the first case only. A process killed by
a signal has `WEXITSTATUS` 0; `user_finished` makes it CANCELED. `GebrdQuit`
reports FAILED for the whole list and leaves the processes alone.

**GebrmJob.** One variable per field of the C structures, named as they are. A
fraction is named by its job and its node. `ChangedStatus` is
`gebrm_job_change_task_status`, `ToKill` the KIL messages of the same callback
(those of the early return and those of
`gebrm_app_job_controller_on_status_change`). `TaskDefine` and `StatusChanged`
are the TSK and STA handlers with everything they call. `crashed` records that
the maestro has dereferenced the NULL of a look-up; it does nothing after that.
Which nodes get a fraction depends on loads and cores and is any non-empty set of
the nodes that were asked. `waiting` abstracts the queues of JobQueue: a job may
be run at any time after it was submitted.

**JobExec** joins them and adds what happens to nodes: `LoseDaemon` (network,
node or a confirmed disconnection), `ClientDisconnect`, the two halves of a
removal (`ClientRemove`, `RemoveYes`), `DaemonQuit` and `Reconnect`. What the
maestro had not read is lost with its connection; what was on its way to gebrd may
still be handled by it.

**JobLifecycle** is the promise: a job is split once, it begins only when it has
parts, it is FINISHED only when all its parts have ended well, and FINISHED,
FAILED and CANCELED are final. JobExec implements it with `parts <- assigned` and
`done` the nodes whose process ended with status 0.

**JobQueue** has what JobExec abstracts: `job_run_queue`, `job_def_queue`, the
`children` of each job, and the `/sys-load` requests in the `requests_fifo` of
each socket. `Launch` is `gebr_comm_runner_run_async` on a set of jobs with its
consequences: a job with no node that can execute is stopped, which runs its
children, which may fail in turn (`Cascade`). What a job does when its fractions
are out is two actions here, `Starts` and `Stops`. A client acts on jobs whose
definition it has been sent (`known`); the definitions that wait in `job_def_queue`
go out in the loop over the connections, so that they stay there while nobody is
connected (`Starts`). In `/kill` the loop over the children reads
the `next` pointer of a link it has freed; the model lets it end there or go on.
The runners are those of divided flows: the idle source of an MPI run is modelled
in JobExec.

**Mirror** adds one client to JobQueue. `gui` has the tables of
`GebrMaestroServer` (jobs, and the fake jobs of requests that are not answered),
the rows of the jobs tab and `queues_model`; `wire` has the JOB, STA and JCL
messages on their way to it, `asks` its requests on their way back. Each step of
the maestro is the step of JobQueue joined with the messages its callbacks send
(`Started`, `Ended`, `Answered`, `HandleRun`, `HandleKill`, `HandleClose`), and
the client's `OnJob`, `OnSta` and `OnJcl` are the handlers of
`gebr-maestro-server.c` with the changes they cause in the job control. A request
is made from the picture the client has (`AskKill`, `AskClose`, `AskRun`) and read
by the maestro later. A client that comes back begins with empty tables and is
sent every job, in the order of a hash table: any order.

**Connections** keeps the maestro in one record `m`, and the handlers are
operators on it because they call each other: a change of state runs its callback
(`Disconnected`, `Logged`), which may go on with the next node (`Continue`), which
changes another state. `held` is the one connection a gebrd allows. Port providers
are counted: a provider that was started before a disconnection still delivers
its port. `orphans` are timers whose id was overwritten or freed with its node.
`seen` is the client's picture of the nodes (SST and SRM messages, and those that
answer its INI), as it is once the client has read what was sent.
`hampered` is history: since connect-all began, something happened that it does
not cope with (`Obstacle`).

**Validator** has the functions of `gebr-validator.c` as operators on a record
(table, cached documents, stacks, `cached_scope`, bc). A value is what it does: a
constant, a copy or the inverse of a variable, a syntax error, or nothing; bc
answers with a number or an error. Weights are integers in units of `WeightUnit`, a
power of two, so that halves are exact. **Dictionary** is the dialog, with one
action per edit, and everyone else who drives the one validator: the selection of
a flow, the check of all flows when the dialog closes, reverting to a snapshot, the
import thread that pushes the projects, lines and flows it reads. The dialog is
opened with three documents from a flow, and from the page of the lines with the
project and the line only (`Pages`). `Meanings` is the reference: what the rows
mean when they are read from the project down.

**Documents** has the data directory (`disk`: absent, broken or intact with the
names it refers to) and the process (`gui`). A handler is a sequence of writes and
a new `gui`; a save is two writes, because it truncates the file first, and a new
name is made empty by `g_mkstemp`. Each action either completes, or GêBR is killed
after any number of its writes; `Start` and `LoadProject` then follow what
`document_load_path_with_parent` does with a file it cannot parse. A line is selected
with its flows loaded or, while its maestro is not logged in, without
(`Selections`). `FlowMove` is the drag of a row of the browser: the row and the
reference it holds go before or after those of another row. Documents and
Dictionary know projects, lines and flows separately: the first as names and
files, the second as lists of variables.

## 3. Runs

All bounds are constants of the configurations; no state constraint is used.

| Run | Instance | Shows |
|---|---|---|
| `SplitJob` | 1 job, split over 2 nodes or MPI, 1 loss | `TypeOK`, `FinishedMeansAllOk`, `NoLostFinish`, `FailedToldToDie`, `ImplementsLifecycle` |
| `SharedNode` | 2 jobs (one a child), 1 node, 1 loss | `UncompletedCounts`, `CleanDisconnect` |
| `Liveness` | 1 job, 2 nodes, no loss, fair | `DispatchedStarts`, `KillStops`, `FailedFractionsEnd` |
| `RunQueue` | 3 jobs, 2 nodes, 1 loss | `TypeOK`, `HeadLaunched`, `OrderKept`, `RequestsCounted`, `RunOnce` |
| `RunQueueLive` | 3 jobs, 1 node, no loss, fair | `QueueMovesWhenUp` |
| `Mirror` | 3 jobs, 1 node, 2 requests and 2 messages under way, 1 loss of the node or the client | `MirrorTypeOK`, `MirrorRight`, `FakesPending`, `QueuesAlive`, `RowsHaveJobs`, `NoStranger` |
| `Connections` | 3 addresses of 2 machines, 2 requests, 2 port providers per address, 1 broken connection | `TypeOK`, `OneDomain`, `OneLogin`, `NodesShown`, `SomebodyTries`, `ConnectAllEnds` |
| `Dictionary` | 2 flows of a line, 3 names, 3 rows, 2 edits from either page, 1 pushed document | `TypeOK`, `StoreMatchesDocuments`, `WeightsFollowOrder`, `ShownRight`, `EvaluatesCurrent` |
| `Documents` | 2 projects, 2 lines, 3 flows, 1 death of GêBR or 1 dragged line | `TypeOK`, `MemoryIsDisk`, `BrowserInOrder`, `OneParent`, `NothingLost`, `StaysDeleted` |

Why these are enough to be interesting. Two fractions are the least that can
disagree, arrive in different orders and be missed by each other's kill; in
`SplitJob` two jobs exist, one of each kind, and behaviours submit one of them
(`AloneSpec`). Children lead their own process group in `SplitJob` and `Liveness`
and may be strays in `SharedNode` and `ClearFailed`. Two jobs on one node are the least that can confuse its counter;
the loss in between gives the doubled FAILED of `gebrd_quit`, and reconnections.
Three jobs give a chain, a queue with something behind its head, and a child whose
runner pops somebody else's entry; two nodes and a loss leave a request of a dead
connection in front of a live one. In `Mirror` two messages of the maestro under way
are the least that a request can cross, and one more than fits when a step sends
several: `MaxWire` is a guard of the maestro's steps, not a cut of what they send.
In `Connections` two addresses are one machine, the third has another file system
and a user with a public key; two requests are the least for one to meet what the
other began, and two providers of an address are the least for one to be stale. In
`Dictionary` two edits give an insertion between two rows and a change of what
another row uses; `KeepOne` keeps a variable in each flow, because what happens
when a flow has none is the subject of `StaleEvaluation`. In `Documents` a second
project and line are the least for something to be in the wrong place; three flows
are the least for `BrowserInOrder` to say something, which is about two rows beside
a reference that has none (a flow a death has broken, and the user ignores). One
death suffices because what it leaves is then loaded, changed and saved in every
way. `MaxUpsets` counts deaths and drags together, because after a drag hardly
anything is claimed.

Symmetry: nodes in `SplitJob`, jobs and nodes in `RunQueue`, jobs in `Mirror`,
projects, lines and the first two flows in `Documents` and `MovedLine` (the archive
of an imported line refers to the third); no temporal property beyond
`[][Next]` is checked under symmetry. Deadlock is checked in the runs of Dictionary
and Documents, where the user may always do something. The others may rest: all jobs
are done and no loss is left, all requests are spent.

Fairness. `SteadySpec` of JobExec and JobQueue: weak fairness of the handlers of
the two main loops for what their sockets hold, of the maestro's step after the
last load answer and of its idle source, and of the end of a process that has
SIGKILL. GLib dispatches ready sources of equal priority in turn, which justifies
the first three, and the kernel the last. Nothing is assumed of users, and nothing
of programs: a flow may run for ever. The fair specifications have no losses,
because the code promises nothing after one (it has no timeout for a load request
or for the fractions of a lost node). Connections: weak fairness of its timers
only, which GLib fires. No node has to answer.

### Where the code does not do what is said of it

Three runs expect a violation. Each states what the manual or a comment says;
`PROJECT.json` quotes the line.

| Run | Property | What happens |
|---|---|---|
| `ClearFailed` | `ClearedNotExecuting` | A FAILED job is cleared while a fraction runs; gebrd ignores the CLR, and the fraction's next STA meets a NULL task. |
| `StaleEvaluation` | `EvaluatesCurrent` | A flow without variables is selected or pushed; `cached_scope` is not reset, and bc still has the values of the flow before. |
| `MovedLine` | `MovedLineKept` | A line is dragged to another project; the rows keep the documents from before, and the next save of one of them undoes half of the move. |

`EvaluatesCurrent` also has a passing run, for flows that have variables.

Other behaviours of the code are in the models, have no run of their own, and are
why some properties are worded as they are.

Jobs:

* When the parent's `setpgid` comes last, the flow is in gebrd's process group and
  `killpg` misses it (`GroupChoices` "stray"; `KillStops` is checked for children
  that lead their own group).
* MPI runs are not counted on their node, which can then be disconnected without a
  question (`CleanDisconnect` is about jobs that are not MPI).
* A runner that could not run because its nodes are down stays at the head of the
  run queue, and nothing pops it (`HeadLaunched` allows it; `QueueMovesWhenUp`
  has the nodes up).
* The loop of `/kill` over a freed link may run the second child of a job at once
  (`KillQueued`).
* The GUI may close an INITIAL job. The TSK of its fraction then reaches the
  `g_return_if_reached` of `gebrm_app_job_controller_on_task_def`, and the
  fraction runs with no job (`TaskDefine` with `j \notin jobs`;
  `FailedToldToDie` and the liveness properties except closed jobs).
* A QUEUED job with fractions that are already announced is killed by
  `gebrm_job_unqueue`, which sends no KIL (`KillRequest`; `FailedToldToDie` is
  about FAILED only).
* A removal is checked at the question and not at the answer (`ClientRemove`,
  `RemoveYes`; `CleanDisconnect` exempts nodes in `removing`).
* The children of a job that is killed in the run queue are handed to a parent
  that has stopped, or nowhere (`KillQueued`; no property says that a QUEUED job
  is eventually run).
* A client gets the STA of a job it was never told of, and dereferences NULL: of a
  job that was cancelled before it was handed out, or one that was cleared before
  the client came back (`NoStranger` excepts them).
* A job that was cleared while its load answers were due is announced again to a
  client that came later, and its row stays (`RowsHaveJobs` is about a client that
  was there all along).

Nodes:

* A node whose login is refused is taken for a second address of a machine, and is
  removed from the list, when any node of the list has neither an id nor an error
  (`HasDuplicated`): the error types the code compares with are never set.
* Connect-all does not go past a node that logged in with a public key, stays on
  when nodes without autoconnect are left, and waits for ever for a node somebody
  else began to connect (`Obstacle`; `SomebodyTries` and `ConnectAllEnds` except
  them).
* `time_out_daemon` does not ask whether connect-all is still on: a late timer
  connects a node (`TimeOut`).
* A port provider survives the disconnection of its node and connects it again
  (`PortDefined`).
* `/connect-daemons` puts the maestro's own host on the list without telling the
  client, and `/stop` shows a node as gone before it is (`NodesShown` excepts both).
* A closed socket is noticed before what it holds is read, so that the ERR of a
  refused login may be lost (`Lost` of a socket with an answer).

Variables:

* An empty value is refused, and the variable keeps the error (`refused`).
* A new variable whose type is cancelled stays in the validator (`cancelled`).

Documents:

* After a crash a user may ignore a broken flow, which has then a reference and no
  row, as have those after a reference that was dropped. Dragging a row moves the
  reference that the row holds, so the order survives (`BrowserInOrder`, claimed
  through crashes); `line_move_flow_top` and `line_move_flow_bottom`, which would
  take the index of a row for that of a reference, are called by nobody.
* `project_delete` looks at the rows of a project only: lines that could not be
  loaded are left without one (`NothingLost` is claimed without crashes).
* Once a line was dragged most properties claim nothing (`drags`; `TypeOK` then only
  the kinds of names, not that a list has each name once), for what `MovedLine`
  shows. Deleting a dragged line keeps its file, and dragging it again may name it
  twice. A death between the two saves of the move leaves it in no project.
* An import that dies before its line is in the project leaves a line that no
  project names, with the names its archive had: they may be those of flows
  that exist or were deleted (`OneParent` and `StaysDeleted` except lines that
  are not listed).

## 4. Proofs

The theorems are for all finite sets of nodes, jobs, addresses and machines, any
subset of the jobs children or MPI jobs, any sets of names of projects, lines and
flows, and any bounds. Their assumptions are the
named ASSUMEs of the modules: finite sets, bounds that are natural numbers, and
marks for "none" that are no job, host or file system (`WireAssumption`,
`GebrdAssumption`, `KindAssumption`, `LossAssumption`, `QueueAssumption`,
`MirrorAssumption`, `ConnectionsAssumption`, `NamesAssumption`). TLC evaluates them on the instances of section 3, and the
inductive invariants were checked there before they were proved. The one further
hypothesis is `MpiJobs = {}` of two theorems about the counter, see below.

| Module | Theorem | States |
|---|---|---|
| `JobExec_proofs` | `TypeCorrect` | `TypeOK` |
| `JobLifecycle_proofs` | `ExecInvariant`, `FinishedCorrect`, `LifecycleImplemented` | `IInv`, `FinishedMeansAllOk`, `ImplementsLifecycle` |
| `JobReports_proofs` | `MessagesInvariant`, `FailedTold`, `FinishNotLost` | `RInv`, `FailedToldToDie`, `NoLostFinish` |
| | `CounterInvariant`, `CountsTasks`, `DisconnectsIdle` | `CInv`, `UncompletedCounts`, `CleanDisconnect` |
| `JobQueue_proofs` | `QueueInvariant`, `QueueTypes`, `QueueNeverRests`, `ParentFirst`, `RunnersRunOnce`, `NoRequestForgotten` | `QInv`, `TypeOK`, `HeadLaunched`, `OrderKept`, `RunOnce`, `RequestsCounted` |
| `Mirror_proofs` | `MirrorInvariant`, `MirrorTyped`, `ShownAsItIs`, `FakesAreDue` | `MInv`, `MirrorTypeOK`, `MirrorRight`, `FakesPending` |
| | `QueuesAreAlive`, `NoRowWithoutJob`, `NoStrangers` | `QueuesAlive`, `RowsHaveJobs`, `NoStranger` |
| `Connections_proofs` | `ConnectionsInvariant`, `ConnectionTypes`, `DomainIsOne`, `LoggedInOnce`, `RowsRight` | `CInv`, `TypeOK`, `OneDomain`, `OneLogin`, `NodesShown` |
| | `ConnectAllTries` | `SomebodyTries` |
| `Documents_proofs` | `DocumentsInvariant`, `MemoryStaysDisk`, `OneParentAlways`, `NothingLostUntilCrash`, `DeletedStaysDeleted` | `DInv`, `MemoryIsDisk`, `OneParent`, `NothingLost`, `StaysDeleted` |
| | `TypesUntilDrag`, `BrowserOrder` | `TypeOK` until a line is dragged, `BrowserInOrder` |

**A job is FINISHED when it is.** `FinishedMeansAllOk` is not inductive. The
maestro concludes FINISHED from the statuses of tasks, which it has from messages,
which gebrd sent when a process ended; so `IInv` follows that path backwards:

* `HandedOutOnce`: a job waits, then its runner waits for loads, then it has
  fractions, and never goes back (or a second set of fractions would make the
  first ones' reports false);
* `TotalCounts`: `tasks` is part of `assigned`, and `total`, once set, is the size
  of `assigned`; so `Cardinality(tasks) = total` means that all are there;
* `ProcessesKnown`: only fractions have processes, and a task that is FINISHED has
  a process that ended well;
* `ReportsTrue`: the same of the STA messages in flight;
* `RunsUnique`: a RUN in flight is the only one of its job and comes before the
  process, so no process that ended well is started again.

The refinement proof then needs, for each action, that it changes the mapped
variables as one action of JobLifecycle does, or not at all.

**Reports.** `NoLostFinish` is kept once `total` is known to be set together with
the fractions (`TotalSet`: `divide_and_run_flows` calls the response itself; an MPI
job waits for an idle source, and the property excepts it). `FailedToldToDie` needs
to know which messages about a fraction can be in a channel together (`RInv`):
nothing is known of it while its RUN is on its way (`RunFirst`); it is announced
once (`AnnouncedOnce`); while gebrd is up its end is reported at most once
(`EndsOnce`), and a gebrd that is down has no jobs (`DeadIdle`); and a fraction that
runs is known to the maestro or will be (`Announced`), so that the loop over the
tasks of a FAILED job misses none for good (`ToldToDie`).

**The counter.** `uncompleted_tasks` goes up when a RUN is sent and down with every
report of an end, so the invariant compares it with `Pending`, the jobs whose RUN,
process or unread report is still there: a connected node with a live gebrd counts
at least those. It is an inequality because a loss leaves counts behind. The task
of an MPI run is never added, but its end is taken off, so that it spoils the
counter for the other jobs of the node. Hence the invariant is about nodes that were
given no MPI job, and the two theorems assume `MpiJobs = {}`, as the run does.

**Queues.** A handler of the maestro prepares new queues and a set `S` of runners,
then launches `S`, and a launch that fails stops its job, which launches the
children. The parts of `QInv` are therefore stated for such a point in between:
the first of the run queue was run or is in `S`, and the rest waits, each in one
place (`InTurn`); children wait, for the job that has them (`ChildrenWait`); no
runner that was run, is in the run queue or in `S` has a parent in the table that
has not stopped (`AfterParent`); a FIFO has at most one request of a job, only of a
job that waits, and `pending` is the number of FIFOs that have one (`Requested`);
and chains do not close (`Forest`, by a rank that a kill need not change).
`Cascade` is the least set that is closed under "the children of a runner that
cannot run", which is all the proof uses of it: no induction over its length. Each
handler then has two lemmas: what it prepares satisfies the parts, and launching
keeps them.

**The client's picture.** The invariants of Mirror speak of a client that has read
everything; `MInv` says what holds before. The status the client has of a job is
the maestro's, or a message with the right one is on its way and none with a wrong
one is behind all of those (`StatusTold`; `QueueTold` for the queue): in that form it
survives both a message added at one end and one taken at the other. A job that is
handed out or refused is known or announced, and no STA of it overtakes its first
JOB (`JobShown`, which is what `NoStranger` needs). JOB and STA both carry a status,
and a JOB that was held back may meet a STA that was not: that the client is never
ahead of the maestro, nor sent back to INITIAL, is `NotAhead`. It is needed for the
list of queues, because `update_queues_model` leaves a queue alone when it hears
INITIAL (`QueueOffered`). A fake job has its request unread, its definition held
back, or a message on its way (`FakeDue`). `Cleared` is about jobs that have left
the table while the client was there: the JCL is behind all that is still said of
them. It needs that a client closes only what it knows and never a QUEUED job
(`AsksKnown`), so that no kill moves a job after it was cleared. And the definitions
the maestro holds back are of jobs that were submitted (`DefsSubmitted`), the
children it moves are QUEUED (`ChildrenQueued`), and nothing is under way for a
client that is away (`Away`).

The handlers of the maestro are those of JobQueue, whose invariant is a part of
`MInv`. Of each step the proof first finds what is said of it (`Spoken`: the
definitions of the jobs of one set, the statuses of another, all of them true) and
what it does to a job of which that much is said (`Law`: every change of a status or
a queue is said, nothing comes back to life), and concludes once for all steps that
the client is informed. The order in which a step tells of several jobs is left open
in the model, and the proof uses none.

**Connections.** The handlers call each other through callbacks, so each operator
has a lemma on what it may do to the whole list. A handler that logs no node in
either leaves the connection of a node alone or drops it (`Steady`, `Mild`);
connect-all begins the connection of nodes that wait (`Connects`); the end of a
connection does that, and disconnects its node (`Leaves`); these relations compose.
`TiedAt` ties a node to its machine: the file-system id kept for it is the machine's
or none; LOGGED and an unread answer "ok" both mean a socket that is up; a socket
that is up is the only one of its machine, whose gebrd has it as its live
connection. OneLogin needs exactly that, and OneDomain needs the id: the login compares an
id that may be left over from an earlier connection, and it is the right one. `FineAt` adds what the client
shows, and that an address that is not on the list is like a new one, so that no
late callback speaks of it.

**Connect-all.** `Attempt` strengthens `SomebodyTries`: while connect-all is on and
its history is clean, a timer runs *and* nothing is in its way now. A handler that
ends by going on with the next node leaves a timer, an obstacle, or connect-all
switched off, wherever it started from (`Tries`: each way
`gebrm_app_continue_connections_of_daemons` can do nothing is one of these, given
`verify_connect_all` after it); every other handler takes no timer away
(`Ticks`). The step that needs the second half of `Attempt` is the login of a second
address of a machine: it is turned away, which goes on with the next node, and only
then taken off the list, so the node must not itself have been the obstacle that
excused the missing timer. A node that is removed with its timer running leaves it
behind (`orphans`), and the proof needs that timer.

**Documents.** `DInv` is about the time until a line is dragged. Every document of
the disk names only documents that were made, are not deleted and have the right
kind, and no two name the same one (`Apart`; a line nobody lists may hold what its
archive had); what is in memory is of the right type and is what the disk has
(`DiskOK`, `RowsOK`, `SelectionOK`); and until the first crash everything that was
made and not deleted is named by something (`Whole`). A crash may come after any
write, so it is not enough to look at the end of a handler. The proof gives each
handler a bound on what every name may come to hold (`Within`), shows that the
bound keeps documents apart, and that each write stays under it: then so does every
prefix of the script (`ScriptOK`, `HandlerInv`). No bound serves a handler that takes a name from
one document and gives it to another; those are in two halves, the second of which
begins where the first has ended (`HalvesInv`). What the disk
holds after the whole script, which `MemoryIsDisk` and `Whole` need, is computed for
the three forms scripts have (a save, a deletion, a rest of writes). Loading a
project also writes, because it saves what it has dropped (`Resaved`): it drops only
names of documents that cannot be read. Once a line was dragged, the rows have documents
that the disk does not (`MovedLine`), and nothing is claimed.

The order of the browser (`BrowserOK`) is the order of the references among those
that are shown; what is shown comes from the cache, and a cached flow that is not
deleted has an intact file, which no handler truncates but the one that makes it.
That a drag keeps the order when rows and references have different places is a
lemma about lists (`BesideOrder`): a name that is taken out or put in moves the
places of the others alike in both (`RemovePlaces`, `InsertPlaces`).

Only model-checked:

* the invariants of Validator with Dictionary: the table, the weights and the marks
  are computed by folds over the rows of a document, and `Meanings` by recursion over
  them, so that each of the five invariants needs induction over the rows;
* the kinds of names in `TypeOK` of Documents after a drag, of which `DInv` says
  nothing;
* all liveness (`DispatchedStarts`, `KillStops`, `FailedFractionsEnd`,
  `QueueMovesWhenUp`, `ConnectAllEnds`), as fairness and `ENABLED` are beyond the
  proof system.

## 5. Not modelled

* MOAB nodes (polling of `checkjob`, QUEUED and REQUEUED tasks).
* Output, issues beyond a flag, command lines, dates and other details of a job;
  a second client.
* The framing of messages, ssh and its terminals, X11 forwarding and xauth, tags,
  groups, `/autoconnect`, configuration files, the maestro's proxy and start-up.
* Reconnection of a node by itself: `gebrm_app_daemon_on_state_change` has a branch for
  it, but `gebrm_daemon_set_reconnect` is only ever called with `FALSE`.
* The distribution of cores and iterations over nodes: any nodes may get a
  fraction.
* The lifetime of C objects, except where a look-up that may fail is used and where
  a timer outlives its node: port providers that still run when their node is removed
  are forgotten with it (`RemoveFromList`), and reading the freed link in `/kill` ends
  the loop or goes on, nothing else.
* In the validator: the variable `iter` of loops, the text of strings, ranges and
  files, documents that are NULL (so the dialog of a project with no line selected);
  two threads inside it at once.
* In the documents: a save that fails (`document_save_at` reports a full disk or a missing
  permission and goes on: the row then has what the file has not); an archive of a
  line whose flow cannot be loaded, which keeps the archive's name for it; the import
  of whole projects.
* Also in the documents: programs and parameters of a flow, snapshots beyond their
  dictionary, reports, exports, paths, the conversion of old versions.
* The GUI's remote browsing (sftp mounts), drawing, filters and groups of jobs, menus,
  preferences, the menu editor and the widgets: GTK code over documents and
  messages whose own state these models already have, or pure presentation.
* Settings, cookies, archives and helpers.

## 6. Plan

1. *Done*: Wire, GebrdJob, GebrmJob, JobExec, JobLifecycle, JobQueue; their runs;
   type correctness, `FinishedMeansAllOk` and the refinement of JobExec.
2. *Done*: Connections, Mirror, Validator, Dictionary, Documents and their runs.
3. *Done*: `NoLostFinish`, `FailedToldToDie`, `UncompletedCounts` and
   `CleanDisconnect` of JobExec, all safety of JobQueue, Mirror and Connections, and
   that of Documents until a line is dragged. *Next*: single edits of Dictionary
   (`ChangeValue`, `RemoveVar`, `RenameVar`), which fold over nothing.
4. Framing: `gebr_comm_protocol_receive_data` and the HTTP-like messages against a
   reference that cuts a stream at will.
5. MOAB nodes as a second gebrd module under the same wire.
6. Distribution: scores, cores and the proportional division, as pure operators
   checked against their reference (every core used, sums kept).
7. Remote browsing: the mount of the domain's files against the rows of the nodes.
