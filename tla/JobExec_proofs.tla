--------------------------- MODULE JobExec_proofs ---------------------------
(***************************************************************************)
(* Proofs about JobExec, for every set of nodes and of jobs.                *)
(***************************************************************************)
EXTENDS JobExec, FiniteSetTheorems, TLAPS

-----------------------------------------------------------------------------
(* The channels: what Sent and Popped (the write queue and its consumer) do. *)

(* Sending messages of a type keeps the channels of that type.               *)
LEMMA SentType ==
    ASSUME NEW M, NEW ch \in [Daemons -> Seq(M)], NEW S, NEW msgs \in Seq(M)
    PROVE  Sent(ch, S, msgs) \in [Daemons -> Seq(M)]
  BY DEF Sent

(* Consuming a message keeps the channels of their type.                     *)
LEMMA PoppedType ==
    ASSUME NEW M, NEW ch \in [Daemons -> Seq(M)], NEW d \in Daemons, ch[d] # <<>>
    PROVE  Popped(ch, d) \in [Daemons -> Seq(M)]
  BY DEF Popped

(* The messages of the protocol have their types.                            *)
LEMMA MessageTypes ==
    ASSUME NEW j \in Jobs
    PROVE  /\ <<Run(j)>> \in Seq(DownMsg) /\ <<Kil(j)>> \in Seq(DownMsg)
           /\ <<Clr(j)>> \in Seq(DownMsg) /\ <<Kil(j), Kil(j)>> \in Seq(DownMsg)
           /\ \A s \in TaskStatus : <<Sta(j, s)>> \in Seq(UpMsg)
           /\ \A s \in TaskStatus, i \in BOOLEAN : <<Tsk(j, i), Sta(j, s)>> \in Seq(UpMsg)
  <1>1. Run(j) \in DownMsg /\ Kil(j) \in DownMsg /\ Clr(j) \in DownMsg
    BY DEF Run, Kil, Clr, DownMsg
  <1>2. \A s \in TaskStatus, i \in BOOLEAN : Sta(j, s) \in UpMsg /\ Tsk(j, i) \in UpMsg
    BY DEF Sta, Tsk, UpMsg
  <1>3. \A a, M : a \in M => <<a>> \in Seq(M)
    OBVIOUS
  <1>4. \A a, b, M : a \in M /\ b \in M => <<a, b>> \in Seq(M)
    OBVIOUS
  <1>5. \A s \in TaskStatus : Sta(j, s) \in UpMsg
    BY <1>2
  <1>6. QED
    BY <1>1, <1>2, <1>3, <1>4, <1>5, Zenon

(* A message at the head of a channel is of the channel's type.              *)
LEMMA HeadTypes ==
    ASSUME TypeOK, NEW d \in Daemons
    PROVE  /\ down[d] # <<>> => Head(down[d]) \in DownMsg /\ Head(down[d]).job \in Jobs
           /\ up[d] # <<>> => /\ Head(up[d]) \in UpMsg /\ Head(up[d]).job \in Jobs
                              /\ Head(up[d]).op = "tsk" => Head(up[d]).issues \in BOOLEAN
                              /\ Head(up[d]).op = "sta" => Head(up[d]).status \in TaskStatus
  <1>1. down[d] \in Seq(DownMsg) /\ up[d] \in Seq(UpMsg)
    BY DEF TypeOK, WireTypeOK
  <1>2. down[d] # <<>> => Head(down[d]) \in DownMsg
    BY <1>1
  <1>3. up[d] # <<>> => Head(up[d]) \in UpMsg
    BY <1>1
  <1>4. QED
    BY <1>2, <1>3 DEF UpMsg, DownMsg

(* A set of nodes is finite, and so has a natural number of elements.        *)
LEMMA NodesFinite ==
    ASSUME NEW S \in SUBSET Daemons
    PROVE  IsFiniteSet(S) /\ Cardinality(S) \in Nat
  BY WireAssumption, FS_Subset, FS_CardinalityType

-----------------------------------------------------------------------------
(* A job only ever takes on statuses of GebrCommJobStatus.                   *)
LEMMA ChangedStatusType ==
    ASSUME TypeOK, NEW j \in Jobs, NEW tk, NEW ts, NEW new \in TaskStatus
    PROVE  ChangedStatus(j, tk, ts, new) \in {"none"} \cup JobStatus
  BY DEF ChangedStatus, TypeOK, GebrmTypeOK, JobStatus, TaskStatus, Stopped

(* The initial state is well typed.                                          *)
LEMMA InitType == Init => TypeOK
  <1> SUFFICES ASSUME Init PROVE TypeOK
    OBVIOUS
  <1>1. WireTypeOK
    BY DEF Init, WireInit, WireTypeOK
  <1>2. GebrdTypeOK
    BY DEF Init, GebrdInit, GebrdTypeOK, ProcState
  <1>3. GebrmTypeOK
    <2>1. /\ status \in [Jobs -> {"none"} \cup JobStatus]
          /\ runner \in [Jobs -> SUBSET Daemons]
          /\ assigned \in [Jobs -> SUBSET Daemons]
          /\ tasks \in [Jobs -> SUBSET Daemons]
          /\ taskStatus \in [Jobs -> [Daemons -> {"none"} \cup TaskStatus]]
      BY DEF Init, GebrmInit
    <2>2. total \in [Jobs -> Nat] /\ uncompleted \in [Daemons -> Int]
      BY DEF Init, GebrmInit
    <2>3. QED
      BY <2>1, <2>2 DEF Init, GebrmInit, GebrmTypeOK
  <1>4. QED
    BY <1>1, <1>2, <1>3 DEF Init, TypeOK

(* What clients and the runner make the maestro do keeps the types.          *)
LEMMA MaestroType ==
    ASSUME TypeOK, NEW j \in Jobs, Maestro(j)
    PROVE  TypeOK'
  <1> USE DEF TypeOK, GebrmTypeOK, WireTypeOK
  <1>0. GebrdTypeOK' /\ losses' \in Nat /\ removing' \in SUBSET Daemons
    BY DEF Maestro, gebrdVars, GebrdTypeOK
  <1>1. CASE Submit(j)
    BY <1>0, <1>1 DEF Submit, wireVars, JobStatus, TaskStatus, Stopped
  <1>2. CASE RunAsync(j)
    BY <1>0, <1>2 DEF RunAsync, wireVars, JobStatus, TaskStatus, Stopped
  <1>3. CASE DivideAndRunFlows(j)
    <2>1. PICK S \in (SUBSET runner[j]) \ {{}} :
            /\ assigned' = [assigned EXCEPT ![j] = S]
            /\ total' = [total EXCEPT ![j] = Cardinality(S)]
            /\ uncompleted' = [d \in Daemons |-> uncompleted[d] + IF d \in S THEN 1 ELSE 0]
            /\ down' = Sent(down, S, <<Run(j)>>)
      BY <1>3 DEF DivideAndRunFlows
    <2>2. S \in SUBSET Daemons /\ Cardinality(S) \in Nat
      BY <2>1, NodesFinite
    <2>3. down' \in [Daemons -> Seq(DownMsg)]
      BY <2>1, SentType, MessageTypes
    <2>4. uncompleted' \in [Daemons -> Int]
      BY <2>1
    <2>5. assigned' \in [Jobs -> SUBSET Daemons] /\ total' \in [Jobs -> Nat]
      BY <2>1, <2>2
    <2>6. QED
      BY <1>0, <1>3, <2>3, <2>4, <2>5 DEF DivideAndRunFlows
  <1>4. CASE MpiRunFlow(j)
    <2>1. PICK owner \in runner[j] : /\ assigned' = [assigned EXCEPT ![j] = {owner}]
                                     /\ down' = Sent(down, {owner}, <<Run(j)>>)
      BY <1>4 DEF MpiRunFlow
    <2>2. down' \in [Daemons -> Seq(DownMsg)]
      BY <2>1, SentType, MessageTypes
    <2>3. QED
      BY <1>0, <1>4, <2>1, <2>2 DEF MpiRunFlow
  <1>5. CASE MpiRan(j)
    BY <1>0, <1>5 DEF MpiRan, wireVars
  <1>6. CASE KillRequest(j)
    <2>1. Sent(down, tasks[j], <<Kil(j)>>) \in [Daemons -> Seq(DownMsg)]
      BY SentType, MessageTypes
    <2>3. down' = down \/ down' = Sent(down, tasks[j], <<Kil(j)>>)
      BY <1>6 DEF KillRequest
    <2>2. QED
      BY <1>0, <1>6, <2>1, <2>3 DEF KillRequest, JobStatus, TaskStatus, Stopped
  <1>7. CASE CloseRequest(j)
    <2>1. Sent(down, tasks[j], <<Clr(j)>>) \in [Daemons -> Seq(DownMsg)]
      BY SentType, MessageTypes
    <2>2. QED
      BY <1>0, <1>7, <2>1 DEF CloseRequest
  <1>8. QED
    BY <1>1, <1>2, <1>3, <1>4, <1>5, <1>6, <1>7 DEF Maestro

(* The maestro's handlers of TSK and STA keep the types.                     *)
LEMMA MaestroReceivesType ==
    ASSUME TypeOK, NEW d \in Daemons, MaestroReceives(d)
    PROVE  TypeOK'
  <1> USE DEF TypeOK, GebrmTypeOK, WireTypeOK
  <1>0. GebrdTypeOK' /\ losses' \in Nat /\ removing' \in SUBSET Daemons
    BY DEF MaestroReceives, gebrdVars, GebrdTypeOK
  <1> DEFINE j == Head(up[d]).job
  <1>1. up[d] # <<>> /\ up' = Popped(up, d) /\ conn' = conn /\ j \in Jobs
    BY HeadTypes DEF MaestroReceives, TaskDefine, StatusChanged, Delivers
  <1>2. up' \in [Daemons -> Seq(UpMsg)]
    BY <1>1, PoppedType
  <1> HIDE DEF j
  <1>3. \A S : /\ Sent(down, S, <<Kil(j)>>) \in [Daemons -> Seq(DownMsg)]
               /\ Sent(down, S, <<Kil(j), Kil(j)>>) \in [Daemons -> Seq(DownMsg)]
    BY <1>1, SentType, MessageTypes
  <1>7. down \in [Daemons -> Seq(DownMsg)]
    OBVIOUS
  <1>4. CASE TaskDefine(d)
    <2> DEFINE tk == tasks[j] \cup {d}
               ts == [taskStatus[j] EXCEPT ![d] = "running"]
    <2>1. /\ tasksMap' = tasksMap \cup {<<j, d>>}
          /\ taskStatus' = [taskStatus EXCEPT ![j] = ts]
          /\ tasks' = tasks \/ tasks' = [tasks EXCEPT ![j] = tk]
          /\ status' = status \/ status' = [status EXCEPT ![j] = ChangedStatus(j, tk, ts, "running")]
          /\ issued' = issued \/ issued' = issued \cup {j}
          /\ UNCHANGED <<conn, jobs, waiting, runner, assigned, total, uncompleted, killed, crashed>>
      BY <1>4 DEF TaskDefine, j
    <2>2. ts \in [Daemons -> {"none"} \cup TaskStatus] /\ tk \in SUBSET Daemons
      BY <1>1 DEF TaskStatus
    <2>3. ChangedStatus(j, tk, ts, "running") \in {"none"} \cup JobStatus
      BY <1>1, ChangedStatusType DEF TaskStatus
    <2> HIDE DEF tk, ts
    <2>4. down' \in [Daemons -> Seq(DownMsg)]
      <3>1. \/ down' = down
            \/ down' = Sent(down, ToKill(j, d, tk, ts, "running"), <<Kil(j)>>)
            \/ down' = Sent(down, ToKill(j, d, tk, ts, "running"), <<Kil(j), Kil(j)>>)
        BY <1>4 DEF TaskDefine, j, tk, ts
      <3>2. \/ down' = down
            \/ \E S : \/ down' = Sent(down, S, <<Kil(j)>>)
                     \/ down' = Sent(down, S, <<Kil(j), Kil(j)>>)
        BY <3>1, Zenon
      <3>3. QED
        BY <3>2, <1>3, <1>7
    <2>5. WireTypeOK'
      BY <1>1, <1>2, <2>4
    <2>6. taskStatus' \in [Jobs -> [Daemons -> {"none"} \cup TaskStatus]]
      BY <2>1, <2>2
    <2>7. status' \in [Jobs -> {"none"} \cup JobStatus]
      BY <2>1, <2>3
    <2>8. tasks' \in [Jobs -> SUBSET Daemons]
      BY <2>1, <2>2
    <2>9. tasksMap' \in SUBSET (Jobs \X Daemons) /\ issued' \in SUBSET Jobs
      BY <1>1, <2>1
    <2>10. QED
      BY <1>0, <2>1, <2>5, <2>6, <2>7, <2>8, <2>9
  <1>5. CASE StatusChanged(d)
    <2> DEFINE new == Head(up[d]).status
               ts == [taskStatus[j] EXCEPT ![d] = new]
    <2>1. /\ taskStatus' = taskStatus \/ taskStatus' = [taskStatus EXCEPT ![j] = ts]
          /\ uncompleted' = uncompleted \/ uncompleted' = Completed(d, new)
          /\ status' = status \/ status' = [status EXCEPT ![j] = ChangedStatus(j, tasks[j], ts, new)]
          /\ down' = down \/ down' = Sent(down, ToKill(j, d, tasks[j], ts, new), <<Kil(j)>>)
          /\ crashed' \in BOOLEAN
          /\ UNCHANGED <<conn, jobs, waiting, runner, assigned, total, tasks, tasksMap, issued, killed>>
      BY <1>5 DEF StatusChanged, j
    <2>2. new \in TaskStatus
      BY <1>5, HeadTypes DEF StatusChanged, Delivers
    <2>3. ts \in [Daemons -> {"none"} \cup TaskStatus]
      BY <1>1, <2>2
    <2>4. ChangedStatus(j, tasks[j], ts, new) \in {"none"} \cup JobStatus
      BY <1>1, <2>2, ChangedStatusType
    <2> HIDE DEF new, ts
    <2>5. Completed(d, new) \in [Daemons -> Int]
      BY DEF Completed
    <2>6. down' \in [Daemons -> Seq(DownMsg)]
      <3>1. down' = down \/ \E S : down' = Sent(down, S, <<Kil(j)>>)
        BY <2>1, Zenon
      <3>2. QED
        BY <3>1, <1>3, <1>7
    <2>7. QED
      BY <1>0, <1>1, <1>2, <2>1, <2>3, <2>4, <2>5, <2>6, ZenonT(60)
  <1>6. QED
    BY <1>4, <1>5 DEF MaestroReceives

(* The handlers of RUN, KIL and CLR in gebrd keep the types.                 *)
LEMMA GebrdReceivesType ==
    ASSUME TypeOK, NEW d \in Daemons, GebrdReceives(d)
    PROVE  TypeOK'
  <1> DEFINE j == Head(down[d]).job
  <1>0. /\ gjob \in [Daemons -> [Jobs -> {"none"} \cup TaskStatus]]
        /\ proc \in [Daemons -> [Jobs -> ProcState]]
        /\ userFinished \in [Daemons -> [Jobs -> BOOLEAN]]
        /\ up \in [Daemons -> Seq(UpMsg)] /\ down \in [Daemons -> Seq(DownMsg)]
    BY DEF TypeOK, GebrdTypeOK, WireTypeOK
  <1>1. down[d] # <<>> /\ down' = Popped(down, d) /\ j \in Jobs
    BY HeadTypes DEF GebrdReceives, GebrdRun, GebrdKil, GebrdClr, Receives
  <1>2. down' \in [Daemons -> Seq(DownMsg)]
    BY <1>0, <1>1, PoppedType
  <1>3. GebrmTypeOK' /\ losses' \in Nat /\ removing' \in SUBSET Daemons
    BY DEF GebrdReceives, TypeOK, gebrmVars, GebrmTypeOK
  <1>4. conn' = conn /\ alive' = alive
    BY DEF GebrdReceives, GebrdRun, GebrdKil, GebrdClr
  <1>5. SUFFICES /\ gjob' \in [Daemons -> [Jobs -> {"none"} \cup TaskStatus]]
                 /\ proc' \in [Daemons -> [Jobs -> ProcState]]
                 /\ userFinished' \in [Daemons -> [Jobs -> BOOLEAN]]
                 /\ up' \in [Daemons -> Seq(UpMsg)]
    BY <1>2, <1>3, <1>4 DEF TypeOK, GebrdTypeOK, WireTypeOK
  <1>6. CASE GebrdRun(d)
    <2>1. PICK issues \in IssueChoices, critical_error \in BOOLEAN, group \in GroupChoices :
            /\ gjob' = [gjob EXCEPT ![d][j] = IF critical_error THEN "failed" ELSE "running"]
            /\ proc' = [proc EXCEPT ![d][j] = IF critical_error THEN @ ELSE group]
            /\ up' = Sent(up, {d}, <<Tsk(j, issues),
                                     Sta(j, IF critical_error THEN "failed" ELSE "running")>>)
      BY <1>6 DEF GebrdRun
    <2> HIDE DEF j
    <2>2. group \in ProcState /\ issues \in BOOLEAN
      BY GebrdAssumption DEF ProcState
    <2>3. (IF critical_error THEN "failed" ELSE "running") \in TaskStatus
      BY DEF TaskStatus, Stopped
    <2>4. up' \in [Daemons -> Seq(UpMsg)]
      BY <1>0, <1>1, <2>1, <2>2, <2>3, SentType, MessageTypes
    <2>5. gjob' \in [Daemons -> [Jobs -> {"none"} \cup TaskStatus]]
      BY <1>0, <1>1, <2>1, <2>3
    <2>6. proc' \in [Daemons -> [Jobs -> ProcState]]
      BY <1>0, <1>1, <2>1, <2>2
    <2>7. QED
      BY <1>0, <1>6, <2>4, <2>5, <2>6 DEF GebrdRun
  <1>7. CASE GebrdKil(d)
    <2>1. /\ up' = up /\ gjob' = gjob
          /\ proc' = proc \/ proc' = [proc EXCEPT ![d][j] = IF @ = "own" THEN "dying" ELSE @]
          /\ userFinished' = userFinished \/ userFinished' = [userFinished EXCEPT ![d][j] = TRUE]
      BY <1>7 DEF GebrdKil
    <2> HIDE DEF j
    <2>5. [proc EXCEPT ![d][j] = IF @ = "own" THEN "dying" ELSE @]
             \in [Daemons -> [Jobs -> ProcState]]
      BY <1>0, <1>1 DEF ProcState
    <2>6. [userFinished EXCEPT ![d][j] = TRUE] \in [Daemons -> [Jobs -> BOOLEAN]]
      BY <1>0, <1>1
    <2>2. proc' \in [Daemons -> [Jobs -> ProcState]]
      BY <1>0, <2>1, <2>5, Zenon
    <2>3. userFinished' \in [Daemons -> [Jobs -> BOOLEAN]]
      BY <1>0, <2>1, <2>6, Zenon
    <2>4. QED
      BY <1>0, <2>1, <2>2, <2>3
  <1>8. CASE GebrdClr(d)
    <2>1. /\ up' = up /\ proc' = proc /\ userFinished' = userFinished
          /\ gjob' = gjob \/ gjob' = [gjob EXCEPT ![d][j] = "none"]
      BY <1>8 DEF GebrdClr
    <2> HIDE DEF j
    <2>2. [gjob EXCEPT ![d][j] = "none"] \in [Daemons -> [Jobs -> {"none"} \cup TaskStatus]]
      BY <1>0, <1>1
    <2>3. gjob' \in [Daemons -> [Jobs -> {"none"} \cup TaskStatus]]
      BY <1>0, <2>1, <2>2, Zenon
    <2>4. QED
      BY <1>0, <2>1, <2>3
  <1>9. QED
    BY <1>6, <1>7, <1>8 DEF GebrdReceives

(* The end of a process keeps the types.                                     *)
LEMMA ProcessEndsType ==
    ASSUME TypeOK, NEW d \in Daemons, NEW j \in Jobs, ProcessEnds(d, j)
    PROVE  TypeOK'
  <1> USE DEF TypeOK, GebrdTypeOK, WireTypeOK
  <1>1. GebrmTypeOK' /\ losses' \in Nat /\ removing' \in SUBSET Daemons
    BY DEF ProcessEnds, gebrmVars, GebrmTypeOK
  <1>2. CASE ProcessFinished(d, j)
    <2>1. PICK exit \in {"ok", "bad"}, s \in Stopped :
            /\ proc' = [proc EXCEPT ![d][j] = exit]
            /\ gjob' = [gjob EXCEPT ![d][j] = s]
            /\ up' = Sent(up, {d}, <<Sta(j, s)>>)
      BY <1>2 DEF ProcessFinished, Stopped
    <2>2. s \in TaskStatus
      BY DEF TaskStatus
    <2>3. up' \in [Daemons -> Seq(UpMsg)]
      BY <2>1, <2>2, SentType, MessageTypes
    <2>4. QED
      BY <1>1, <1>2, <2>1, <2>2, <2>3 DEF ProcessFinished, ProcState
  <1>3. CASE OrphanFinished(d, j)
    BY <1>1, <1>3 DEF OrphanFinished, wireVars, ProcState
  <1>4. QED
    BY <1>2, <1>3 DEF ProcessEnds

(* The going and coming of nodes keeps the types.                            *)
LEMMA NodeChangesType ==
    ASSUME TypeOK, NEW d \in Daemons, NodeChanges(d)
    PROVE  TypeOK'
  <1>1. ASSUME Unplug(d) PROVE WireTypeOK' /\ GebrdTypeOK' /\ GebrmTypeOK'
    <2>1. WireTypeOK'
      BY <1>1 DEF Unplug, TypeOK, WireTypeOK
    <2>2. GebrdTypeOK'
      BY <1>1 DEF Unplug, TypeOK, GebrdTypeOK, gebrdVars
    <2>3. GebrmTypeOK'
      BY <1>1 DEF Unplug, ForgetDaemon, TypeOK, GebrmTypeOK
    <2>4. QED
      BY <2>1, <2>2, <2>3
  <1>2. CASE LoseDaemon(d) \/ ClientDisconnect(d) \/ RemoveYes(d)
    BY <1>1, <1>2 DEF LoseDaemon, ClientDisconnect, RemoveYes, TypeOK
  <1>3. CASE ClientRemove(d)
    BY <1>3 DEF ClientRemove, TypeOK, WireTypeOK, GebrdTypeOK, GebrmTypeOK,
                wireVars, gebrdVars, gebrmVars
  <1>4. CASE DaemonQuit(d)
    <2>1. PICK q \in Orders(Listed(d)) :
            up' = Sent(up, {d}, [i \in DOMAIN q |-> Sta(q[i], "failed")])
      BY <1>4 DEF DaemonQuit, GebrdQuit
    <2>2. q \in [1..Cardinality(Listed(d)) -> Jobs] /\ Cardinality(Listed(d)) \in Nat
      BY <2>1, WireAssumption, FS_Subset, FS_CardinalityType DEF Orders, Listed
    <2>3. [i \in DOMAIN q |-> Sta(q[i], "failed")] \in Seq(UpMsg)
      <3>1. \A i \in DOMAIN q : Sta(q[i], "failed") \in UpMsg
        BY <2>2 DEF Sta, UpMsg, TaskStatus, Stopped
      <3>2. QED
        BY <2>2, <3>1
    <2>4. up' \in [Daemons -> Seq(UpMsg)]
      BY <2>1, <2>3, SentType DEF TypeOK, WireTypeOK
    <2>5. GebrdTypeOK'
      BY <1>4 DEF DaemonQuit, GebrdQuit, TypeOK, GebrdTypeOK
    <2>6. GebrmTypeOK' /\ losses' \in Nat /\ removing' \in SUBSET Daemons
      BY <1>4 DEF DaemonQuit, TypeOK, GebrmTypeOK, gebrmVars
    <2>7. QED
      BY <1>4, <2>4, <2>5, <2>6 DEF DaemonQuit, GebrdQuit, TypeOK, WireTypeOK
  <1>5. CASE Reconnect(d)
    <2>1. WireTypeOK'
      BY <1>5 DEF Reconnect, TypeOK, WireTypeOK
    <2>2. GebrdTypeOK'
      BY <1>5 DEF Reconnect, GebrdStart, TypeOK, GebrdTypeOK
    <2>3. GebrmTypeOK' /\ losses' \in Nat /\ removing' \in SUBSET Daemons
      BY <1>5 DEF Reconnect, TypeOK, GebrmTypeOK, gebrmVars
    <2>4. QED
      BY <2>1, <2>2, <2>3 DEF TypeOK
  <1>6. QED
    BY <1>2, <1>3, <1>4, <1>5 DEF NodeChanges

(* Every step keeps the types.                                               *)
LEMMA NextType == TypeOK /\ [Next]_vars => TypeOK'
  <1> SUFFICES ASSUME TypeOK, [Next]_vars PROVE TypeOK'
    OBVIOUS
  <1>1. CASE UNCHANGED vars
    BY <1>1 DEF vars, wireVars, gebrdVars, gebrmVars, TypeOK, WireTypeOK,
                GebrdTypeOK, GebrmTypeOK
  <1>2. CASE Next
    BY <1>2, MaestroType, MaestroReceivesType, GebrdReceivesType,
       ProcessEndsType, NodeChangesType DEF Next, Work
  <1>3. QED
    BY <1>1, <1>2

(* The state of the maestro, of the daemons and of the channels between them *)
(* is always well formed: no handler leaves a status, a set of tasks or a    *)
(* message outside its type.                                                 *)
THEOREM TypeCorrect == Spec => []TypeOK
  BY InitType, NextType, PTL DEF Spec
=============================================================================
