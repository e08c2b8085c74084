------------------------ MODULE JobLifecycle_proofs -------------------------
(***************************************************************************)
(* Proof that JobExec implements JobLifecycle, and that FINISHED means what  *)
(* it says, for every set of nodes and of jobs.                              *)
(***************************************************************************)
EXTENDS JobExec_proofs

-----------------------------------------------------------------------------
(* The inductive invariant.                                                  *)

(* A job is handed out once: before it waits for its turn, then for the load *)
(* of its nodes, then it has fractions.                                      *)
HandedOutOnce ==
    \A j \in Jobs :
        /\ j \in waiting => /\ runner[j] = {} /\ assigned[j] = {}
                            /\ status[j] \in {"initial", "queued", "canceled"}
        /\ runner[j] # {} => assigned[j] = {} /\ status[j] # "none"
        /\ assigned[j] # {} => status[j] # "none"

(* The tasks of a job are fractions of it, and total, once set, is the       *)
(* number of its fractions.                                                  *)
TotalCounts ==
    \A j \in Jobs :
        /\ tasks[j] \subseteq assigned[j]
        /\ total[j] = 0 \/ total[j] = Cardinality(assigned[j])
        /\ j \in MpiJobs /\ assigned[j] # {} => Cardinality(assigned[j]) = 1

(* Only fractions have processes and are known to gebrd, and a task is       *)
(* FINISHED only when its process has ended well.                            *)
ProcessesKnown ==
    \A j \in Jobs, d \in Daemons :
        /\ proc[d][j] # "none" \/ gjob[d][j] # "none" => d \in assigned[j]
        /\ taskStatus[j][d] = "finished" => proc[d][j] = "ok"

(* So do the messages on their way to the maestro say.                       *)
ReportsTrue ==
    \A d \in Daemons : \A i \in DOMAIN up[d] :
        /\ d \in assigned[up[d][i].job]
        /\ up[d][i].op = "sta" /\ up[d][i].status = "finished"
           => proc[d][up[d][i].job] = "ok"

(* A RUN on its way to a node is the only one for that job, and comes before *)
(* the fraction's process.                                                   *)
RunsUnique ==
    \A d \in Daemons : \A i \in DOMAIN down[d] : down[d][i].op = "run" =>
        /\ d \in assigned[down[d][i].job]
        /\ proc[d][down[d][i].job] = "none"
        /\ \A k \in DOMAIN down[d] :
              down[d][k].op = "run" /\ down[d][k].job = down[d][i].job => k = i

ExecInv ==
    /\ HandedOutOnce
    /\ TotalCounts
    /\ ProcessesKnown
    /\ ReportsTrue
    /\ RunsUnique
    /\ FinishedMeansAllOk

IInv == TypeOK /\ ExecInv

-----------------------------------------------------------------------------
(* The elements of a channel after a send or a receipt.                      *)

(* An element of a channel that was written to is an old one in its place or *)
(* one of the new ones.                                                      *)
LEMMA SentElement ==
    ASSUME NEW M, NEW ch \in [Daemons -> Seq(M)], NEW S, NEW msgs \in Seq(M),
           NEW d \in Daemons, NEW i \in DOMAIN Sent(ch, S, msgs)[d]
    PROVE  \/ i \in DOMAIN ch[d] /\ Sent(ch, S, msgs)[d][i] = ch[d][i]
           \/ /\ d \in S /\ i \in Int /\ i - Len(ch[d]) \in DOMAIN msgs
              /\ Sent(ch, S, msgs)[d][i] = msgs[i - Len(ch[d])]
  BY DEF Sent

(* An element of a channel whose head was taken was behind the head.         *)
LEMMA PoppedElement ==
    ASSUME NEW M, NEW ch \in [Daemons -> Seq(M)], NEW d \in Daemons, ch[d] # <<>>,
           NEW e \in Daemons, NEW i \in DOMAIN Popped(ch, d)[e]
    PROVE  \E n \in {0, 1} : /\ i \in Int /\ i + n \in DOMAIN ch[e] /\ n = (IF e = d THEN 1 ELSE 0)
                             /\ Popped(ch, d)[e][i] = ch[e][i + n]
  BY DEF Popped

(* The reports stay true when true reports are added.                        *)
LEMMA ReportsSent ==
    ASSUME TypeOK, ReportsTrue, NEW S, NEW msgs \in Seq(UpMsg),
           up' = Sent(up, S, msgs), assigned' = assigned,
           \A d \in Daemons, j \in Jobs : proc[d][j] = "ok" => proc'[d][j] = "ok",
           \A d \in Daemons, n \in DOMAIN msgs : d \in S =>
               /\ d \in assigned[msgs[n].job]
               /\ msgs[n].op = "sta" /\ msgs[n].status = "finished"
                  => proc'[d][msgs[n].job] = "ok"
    PROVE  ReportsTrue'
  <1> SUFFICES ASSUME NEW d \in Daemons, NEW i \in DOMAIN up'[d]
               PROVE  /\ d \in assigned[up'[d][i].job]
                      /\ up'[d][i].op = "sta" /\ up'[d][i].status = "finished"
                         => proc'[d][up'[d][i].job] = "ok"
    BY DEF ReportsTrue
  <1>1. up \in [Daemons -> Seq(UpMsg)] /\ \A k \in DOMAIN up[d] : up[d][k].job \in Jobs
    BY DEF TypeOK, WireTypeOK, UpMsg
  <1>2. CASE i \in DOMAIN up[d] /\ up'[d][i] = up[d][i]
    BY <1>1, <1>2 DEF ReportsTrue
  <1>3. CASE d \in S /\ i - Len(up[d]) \in DOMAIN msgs /\ up'[d][i] = msgs[i - Len(up[d])]
    BY <1>3
  <1>4. QED
    BY <1>1, <1>2, <1>3, SentElement

(* The reports stay true when one is read.                                   *)
LEMMA ReportsPopped ==
    ASSUME TypeOK, ReportsTrue, NEW d \in Daemons, up[d] # <<>>,
           up' = Popped(up, d), assigned' = assigned, proc' = proc
    PROVE  ReportsTrue'
  <1> SUFFICES ASSUME NEW e \in Daemons, NEW i \in DOMAIN up'[e]
               PROVE  /\ e \in assigned[up'[e][i].job]
                      /\ up'[e][i].op = "sta" /\ up'[e][i].status = "finished"
                         => proc[e][up'[e][i].job] = "ok"
    BY DEF ReportsTrue
  <1>1. up \in [Daemons -> Seq(UpMsg)]
    BY DEF TypeOK, WireTypeOK
  <1>2. PICK n \in {0, 1} : i + n \in DOMAIN up[e] /\ up'[e][i] = up[e][i + n]
    BY <1>1, PoppedElement
  <1>3. QED
    BY <1>2 DEF ReportsTrue

(* A RUN stays unique when other messages are sent.                          *)
LEMMA RunsSent ==
    ASSUME TypeOK, RunsUnique, NEW S, NEW msgs \in Seq(DownMsg),
           down' = Sent(down, S, msgs), assigned' = assigned, proc' = proc,
           \A n \in DOMAIN msgs : msgs[n].op # "run"
    PROVE  RunsUnique'
  <1>1. ASSUME NEW d \in Daemons, NEW i \in DOMAIN down'[d], down'[d][i].op = "run"
        PROVE  i \in DOMAIN down[d] /\ down'[d][i] = down[d][i]
    <2>1. down \in [Daemons -> Seq(DownMsg)]
      BY DEF TypeOK, WireTypeOK
    <2>2. \/ i \in DOMAIN down[d] /\ down'[d][i] = down[d][i]
          \/ i - Len(down[d]) \in DOMAIN msgs /\ down'[d][i] = msgs[i - Len(down[d])]
      BY <2>1, SentElement
    <2>3. QED
      BY <1>1, <2>2
  <1>2. QED
    BY <1>1 DEF RunsUnique

(* A RUN stays unique, and ahead of its process, when a message is read: only *)
(* the RUN that is read may start one.                                       *)
LEMMA RunsPopped ==
    ASSUME TypeOK, RunsUnique, NEW d \in Daemons, down[d] # <<>>,
           down' = Popped(down, d), assigned' = assigned,
           \A e \in Daemons, j \in Jobs : proc[e][j] = "none" /\ proc'[e][j] # "none" =>
               e = d /\ j = Head(down[d]).job /\ Head(down[d]).op = "run"
    PROVE  RunsUnique'
  <1> SUFFICES ASSUME NEW e \in Daemons, NEW i \in DOMAIN down'[e], down'[e][i].op = "run"
               PROVE  /\ e \in assigned[down'[e][i].job]
                      /\ proc'[e][down'[e][i].job] = "none"
                      /\ \A k \in DOMAIN down'[e] :
                           down'[e][k].op = "run" /\ down'[e][k].job = down'[e][i].job => k = i
    BY DEF RunsUnique
  <1>1. down \in [Daemons -> Seq(DownMsg)] /\ \A k \in DOMAIN down[e] : down[e][k].job \in Jobs
    <2>1. down \in [Daemons -> Seq(DownMsg)]
      BY DEF TypeOK, WireTypeOK
    <2>2. \A k \in DOMAIN down[e] : down[e][k] \in DownMsg
      BY <2>1
    <2>3. QED
      BY <2>1, <2>2 DEF DownMsg
  <1> DEFINE n == IF e = d THEN 1 ELSE 0
  <1>2. \A k \in DOMAIN down'[e] :
            k \in Int /\ k >= 1 /\ k + n \in DOMAIN down[e] /\ down'[e][k] = down[e][k + n]
    BY <1>1, PoppedElement DEF Popped
  <1>3. e = d => 1 \in DOMAIN down[e] /\ Head(down[d]) = down[e][1] /\ i + n # 1
    BY <1>1, <1>2
  <1>4. /\ i + n \in DOMAIN down[e] /\ down'[e][i] = down[e][i + n]
        /\ e \in assigned[down[e][i + n].job]
        /\ proc[e][down[e][i + n].job] = "none"
        /\ \A k \in DOMAIN down[e] :
             down[e][k].op = "run" /\ down[e][k].job = down[e][i + n].job => k = i + n
    <2>1. i + n \in DOMAIN down[e] /\ down'[e][i] = down[e][i + n]
      BY <1>2
    <2>2. down[e][i + n].op = "run"
      BY <2>1
    <2> HIDE DEF n
    <2>3. QED
      BY <2>1, <2>2, Zenon DEF RunsUnique
  <1> HIDE DEF n
  <1>5. proc'[e][down'[e][i].job] = "none"
    <2>1. SUFFICES ASSUME proc'[e][down[e][i + n].job] # "none" PROVE FALSE
      BY <1>4
    <2>2. down[e][i + n].job \in Jobs
      BY <1>1, <1>4
    <2>3. e = d /\ down[e][i + n].job = Head(down[d]).job /\ Head(down[d]).op = "run"
      BY <1>4, <2>1, <2>2
    <2>4. QED
      BY <1>3, <1>4, <2>3
  <1>6. ASSUME NEW k \in DOMAIN down'[e], down'[e][k].op = "run",
               down'[e][k].job = down'[e][i].job
        PROVE  k = i
    <2>1. k + n = i + n
      BY <1>2, <1>4, <1>6
    <2>2. k \in Int /\ i \in Int /\ n \in Int
      BY <1>2 DEF n
    <2>3. QED
      BY <2>1, <2>2
  <1>7. QED
    BY <1>4, <1>5, <1>6

(* No RUN is among the KIL and CLR messages that the maestro sends.          *)
LEMMA RunsKept ==
    ASSUME TypeOK, RunsUnique, NEW j \in Jobs, assigned' = assigned, proc' = proc,
           \/ down' = down
           \/ \E S : \/ down' = Sent(down, S, <<Kil(j)>>)
                    \/ down' = Sent(down, S, <<Kil(j), Kil(j)>>)
                    \/ down' = Sent(down, S, <<Clr(j)>>)
    PROVE  RunsUnique'
  <1>1. CASE down' = down
    BY <1>1 DEF RunsUnique
  <1>2. \A m \in {<<Kil(j)>>, <<Kil(j), Kil(j)>>, <<Clr(j)>>} :
            m \in Seq(DownMsg) /\ \A n \in DOMAIN m : m[n].op # "run"
    <2>1. \A n \in DOMAIN <<Kil(j)>> : <<Kil(j)>>[n].op # "run"
      BY DEF Kil
    <2>2. \A n \in DOMAIN <<Kil(j), Kil(j)>> : <<Kil(j), Kil(j)>>[n].op # "run"
      BY DEF Kil
    <2>3. \A n \in DOMAIN <<Clr(j)>> : <<Clr(j)>>[n].op # "run"
      BY DEF Clr
    <2>4. QED
      BY <2>1, <2>2, <2>3, MessageTypes, Zenon
  <1>3. ASSUME NEW S, NEW m \in {<<Kil(j)>>, <<Kil(j), Kil(j)>>, <<Clr(j)>>},
               down' = Sent(down, S, m)
        PROVE  RunsUnique'
    BY <1>2, <1>3, RunsSent
  <1>4. CASE \E S, m : m \in {<<Kil(j)>>, <<Kil(j), Kil(j)>>, <<Clr(j)>>} /\ down' = Sent(down, S, m)
    BY <1>3, <1>4, Zenon
  <1>5. QED
    BY <1>1, <1>4, Zenon

-----------------------------------------------------------------------------
(* The invariant holds at the start.                                         *)
LEMMA InitInv == Init => IInv
  <1> SUFFICES ASSUME Init PROVE IInv
    OBVIOUS
  <1>1. TypeOK
    BY InitType
  <1>2. HandedOutOnce /\ FinishedMeansAllOk
    BY DEF Init, GebrmInit, HandedOutOnce, FinishedMeansAllOk
  <1>3. TotalCounts
    BY DEF Init, GebrmInit, TotalCounts
  <1>4. ProcessesKnown
    BY DEF Init, GebrmInit, GebrdInit, ProcessesKnown
  <1>5. ReportsTrue /\ RunsUnique
    BY DEF Init, WireInit, ReportsTrue, RunsUnique
  <1>6. QED
    BY <1>1, <1>2, <1>3, <1>4, <1>5 DEF IInv, ExecInv

(* gebrm_app_handle_run keeps the invariant.                                 *)
LEMMA SubmitInv ==
    ASSUME IInv, NEW j \in Jobs, Submit(j), UNCHANGED gebrdVars
    PROVE  ExecInv'
  <1>1. TypeOK
    BY DEF IInv
  <1>2. status \in [Jobs -> {"none"} \cup JobStatus]
    BY <1>1 DEF TypeOK, GebrmTypeOK
  <1>3. /\ status[j] = "none" /\ waiting' \subseteq waiting \cup {j}
        /\ status' \in {[status EXCEPT ![j] = s] : s \in {"initial", "queued", "failed"}}
        /\ status'[j] = "failed" => waiting' = waiting
        /\ UNCHANGED <<up, down, runner, assigned, total, tasks, taskStatus, proc, gjob>>
    BY <1>2 DEF Submit, wireVars, gebrdVars
  <1>4. HandedOutOnce'
    BY <1>2, <1>3 DEF IInv, ExecInv, HandedOutOnce
  <1>5. FinishedMeansAllOk'
    BY <1>2, <1>3 DEF IInv, ExecInv, FinishedMeansAllOk
  <1>6. QED
    BY <1>3, <1>4, <1>5 DEF IInv, ExecInv, TotalCounts, ProcessesKnown, ReportsTrue, RunsUnique

(* gebr_comm_runner_run_async keeps the invariant.                           *)
LEMMA RunAsyncInv ==
    ASSUME IInv, NEW j \in Jobs, RunAsync(j), UNCHANGED gebrdVars
    PROVE  ExecInv'
  <1>1. TypeOK
    BY DEF IInv
  <1>2. /\ status \in [Jobs -> {"none"} \cup JobStatus]
        /\ runner \in [Jobs -> SUBSET Daemons]
    BY <1>1 DEF TypeOK, GebrmTypeOK
  <1>3. /\ j \in waiting /\ waiting' = waiting \ {j}
        /\ \E asked : runner' = [runner EXCEPT ![j] = asked]
        /\ status' = status \/ status' = [status EXCEPT ![j] = "canceled"]
        /\ UNCHANGED <<up, down, assigned, total, tasks, taskStatus, proc, gjob>>
    BY DEF RunAsync, wireVars, gebrdVars
  <1>4. HandedOutOnce'
    BY <1>2, <1>3 DEF IInv, ExecInv, HandedOutOnce
  <1>5. FinishedMeansAllOk'
    BY <1>2, <1>3 DEF IInv, ExecInv, FinishedMeansAllOk
  <1>6. QED
    BY <1>3, <1>4, <1>5 DEF IInv, ExecInv, TotalCounts, ProcessesKnown, ReportsTrue, RunsUnique

(* Handing the fractions out keeps the invariant: the job had none.          *)
LEMMA DispatchInv ==
    ASSUME IInv, NEW j \in Jobs, DivideAndRunFlows(j) \/ MpiRunFlow(j), UNCHANGED gebrdVars
    PROVE  ExecInv'
  <1>1. TypeOK
    BY DEF IInv
  <1>2. /\ status \in [Jobs -> {"none"} \cup JobStatus]
        /\ runner \in [Jobs -> SUBSET Daemons]
        /\ assigned \in [Jobs -> SUBSET Daemons]
        /\ tasks \in [Jobs -> SUBSET Daemons]
        /\ total \in [Jobs -> Nat]
        /\ proc \in [Daemons -> [Jobs -> ProcState]]
        /\ up \in [Daemons -> Seq(UpMsg)] /\ down \in [Daemons -> Seq(DownMsg)]
    BY <1>1 DEF TypeOK, GebrmTypeOK, GebrdTypeOK, WireTypeOK
  <1>3. PICK S \in SUBSET Daemons :
          /\ S # {} /\ runner[j] # {}
          /\ assigned' = [assigned EXCEPT ![j] = S]
          /\ \/ total' = [total EXCEPT ![j] = Cardinality(S)] /\ j \notin MpiJobs
             \/ total' = total /\ Cardinality(S) = 1
          /\ down' = Sent(down, S, <<Run(j)>>)
          /\ runner' = [runner EXCEPT ![j] = {}]
    <2>1. CASE DivideAndRunFlows(j)
      <3>1. PICK S \in (SUBSET runner[j]) \ {{}} :
              /\ assigned' = [assigned EXCEPT ![j] = S]
              /\ total' = [total EXCEPT ![j] = Cardinality(S)]
              /\ down' = Sent(down, S, <<Run(j)>>)
        BY <2>1 DEF DivideAndRunFlows
      <3>2. j \notin MpiJobs /\ runner' = [runner EXCEPT ![j] = {}]
        BY <2>1 DEF DivideAndRunFlows
      <3>3. S \in SUBSET Daemons /\ S # {} /\ runner[j] # {}
        <4>1. runner[j] \in SUBSET Daemons
          BY <1>2
        <4>2. S \subseteq runner[j] /\ S # {}
          BY <3>1
        <4>3. QED
          BY <4>1, <4>2
      <3>4. QED
        BY <3>1, <3>2, <3>3, Zenon
    <2>2. CASE MpiRunFlow(j)
      <3>1. PICK owner \in runner[j] : /\ assigned' = [assigned EXCEPT ![j] = {owner}]
                                       /\ down' = Sent(down, {owner}, <<Run(j)>>)
        BY <2>2 DEF MpiRunFlow
      <3>2. Cardinality({owner}) = 1 /\ {owner} \in SUBSET Daemons
        BY <1>2, <3>1, FS_Singleton
      <3>3. total' = total /\ runner' = [runner EXCEPT ![j] = {}]
        BY <2>2 DEF MpiRunFlow
      <3>4. QED
        BY <3>1, <3>2, <3>3
    <2>3. QED
      BY <2>1, <2>2
  <1>4. UNCHANGED <<up, status, waiting, tasks, taskStatus, proc, gjob>>
    BY DEF DivideAndRunFlows, MpiRunFlow, gebrdVars
  <1>5. assigned[j] = {} /\ tasks[j] = {} /\ status[j] \notin {"none", "finished"} /\ j \notin waiting
    BY <1>2, <1>3 DEF IInv, ExecInv, HandedOutOnce, TotalCounts, FinishedMeansAllOk
  <1>6. total[j] = 0
    BY <1>5, FS_EmptySet DEF IInv, ExecInv, TotalCounts
  <1>7. HandedOutOnce'
    BY <1>2, <1>3, <1>4, <1>5 DEF IInv, ExecInv, HandedOutOnce
  <1>8. TotalCounts'
    BY <1>2, <1>3, <1>4, <1>5, <1>6 DEF IInv, ExecInv, TotalCounts
  <1>9. ProcessesKnown' /\ FinishedMeansAllOk'
    BY <1>2, <1>3, <1>4, <1>5 DEF IInv, ExecInv, ProcessesKnown, FinishedMeansAllOk
  <1>10. ReportsTrue'
    <2>1. \A d \in Daemons : \A i \in DOMAIN up[d] : up[d][i].job \in Jobs
      BY <1>2 DEF UpMsg
    <2>2. \A x \in Jobs : assigned[x] \subseteq assigned'[x]
      BY <1>2, <1>3, <1>5
    <2>3. QED
      BY <1>4, <2>1, <2>2 DEF IInv, ExecInv, ReportsTrue
  <1>11. RunsUnique'
    <2> DEFINE L(d) == Len(down[d]) + 1
               m    == <<Run(j)>>
    <2>0. /\ m \in Seq(DownMsg) /\ down' = Sent(down, S, m)
          /\ \A n \in DOMAIN m : n = 1 /\ m[n] = Run(j)
      BY <1>3, MessageTypes
    <2> HIDE DEF m
    <2>1. ASSUME NEW d \in Daemons, NEW i \in DOMAIN down'[d]
          PROVE  \/ i \in DOMAIN down[d] /\ down'[d][i] = down[d][i]
                 \/ d \in S /\ i = L(d) /\ down'[d][i] = Run(j)
      <3>1. \/ i \in DOMAIN down[d] /\ down'[d][i] = down[d][i]
            \/ /\ d \in S /\ i \in Int /\ i - Len(down[d]) \in DOMAIN m
               /\ down'[d][i] = m[i - Len(down[d])]
        BY <1>2, <2>0, SentElement
      <3>2. Len(down[d]) \in Int
        BY <1>2
      <3>3. QED
        BY <2>0, <3>1, <3>2
    <2>2. \A d \in Daemons : \A i \in DOMAIN down[d] :
            down[d][i].job \in Jobs /\ (down[d][i].op = "run" => down[d][i].job # j)
      <3>0. \A d \in Daemons : \A i \in DOMAIN down[d] : down[d][i] \in DownMsg
        BY <1>2
      <3>1. \A d \in Daemons : \A i \in DOMAIN down[d] : down[d][i].job \in Jobs
        BY <3>0 DEF DownMsg
      <3>2. QED
        BY <1>5, <3>1 DEF IInv, ExecInv, RunsUnique
    <2>3. \A d \in Daemons : proc[d][j] = "none"
      BY <1>5 DEF IInv, ExecInv, ProcessesKnown
    <2> HIDE DEF L
    <2>4. \A d \in S : d \in assigned'[j]
      BY <1>2, <1>3
    <2>5. \A x \in Jobs : x # j => assigned'[x] = assigned[x]
      BY <1>2, <1>3
    <2>6. Run(j).job = j
      BY DEF Run
    <2>7. QED
      BY <1>4, <2>1, <2>2, <2>3, <2>4, <2>5, <2>6 DEF IInv, ExecInv, RunsUnique
  <1>12. QED
    BY <1>7, <1>8, <1>9, <1>10, <1>11 DEF ExecInv

(* call_ran_func keeps the invariant: an MPI job has one fraction.           *)
LEMMA MpiRanInv ==
    ASSUME IInv, NEW j \in Jobs, MpiRan(j), UNCHANGED gebrdVars
    PROVE  ExecInv'
  <1>1. total \in [Jobs -> Nat]
    BY DEF IInv, TypeOK, GebrmTypeOK
  <1>2. /\ j \in MpiJobs /\ assigned[j] # {} /\ total' = [total EXCEPT ![j] = 1]
        /\ UNCHANGED <<up, down, status, waiting, runner, assigned, tasks, taskStatus, proc, gjob>>
    BY DEF MpiRan, wireVars, gebrdVars
  <1>3. TotalCounts'
    BY <1>1, <1>2 DEF IInv, ExecInv, TotalCounts
  <1>4. QED
    BY <1>2, <1>3 DEF IInv, ExecInv, HandedOutOnce, ProcessesKnown, ReportsTrue,
                      RunsUnique, FinishedMeansAllOk

(* /kill and /close keep the invariant.                                      *)
LEMMA RequestInv ==
    ASSUME IInv, NEW j \in Jobs, KillRequest(j) \/ CloseRequest(j), UNCHANGED gebrdVars
    PROVE  ExecInv'
  <1>1. TypeOK /\ status \in [Jobs -> {"none"} \cup JobStatus]
    BY DEF IInv, TypeOK, GebrmTypeOK
  <1>2. UNCHANGED <<up, waiting, runner, assigned, total, tasks, taskStatus, proc, gjob>>
    BY DEF KillRequest, CloseRequest, gebrdVars
  <1>3. \/ status' = status
        \/ status[j] = "queued" /\ status' = [status EXCEPT ![j] = "canceled"]
    BY DEF KillRequest, CloseRequest
  <1>4. RunsUnique'
    <2>1. \/ down' = down
          \/ down' = Sent(down, tasks[j], <<Kil(j)>>)
          \/ down' = Sent(down, tasks[j], <<Clr(j)>>)
      BY DEF KillRequest, CloseRequest
    <2>2. \/ down' = down
          \/ \E S : \/ down' = Sent(down, S, <<Kil(j)>>)
                   \/ down' = Sent(down, S, <<Kil(j), Kil(j)>>)
                   \/ down' = Sent(down, S, <<Clr(j)>>)
      BY <2>1, Zenon
    <2>3. QED
      BY <1>1, <1>2, <2>2, RunsKept DEF IInv, ExecInv
  <1>5. HandedOutOnce' /\ FinishedMeansAllOk'
    BY <1>1, <1>2, <1>3 DEF IInv, ExecInv, HandedOutOnce, FinishedMeansAllOk
  <1>6. QED
    BY <1>2, <1>4, <1>5 DEF IInv, ExecInv, TotalCounts, ProcessesKnown, ReportsTrue

(* The message that the maestro reads says what is true.                     *)
LEMMA HeadReport ==
    ASSUME IInv, NEW d \in Daemons, up[d] # <<>>
    PROVE  /\ Head(up[d]).job \in Jobs
           /\ d \in assigned[Head(up[d]).job]
           /\ Head(up[d]).op = "sta" /\ Head(up[d]).status = "finished"
              => proc[d][Head(up[d]).job] = "ok"
  <1>1. 1 \in DOMAIN up[d] /\ Head(up[d]) = up[d][1]
    BY DEF IInv, TypeOK, WireTypeOK
  <1>2. QED
    BY <1>1, HeadTypes DEF IInv, ExecInv, ReportsTrue

(* A TSK keeps the invariant: it cannot make a job FINISHED.                 *)
LEMMA TaskDefineInv ==
    ASSUME IInv, NEW d \in Daemons, TaskDefine(d), UNCHANGED gebrdVars
    PROVE  ExecInv'
  <1> DEFINE j  == Head(up[d]).job
             tk == tasks[j] \cup {d}
             ts == [taskStatus[j] EXCEPT ![d] = "running"]
  <1>1. /\ up[d] # <<>> /\ up' = Popped(up, d)
        /\ UNCHANGED <<waiting, runner, assigned, total, proc, gjob>>
    BY DEF TaskDefine, Delivers, gebrdVars
  <1>2. j \in Jobs /\ d \in assigned[j]
    BY <1>1, HeadReport
  <1>3. /\ TypeOK
        /\ status \in [Jobs -> {"none"} \cup JobStatus]
        /\ tasks \in [Jobs -> SUBSET Daemons]
        /\ taskStatus \in [Jobs -> [Daemons -> {"none"} \cup TaskStatus]]
    BY DEF IInv, TypeOK, GebrmTypeOK
  <1>4. /\ taskStatus' = [taskStatus EXCEPT ![j] = ts]
        /\ tasks' = tasks \/ tasks' = [tasks EXCEPT ![j] = tk]
        /\ status' = status \/ status' = [status EXCEPT ![j] = ChangedStatus(j, tk, ts, "running")]
    BY DEF TaskDefine
  <1>5. \/ down' = down
        \/ down' = Sent(down, ToKill(j, d, tk, ts, "running"), <<Kil(j)>>)
        \/ down' = Sent(down, ToKill(j, d, tk, ts, "running"), <<Kil(j), Kil(j)>>)
    BY DEF TaskDefine
  <1> HIDE DEF j
  <1>6. status' = status \/ (status[j] \notin Stopped /\ status' = [status EXCEPT ![j] = "running"])
    BY <1>2, <1>3, <1>4 DEF ChangedStatus, IsStopped, Stopped
  <1>7. taskStatus'[j][d] = "running" /\ \A x \in Jobs, e \in Daemons :
            <<x, e>> # <<j, d>> => taskStatus'[x][e] = taskStatus[x][e]
    BY <1>2, <1>3, <1>4
  <1> HIDE DEF tk, ts
  <1>8. RunsUnique'
    <2>1. \/ down' = down
          \/ \E S : \/ down' = Sent(down, S, <<Kil(j)>>)
                   \/ down' = Sent(down, S, <<Kil(j), Kil(j)>>)
                   \/ down' = Sent(down, S, <<Clr(j)>>)
      BY <1>5, Zenon
    <2>2. QED
      BY <1>1, <1>2, <1>3, <2>1, RunsKept DEF IInv, ExecInv
  <1>9. ReportsTrue'
    BY <1>1, <1>3, ReportsPopped DEF IInv, ExecInv
  <1>10. TotalCounts'
    BY <1>1, <1>2, <1>3, <1>4 DEF IInv, ExecInv, TotalCounts, tk
  <1>11. ProcessesKnown'
    BY <1>1, <1>2, <1>7 DEF IInv, ExecInv, ProcessesKnown
  <1>12. HandedOutOnce'
    BY <1>1, <1>2, <1>3, <1>6 DEF IInv, ExecInv, HandedOutOnce, Stopped
  <1>13. FinishedMeansAllOk'
    <2> SUFFICES ASSUME NEW x \in Jobs, status'[x] = "finished"
                 PROVE  /\ assigned[x] # {} /\ tasks'[x] = assigned[x]
                        /\ \A e \in assigned[x] : proc[e][x] = "ok"
      BY <1>1 DEF FinishedMeansAllOk
    <2>1. status[x] = "finished"
      BY <1>2, <1>3, <1>6
    <2>2. tasks'[x] = tasks[x] \/ (x = j /\ tasks'[x] = tasks[x] \cup {d})
      BY <1>2, <1>3, <1>4 DEF tk
    <2>3. QED
      BY <1>2, <2>1, <2>2 DEF IInv, ExecInv, FinishedMeansAllOk
  <1>14. QED
    BY <1>8, <1>9, <1>10, <1>11, <1>12, <1>13 DEF ExecInv

(* gebrm_job_change_task_status compares the length of the task list with    *)
(* total: a list that is as long, and not empty, has all the fractions.      *)
LEMMA CompleteHasAll ==
    ASSUME IInv, NEW j \in Jobs, tasks[j] # {}, Cardinality(tasks[j]) = total[j]
    PROVE  tasks[j] = assigned[j]
  <1>1. tasks[j] \in SUBSET Daemons /\ assigned[j] \in SUBSET Daemons /\ tasks[j] \subseteq assigned[j]
    BY DEF IInv, ExecInv, TypeOK, GebrmTypeOK, TotalCounts
  <1>2. Cardinality(tasks[j]) # 0
    BY <1>1, NodesFinite, FS_EmptySet
  <1>3. Cardinality(tasks[j]) = Cardinality(assigned[j])
    BY <1>2 DEF IInv, ExecInv, TotalCounts
  <1>4. QED
    BY <1>1, <1>3, NodesFinite, FS_Subset

(* An STA keeps the invariant.                                               *)
LEMMA StatusChangedInv ==
    ASSUME IInv, NEW d \in Daemons, StatusChanged(d), UNCHANGED gebrdVars
    PROVE  ExecInv'
  <1> DEFINE j   == Head(up[d]).job
             new == Head(up[d]).status
             ts  == [taskStatus[j] EXCEPT ![d] = new]
  <1>1. /\ up[d] # <<>> /\ Head(up[d]).op = "sta" /\ up' = Popped(up, d)
        /\ UNCHANGED <<waiting, runner, assigned, total, tasks, proc, gjob>>
    BY DEF StatusChanged, Delivers, gebrdVars
  <1>2. j \in Jobs /\ d \in assigned[j] /\ (new = "finished" => proc[d][j] = "ok")
    BY <1>1, HeadReport
  <1>3. /\ TypeOK /\ new \in TaskStatus
        /\ status \in [Jobs -> {"none"} \cup JobStatus]
        /\ tasks \in [Jobs -> SUBSET Daemons] /\ assigned \in [Jobs -> SUBSET Daemons]
        /\ taskStatus \in [Jobs -> [Daemons -> {"none"} \cup TaskStatus]]
    BY <1>1, HeadTypes DEF IInv, TypeOK, GebrmTypeOK
  <1>4. /\ taskStatus' = taskStatus \/ taskStatus' = [taskStatus EXCEPT ![j] = ts]
        /\ \/ status' = status
           \/ /\ d \in tasks[j] /\ taskStatus' = [taskStatus EXCEPT ![j] = ts]
              /\ status' = [status EXCEPT ![j] = ChangedStatus(j, tasks[j], ts, new)]
    BY DEF StatusChanged
  <1>5. down' = down \/ down' = Sent(down, ToKill(j, d, tasks[j], ts, new), <<Kil(j)>>)
    BY DEF StatusChanged
  <1> HIDE DEF j, new
  <1>6. \A e \in Daemons : ts[e] = "finished" => proc[e][j] = "ok"
    BY <1>2, <1>3 DEF IInv, ExecInv, ProcessesKnown
  <1>7. ProcessesKnown'
    <2>1. \A x \in Jobs, e \in Daemons : taskStatus'[x][e] = taskStatus[x][e]
              \/ (x = j /\ taskStatus'[x][e] = ts[e])
      BY <1>2, <1>3, <1>4
    <2> HIDE DEF ts
    <2>2. QED
      BY <1>1, <1>6, <2>1 DEF IInv, ExecInv, ProcessesKnown
  <1> HIDE DEF ts
  <1>8. RunsUnique'
    <2>1. \/ down' = down
          \/ \E S : \/ down' = Sent(down, S, <<Kil(j)>>)
                   \/ down' = Sent(down, S, <<Kil(j), Kil(j)>>)
                   \/ down' = Sent(down, S, <<Clr(j)>>)
      BY <1>5, Zenon
    <2>2. QED
      BY <1>1, <1>2, <1>3, <2>1, RunsKept DEF IInv, ExecInv
  <1>9. ReportsTrue'
    BY <1>1, <1>3, ReportsPopped DEF IInv, ExecInv
  <1>10. \/ status' = status
         \/ /\ d \in tasks[j] /\ ~IsStopped(j)
            /\ status' = [status EXCEPT ![j] = ChangedStatus(j, tasks[j], ts, new)]
            /\ ChangedStatus(j, tasks[j], ts, new) \in {"canceled", "failed", "running", "finished"}
    BY <1>2, <1>3, <1>4 DEF ChangedStatus
  <1>11. HandedOutOnce'
    BY <1>1, <1>2, <1>3, <1>10 DEF IInv, ExecInv, HandedOutOnce
  <1>12. FinishedMeansAllOk'
    <2> SUFFICES ASSUME NEW x \in Jobs, status'[x] = "finished"
                 PROVE  /\ assigned[x] # {} /\ tasks[x] = assigned[x]
                        /\ \A e \in assigned[x] : proc[e][x] = "ok"
      BY <1>1 DEF FinishedMeansAllOk
    <2>1. CASE status[x] = "finished"
      BY <2>1 DEF IInv, ExecInv, FinishedMeansAllOk
    <2>2. CASE status[x] # "finished"
      <3>1. x = j /\ d \in tasks[j] /\ ~IsStopped(j)
            /\ ChangedStatus(j, tasks[j], ts, new) = "finished"
        BY <1>2, <1>3, <1>10, <2>2
      <3>2. Cardinality(tasks[j]) = total[j] /\ \A e \in tasks[j] : ts[e] = "finished"
        BY <1>2, <1>3, <2>2, <3>1 DEF ChangedStatus, IsStopped, Stopped
      <3>3. tasks[j] = assigned[j]
        BY <1>2, <3>1, <3>2, CompleteHasAll
      <3>4. QED
        BY <1>2, <1>3, <1>6, <3>1, <3>2, <3>3
    <2>3. QED
      BY <2>1, <2>2
  <1>13. QED
    BY <1>1, <1>7, <1>8, <1>9, <1>11, <1>12 DEF IInv, ExecInv, TotalCounts

(* What the maestro does keeps the invariant.                                *)
LEMMA MaestroInv ==
    ASSUME IInv,
           \/ \E j \in Jobs : Maestro(j)
           \/ \E d \in Daemons : MaestroReceives(d)
    PROVE  ExecInv'
  <1>1. ASSUME NEW j \in Jobs, Maestro(j) PROVE ExecInv'
    BY <1>1, SubmitInv, RunAsyncInv, DispatchInv, MpiRanInv, RequestInv DEF Maestro
  <1>2. ASSUME NEW d \in Daemons, MaestroReceives(d) PROVE ExecInv'
    BY <1>2, TaskDefineInv, StatusChangedInv DEF MaestroReceives
  <1>3. QED
    BY <1>1, <1>2

-----------------------------------------------------------------------------
(* The invariant speaks of the daemons only through their processes and the  *)
(* channels.                                                                 *)
LEMMA DaemonStep ==
    ASSUME IInv, UNCHANGED <<status, waiting, runner, assigned, total, tasks, taskStatus>>,
           ReportsTrue', RunsUnique',
           \A d \in Daemons, j \in Jobs : proc[d][j] = "ok" => proc'[d][j] = "ok",
           \A d \in Daemons, j \in Jobs :
               proc'[d][j] # "none" \/ gjob'[d][j] # "none" => d \in assigned[j]
    PROVE  ExecInv'
  <1>1. assigned \in [Jobs -> SUBSET Daemons]
    BY DEF IInv, TypeOK, GebrmTypeOK
  <1>2. FinishedMeansAllOk'
    BY <1>1 DEF IInv, ExecInv, FinishedMeansAllOk
  <1>3. ProcessesKnown'
    BY DEF IInv, ExecInv, ProcessesKnown
  <1>4. QED
    BY <1>2, <1>3 DEF IInv, ExecInv, HandedOutOnce, TotalCounts

(* A RUN that gebrd reads is for a fraction that has no process yet.         *)
LEMMA HeadRun ==
    ASSUME IInv, NEW d \in Daemons, down[d] # <<>>, Head(down[d]).op = "run"
    PROVE  d \in assigned[Head(down[d]).job] /\ proc[d][Head(down[d]).job] = "none"
  <1>1. 1 \in DOMAIN down[d] /\ Head(down[d]) = down[d][1]
    BY DEF IInv, TypeOK, WireTypeOK
  <1>2. QED
    BY <1>1 DEF IInv, ExecInv, RunsUnique

(* RUN, KIL and CLR keep the invariant.                                      *)
LEMMA GebrdReceivesInv ==
    ASSUME IInv, NEW d \in Daemons, GebrdReceives(d)
    PROVE  ExecInv'
  <1> DEFINE j == Head(down[d]).job
  <1>1. /\ down[d] # <<>> /\ down' = Popped(down, d)
        /\ UNCHANGED <<status, waiting, runner, assigned, total, tasks, taskStatus>>
    BY DEF GebrdReceives, GebrdRun, GebrdKil, GebrdClr, Receives, gebrmVars
  <1>2. /\ TypeOK /\ j \in Jobs
        /\ proc \in [Daemons -> [Jobs -> ProcState]]
        /\ gjob \in [Daemons -> [Jobs -> {"none"} \cup TaskStatus]]
    BY <1>1, HeadTypes DEF IInv, TypeOK, GebrdTypeOK
  <1>3. CASE GebrdRun(d)
    <2>1. Head(down[d]).op = "run"
      BY <1>3 DEF GebrdRun, Receives
    <2>2. d \in assigned[j] /\ proc[d][j] = "none"
      BY <1>1, <2>1, HeadRun
    <2>3. PICK issues \in IssueChoices, s \in {"failed", "running"}, p \in {"none"} \cup GroupChoices :
            /\ proc' = [proc EXCEPT ![d][j] = p]
            /\ gjob' = [gjob EXCEPT ![d][j] = s]
            /\ up' = Sent(up, {d}, <<Tsk(j, issues), Sta(j, s)>>)
      <3>1. PICK issues \in IssueChoices, critical_error \in BOOLEAN, group \in GroupChoices :
              /\ proc' = [proc EXCEPT ![d][j] = IF critical_error THEN @ ELSE group]
              /\ gjob' = [gjob EXCEPT ![d][j] = IF critical_error THEN "failed" ELSE "running"]
              /\ up' = Sent(up, {d}, <<Tsk(j, issues),
                                       Sta(j, IF critical_error THEN "failed" ELSE "running")>>)
        BY <1>3 DEF GebrdRun
      <3>2. CASE critical_error
        BY <1>2, <2>2, <3>1, <3>2
      <3>3. CASE ~critical_error
        BY <3>1, <3>3
      <3>4. QED
        BY <3>2, <3>3
    <2> HIDE DEF j
    <2>4. /\ proc'[d][j] = p
          /\ \A e \in Daemons, x \in Jobs : <<e, x>> # <<d, j>> =>
                proc'[e][x] = proc[e][x] /\ gjob'[e][x] = gjob[e][x]
      BY <1>2, <2>3
    <2> DEFINE m == <<Tsk(j, issues), Sta(j, s)>>
    <2>5. m \in Seq(UpMsg)
      BY <1>2, GebrdAssumption, MessageTypes DEF TaskStatus, Stopped
    <2>6. \A n \in DOMAIN m : m[n].job = j /\ ~(m[n].op = "sta" /\ m[n].status = "finished")
      BY DEF Tsk, Sta
    <2> HIDE DEF m
    <2>7. up' = Sent(up, {d}, m)
      BY <2>3 DEF m
    <2>8. ReportsTrue'
      <3>1. \A e \in Daemons, x \in Jobs : proc[e][x] = "ok" => proc'[e][x] = "ok"
        BY <2>2, <2>4
      <3>2. \A e \in Daemons, n \in DOMAIN m : e \in {d} =>
                /\ e \in assigned[m[n].job]
                /\ m[n].op = "sta" /\ m[n].status = "finished" => proc'[e][m[n].job] = "ok"
        BY <2>2, <2>6
      <3>3. TypeOK /\ ReportsTrue /\ assigned' = assigned
        BY <1>1 DEF IInv, ExecInv
      <3>4. QED
        BY <2>5, <2>7, <3>1, <3>2, <3>3, ReportsSent
    <2>9. RunsUnique'
      BY <1>1, <1>2, <2>1, <2>4, RunsPopped DEF IInv, ExecInv, j
    <2>10. \A e \in Daemons, x \in Jobs :
             /\ proc[e][x] = "ok" => proc'[e][x] = "ok"
             /\ proc'[e][x] # "none" \/ gjob'[e][x] # "none" => e \in assigned[x]
      BY <2>2, <2>4 DEF IInv, ExecInv, ProcessesKnown
    <2>11. QED
      BY <1>1, <2>8, <2>9, <2>10, DaemonStep
  <1>4. CASE GebrdKil(d) \/ GebrdClr(d)
    <2>1. up' = up /\ (proc' = proc
                       \/ proc' = [proc EXCEPT ![d][j] = IF @ = "own" THEN "dying" ELSE @])
      BY <1>4 DEF GebrdKil, GebrdClr
    <2> HIDE DEF j
    <2>2. \A e \in Daemons, x \in Jobs :
             proc'[e][x] = proc[e][x] \/ (proc[e][x] = "own" /\ proc'[e][x] = "dying")
      <3>1. CASE proc' = proc
        BY <3>1
      <3>2. CASE proc' = [proc EXCEPT ![d][j] = IF @ = "own" THEN "dying" ELSE @]
        BY <1>2, <3>2
      <3>3. QED
        BY <2>1, <3>1, <3>2
    <2>3. ReportsTrue'
      <3>1. up \in [Daemons -> Seq(UpMsg)]
        BY <1>2 DEF TypeOK, WireTypeOK
      <3>2. \A e \in Daemons : \A i \in DOMAIN up[e] : up[e][i] \in UpMsg
        BY <3>1
      <3>3. \A e \in Daemons : \A i \in DOMAIN up[e] : up[e][i].job \in Jobs
        BY <3>2 DEF UpMsg
      <3>4. \A e \in Daemons, x \in Jobs : proc[e][x] = "ok" => proc'[e][x] = "ok"
        BY <2>2
      <3>5. QED
        BY <1>1, <2>1, <3>3, <3>4 DEF IInv, ExecInv, ReportsTrue
    <2>4. RunsUnique'
      <3>1. \A e \in Daemons, x \in Jobs : proc[e][x] = "none" => proc'[e][x] = "none"
        BY <2>2
      <3>2. QED
        BY <1>1, <1>2, <3>1, RunsPopped DEF IInv, ExecInv
    <2>5. \A e \in Daemons, x \in Jobs : gjob'[e][x] # "none" => gjob[e][x] # "none"
      <3>1. gjob' = gjob \/ gjob' = [gjob EXCEPT ![d][j] = "none"]
        BY <1>4 DEF GebrdKil, GebrdClr, j
      <3>2. QED
        BY <1>2, <3>1
    <2>6. \A e \in Daemons, x \in Jobs :
             /\ proc[e][x] = "ok" => proc'[e][x] = "ok"
             /\ proc'[e][x] # "none" \/ gjob'[e][x] # "none" => e \in assigned[x]
      BY <2>2, <2>5 DEF IInv, ExecInv, ProcessesKnown
    <2>7. QED
      BY <1>1, <2>3, <2>4, <2>6, DaemonStep
  <1>5. QED
    BY <1>3, <1>4 DEF GebrdReceives

(* The end of a process keeps the invariant.                                 *)
LEMMA ProcessEndsInv ==
    ASSUME IInv, NEW d \in Daemons, NEW j \in Jobs, ProcessEnds(d, j)
    PROVE  ExecInv'
  <1>1. /\ UNCHANGED <<status, waiting, runner, assigned, total, tasks, taskStatus>>
        /\ down' = down /\ proc[d][j] \in Executing
    BY DEF ProcessEnds, ProcessFinished, OrphanFinished, gebrmVars, wireVars
  <1>2. /\ TypeOK /\ proc \in [Daemons -> [Jobs -> ProcState]]
        /\ gjob \in [Daemons -> [Jobs -> {"none"} \cup TaskStatus]]
    BY DEF IInv, TypeOK, GebrdTypeOK
  <1>3. PICK exit \in {"ok", "bad"}, s \in Stopped :
          /\ proc' = [proc EXCEPT ![d][j] = exit]
          /\ gjob' = gjob \/ gjob' = [gjob EXCEPT ![d][j] = s]
          /\ s = "finished" => exit = "ok"
          /\ up' = up \/ up' = Sent(up, {d}, <<Sta(j, s)>>)
    <2>1. CASE ProcessFinished(d, j)
      BY <2>1 DEF ProcessFinished, Stopped
    <2>2. CASE OrphanFinished(d, j)
      BY <2>2 DEF OrphanFinished, wireVars, Stopped
    <2>3. QED
      BY <2>1, <2>2 DEF ProcessEnds
  <1>4. /\ proc'[d][j] = exit
        /\ \A e \in Daemons, x \in Jobs : <<e, x>> # <<d, j>> =>
              proc'[e][x] = proc[e][x] /\ gjob'[e][x] = gjob[e][x]
    BY <1>2, <1>3
  <1>5. d \in assigned[j] /\ proc[d][j] \notin {"none", "ok"}
    BY <1>1 DEF IInv, ExecInv, ProcessesKnown, Executing
  <1>6. \A e \in Daemons, x \in Jobs :
           /\ proc[e][x] = "ok" => proc'[e][x] = "ok"
           /\ proc'[e][x] # "none" \/ gjob'[e][x] # "none" => e \in assigned[x]
           /\ proc[e][x] = "none" => proc'[e][x] = "none"
    BY <1>4, <1>5 DEF IInv, ExecInv, ProcessesKnown
  <1>7. ReportsTrue'
    <2>1. PICK m \in Seq(UpMsg) :
            /\ up' = up \/ up' = Sent(up, {d}, m)
            /\ \A n \in DOMAIN m : m[n].job = j
                 /\ (m[n].op = "sta" /\ m[n].status = "finished" => exit = "ok")
      <3> DEFINE m == <<Sta(j, s)>>
      <3>1. m \in Seq(UpMsg)
        BY MessageTypes DEF TaskStatus
      <3>2. \A n \in DOMAIN m : m[n].job = j
                 /\ (m[n].op = "sta" /\ m[n].status = "finished" => exit = "ok")
        BY <1>3 DEF Sta
      <3>3. up' = up \/ up' = Sent(up, {d}, m)
        BY <1>3
      <3> HIDE DEF m
      <3>4. QED
        BY <3>1, <3>2, <3>3
    <2>2. CASE up' = Sent(up, {d}, m)
      <3>1. \A e \in Daemons, x \in Jobs : proc[e][x] = "ok" => proc'[e][x] = "ok"
        BY <1>6
      <3>2. \A e \in Daemons, n \in DOMAIN m : e \in {d} =>
                /\ e \in assigned[m[n].job]
                /\ m[n].op = "sta" /\ m[n].status = "finished" => proc'[e][m[n].job] = "ok"
        BY <1>4, <1>5, <2>1
      <3>3. TypeOK /\ ReportsTrue /\ assigned' = assigned
        BY <1>1 DEF IInv, ExecInv
      <3>4. QED
        BY <2>1, <2>2, <3>1, <3>2, <3>3, ReportsSent
    <2>3. CASE up' = up
      <3>1. up \in [Daemons -> Seq(UpMsg)]
        BY <1>2 DEF TypeOK, WireTypeOK
      <3>2. \A e \in Daemons : \A i \in DOMAIN up[e] : up[e][i] \in UpMsg
        BY <3>1
      <3>3. \A e \in Daemons : \A i \in DOMAIN up[e] : up[e][i].job \in Jobs
        BY <3>2 DEF UpMsg
      <3>4. QED
        BY <1>1, <1>6, <2>3, <3>3 DEF IInv, ExecInv, ReportsTrue
    <2>4. QED
      BY <2>1, <2>2, <2>3
  <1>8. RunsUnique'
    <2>1. down \in [Daemons -> Seq(DownMsg)]
      BY <1>2 DEF TypeOK, WireTypeOK
    <2>2. \A e \in Daemons : \A i \in DOMAIN down[e] : down[e][i] \in DownMsg
      BY <2>1
    <2>3. \A e \in Daemons : \A i \in DOMAIN down[e] : down[e][i].job \in Jobs
      BY <2>2 DEF DownMsg
    <2>4. QED
      BY <1>1, <1>6, <2>3 DEF IInv, ExecInv, RunsUnique
  <1>9. QED
    BY <1>1, <1>6, <1>7, <1>8, DaemonStep

(* The going and coming of nodes keeps the invariant: channels are cut, no   *)
(* process is started, and gebrd_quit reports nothing but FAILED, about jobs *)
(* it was given.                                                             *)
LEMMA NodeChangesInv ==
    ASSUME IInv, NEW d \in Daemons, NodeChanges(d)
    PROVE  ExecInv'
  <1>1. /\ UNCHANGED <<status, waiting, runner, assigned, total, tasks, taskStatus, proc>>
        /\ \A e \in Daemons, x \in Jobs : gjob'[e][x] # "none" => gjob[e][x] # "none"
    BY DEF NodeChanges, LoseDaemon, ClientDisconnect, ClientRemove, RemoveYes, DaemonQuit,
           Reconnect, Unplug, ForgetDaemon, GebrdQuit, GebrdStart, wireVars, gebrdVars, gebrmVars,
           IInv, TypeOK, GebrdTypeOK
  <1>2. TypeOK /\ up \in [Daemons -> Seq(UpMsg)] /\ down \in [Daemons -> Seq(DownMsg)]
    BY DEF IInv, TypeOK, WireTypeOK
  <1>3. down' = down \/ down' = [down EXCEPT ![d] = <<>>]
    BY DEF NodeChanges, LoseDaemon, ClientDisconnect, ClientRemove, RemoveYes, DaemonQuit,
           Reconnect, Unplug, GebrdQuit, wireVars
  <1>4. RunsUnique'
    <2>1. CASE down' = down
      BY <1>1, <2>1 DEF IInv, ExecInv, RunsUnique
    <2>2. CASE down' = [down EXCEPT ![d] = <<>>]
      <3>1. \A e \in Daemons : \A i \in DOMAIN down'[e] : e # d /\ down'[e] = down[e]
        BY <1>2, <2>2
      <3>2. QED
        BY <1>1, <3>1 DEF IInv, ExecInv, RunsUnique
    <2>3. QED
      BY <1>3, <2>1, <2>2
  <1>5. ReportsTrue'
    <2>1. CASE up' = up \/ up' = [up EXCEPT ![d] = <<>>]
      <3>1. \A e \in Daemons : \A i \in DOMAIN up'[e] : up'[e] = up[e]
        BY <1>2, <2>1
      <3>2. QED
        BY <1>1, <3>1 DEF IInv, ExecInv, ReportsTrue
    <2>2. CASE DaemonQuit(d)
      <3>1. PICK q \in Orders(Listed(d)) :
              up' = Sent(up, {d}, [i \in DOMAIN q |-> Sta(q[i], "failed")])
        BY <2>2 DEF DaemonQuit, GebrdQuit
      <3> DEFINE m == [i \in DOMAIN q |-> Sta(q[i], "failed")]
      <3>2. q \in [1..Cardinality(Listed(d)) -> Listed(d)] /\ Cardinality(Listed(d)) \in Nat
        BY <3>1, WireAssumption, FS_Subset, FS_CardinalityType DEF Orders, Listed
      <3>3. \A i \in DOMAIN q : q[i] \in Jobs /\ d \in assigned[q[i]]
        BY <3>2 DEF IInv, ExecInv, ProcessesKnown, Listed
      <3>4. \A i \in DOMAIN q : Sta(q[i], "failed") \in UpMsg
        BY <3>3 DEF Sta, UpMsg, TaskStatus, Stopped
      <3>5. m \in Seq(UpMsg)
        BY <3>2, <3>4
      <3>6. \A n \in DOMAIN m : d \in assigned[m[n].job] /\ m[n].op = "sta" /\ m[n].status = "failed"
        BY <3>2, <3>3 DEF Sta
      <3>7. up' = Sent(up, {d}, m)
        BY <3>1
      <3> HIDE DEF m
      <3>8. QED
        <4>1. \A e \in Daemons, x \in Jobs : proc[e][x] = "ok" => proc'[e][x] = "ok"
          BY <1>1
        <4>2. \A e \in Daemons, n \in DOMAIN m : e \in {d} =>
                  /\ e \in assigned[m[n].job]
                  /\ m[n].op = "sta" /\ m[n].status = "finished" => proc'[e][m[n].job] = "ok"
          BY <3>6
        <4>3. TypeOK /\ ReportsTrue /\ assigned' = assigned
          BY <1>1 DEF IInv, ExecInv
        <4>4. QED
          BY <3>5, <3>7, <4>1, <4>2, <4>3, ReportsSent
    <2>3. QED
      BY <2>1, <2>2 DEF NodeChanges, LoseDaemon, ClientDisconnect, ClientRemove, RemoveYes,
                        Reconnect, Unplug, wireVars
  <1>6. \A e \in Daemons, x \in Jobs : proc'[e][x] # "none" \/ gjob'[e][x] # "none" => e \in assigned[x]
    BY <1>1 DEF IInv, ExecInv, ProcessesKnown
  <1>7. QED
    BY <1>1, <1>4, <1>5, <1>6, DaemonStep

(* Every step keeps the invariant.                                           *)
LEMMA NextInv == IInv /\ [Next]_vars => IInv'
  <1> SUFFICES ASSUME IInv, [Next]_vars PROVE IInv'
    OBVIOUS
  <1>1. TypeOK'
    BY NextType DEF IInv
  <1>2. CASE UNCHANGED vars
    BY <1>1, <1>2 DEF IInv, ExecInv, HandedOutOnce, TotalCounts, ProcessesKnown, ReportsTrue,
                      RunsUnique, FinishedMeansAllOk, vars, wireVars, gebrdVars, gebrmVars
  <1>3. CASE Next
    BY <1>1, <1>3, MaestroInv, GebrdReceivesInv, ProcessEndsInv, NodeChangesInv
       DEF Next, Work, IInv
  <1>4. QED
    BY <1>2, <1>3

(* The inductive invariant is an invariant.                                  *)
THEOREM ExecInvariant == Spec => []IInv
  BY InitInv, NextInv, PTL DEF Spec

(* A job the maestro reports FINISHED has been announced by all the nodes it *)
(* was split over, and each of their processes has ended well.               *)
THEOREM FinishedCorrect == Spec => []FinishedMeansAllOk
  <1>1. IInv => FinishedMeansAllOk
    BY DEF IInv, ExecInv
  <1>2. QED
    BY <1>1, ExecInvariant, PTL

-----------------------------------------------------------------------------
(* The refinement.                                                           *)

(* A step that changes neither of the three is a stutter.                    *)
LEMMA Stutter ==
    ASSUME UNCHANGED <<status, assigned, proc>>
    PROVE  UNCHANGED Lifecycle!vars
  BY DEF Lifecycle!vars

(* The steps that change the status of one job.                              *)
LEMMA StatusStep ==
    ASSUME IInv, NEW j \in Jobs, NEW s,
           status' = [status EXCEPT ![j] = s], UNCHANGED <<assigned, proc>>,
           \/ status[j] = "none" /\ s \in {"initial", "queued", "failed"}
           \/ status[j] \in {"initial", "queued", "running"} /\ s \in {"failed", "canceled"}
           \/ status[j] \in {"initial", "queued", "running"} /\ s = "running" /\ assigned[j] # {}
           \/ /\ status[j] \in {"initial", "queued", "running"} /\ s = "finished"
              /\ FinishedMeansAllOk'
    PROVE  Lifecycle!Next
  <1>1. CASE status[j] = "none" /\ s \in {"initial", "queued", "failed"}
    BY <1>1 DEF Lifecycle!Next, Lifecycle!Enter
  <1>2. CASE status[j] \in {"initial", "queued", "running"} /\ s \in {"failed", "canceled"}
    BY <1>2 DEF Lifecycle!Next, Lifecycle!Abort, Lifecycle!Live
  <1>3. CASE status[j] \in {"initial", "queued", "running"} /\ s = "running" /\ assigned[j] # {}
    BY <1>3 DEF Lifecycle!Next, Lifecycle!Begin, Lifecycle!Live
  <1>4. CASE /\ status[j] \in {"initial", "queued", "running"} /\ s = "finished"
             /\ FinishedMeansAllOk'
    <2>1. assigned[j] # {} /\ \A d \in assigned[j] : proc[d][j] = "ok"
      BY <1>4 DEF FinishedMeansAllOk, IInv, TypeOK, GebrmTypeOK
    <2>2. {d \in Daemons : proc[d][j] = "ok"} = assigned[j]
      BY <2>1 DEF IInv, ExecInv, ProcessesKnown, TypeOK, GebrmTypeOK
    <2>3. Lifecycle!Finish(j)
      BY <1>4, <2>1, <2>2 DEF Lifecycle!Finish, Lifecycle!Live
    <2>4. QED
      BY <2>3 DEF Lifecycle!Next
  <1>5. QED
    BY <1>1, <1>2, <1>3, <1>4

(* A step of the maestro on a job is a step of JobLifecycle or a stutter.    *)
LEMMA MaestroRefines ==
    ASSUME IInv, IInv', NEW j \in Jobs, Maestro(j)
    PROVE  Lifecycle!Next \/ UNCHANGED Lifecycle!vars
  <1>1. /\ proc' = proc
        /\ status \in [Jobs -> {"none"} \cup JobStatus]
        /\ runner \in [Jobs -> SUBSET Daemons]
    BY DEF Maestro, gebrdVars, IInv, TypeOK, GebrmTypeOK
  <1>2. CASE Submit(j)
    <2>1. \E s \in {"initial", "queued", "failed"} : status' = [status EXCEPT ![j] = s]
      BY <1>2 DEF Submit
    <2>2. status[j] = "none" /\ assigned' = assigned
      BY <1>2 DEF Submit
    <2>3. QED
      BY <1>1, <2>1, <2>2, StatusStep
  <1>3. CASE RunAsync(j)
    <2>1. /\ assigned' = assigned /\ status[j] \in {"initial", "queued", "canceled"}
          /\ status' = status \/ status' = [status EXCEPT ![j] = "canceled"]
      BY <1>3 DEF RunAsync, IInv, ExecInv, HandedOutOnce
    <2>2. CASE status' = status \/ status[j] = "canceled"
      <3>1. status' = status
        BY <1>1, <2>1, <2>2
      <3>2. QED
        BY <1>1, <2>1, <3>1, Stutter
    <2>3. CASE status' = [status EXCEPT ![j] = "canceled"] /\ status[j] # "canceled"
      BY <1>1, <2>1, <2>3, StatusStep
    <2>4. QED
      BY <2>1, <2>2, <2>3
  <1>4. CASE DivideAndRunFlows(j) \/ MpiRunFlow(j)
    <2>1. runner[j] # {} /\ status' = status
      BY <1>4 DEF DivideAndRunFlows, MpiRunFlow
    <2>2. \E S \in (SUBSET Daemons) \ {{}} : assigned' = [assigned EXCEPT ![j] = S]
      <3>1. CASE DivideAndRunFlows(j)
        BY <1>1, <3>1 DEF DivideAndRunFlows
      <3>2. CASE MpiRunFlow(j)
        <4>1. PICK owner \in runner[j] : assigned' = [assigned EXCEPT ![j] = {owner}]
          BY <3>2 DEF MpiRunFlow
        <4>2. {owner} \in (SUBSET Daemons) \ {{}}
          BY <1>1
        <4>3. QED
          BY <4>1, <4>2
      <3>3. QED
        BY <1>4, <3>1, <3>2
    <2>3. status[j] # "none" /\ assigned[j] = {}
      BY <2>1 DEF IInv, ExecInv, HandedOutOnce
    <2>4. Lifecycle!Split(j)
      BY <1>1, <2>1, <2>2, <2>3 DEF Lifecycle!Split
    <2>5. QED
      BY <2>4 DEF Lifecycle!Next
  <1>5. CASE MpiRan(j) \/ CloseRequest(j)
    BY <1>1, <1>5, Stutter DEF MpiRan, CloseRequest
  <1>6. CASE KillRequest(j)
    <2>1. /\ assigned' = assigned
          /\ \/ status' = status
             \/ status[j] = "queued" /\ status' = [status EXCEPT ![j] = "canceled"]
      BY <1>6 DEF KillRequest
    <2>2. QED
      BY <1>1, <2>1, Stutter, StatusStep
  <1>7. QED
    BY <1>2, <1>3, <1>4, <1>5, <1>6 DEF Maestro

(* So is the receipt of a message by the maestro.                            *)
LEMMA MaestroReceivesRefines ==
    ASSUME IInv, IInv', NEW d \in Daemons, MaestroReceives(d)
    PROVE  Lifecycle!Next \/ UNCHANGED Lifecycle!vars
  <1> DEFINE j == Head(up[d]).job
  <1>1. proc' = proc /\ assigned' = assigned /\ up[d] # <<>>
    BY DEF MaestroReceives, TaskDefine, StatusChanged, Delivers, gebrdVars
  <1>2. j \in Jobs /\ assigned[j] # {} /\ status[j] # "none"
    BY <1>1, HeadReport DEF IInv, ExecInv, HandedOutOnce
  <1>3. status \in [Jobs -> {"none"} \cup JobStatus] /\ FinishedMeansAllOk'
    BY DEF IInv, ExecInv, TypeOK, GebrmTypeOK
  <1>4. \/ status' = status
        \/ \E tk, ts, new : /\ new \in TaskStatus
                            /\ status' = [status EXCEPT ![j] = ChangedStatus(j, tk, ts, new)]
    <2>1. CASE TaskDefine(d)
      BY <2>1 DEF TaskDefine, TaskStatus
    <2>2. CASE StatusChanged(d)
      <3>1. Head(up[d]).status \in TaskStatus
        BY <1>1, <2>2, HeadTypes DEF IInv, StatusChanged, Delivers
      <3>2. QED
        BY <2>2, <3>1 DEF StatusChanged
    <2>3. QED
      BY <2>1, <2>2 DEF MaestroReceives
  <1> HIDE DEF j
  <1>5. \/ status' = status
        \/ \E s \in {"canceled", "failed", "running", "finished"} :
              status[j] \in {"initial", "queued", "running"} /\ status' = [status EXCEPT ![j] = s]
    <2>1. \A tk, ts : \A new \in TaskStatus :
             LET s == ChangedStatus(j, tk, ts, new)
             IN \/ s = status[j]
                \/ /\ s \in {"canceled", "failed", "running", "finished"}
                   /\ status[j] \in {"initial", "queued", "running"}
      BY <1>2, <1>3 DEF ChangedStatus, IsStopped, Stopped, JobStatus, TaskStatus
    <2>2. CASE \E tk, ts, new : /\ new \in TaskStatus
                              /\ status' = [status EXCEPT ![j] = ChangedStatus(j, tk, ts, new)]
      <3>1. PICK tk, ts, new : /\ new \in TaskStatus
                               /\ status' = [status EXCEPT ![j] = ChangedStatus(j, tk, ts, new)]
        BY <2>2
      <3> DEFINE s == ChangedStatus(j, tk, ts, new)
      <3>2. s = status[j] \/ /\ s \in {"canceled", "failed", "running", "finished"}
                             /\ status[j] \in {"initial", "queued", "running"}
        BY <2>1, <3>1
      <3>3. status' = [status EXCEPT ![j] = s]
        BY <3>1
      <3> HIDE DEF s
      <3>4. QED
        BY <1>2, <1>3, <3>2, <3>3
    <2>3. QED
      BY <1>4, <2>2
  <1>6. QED
    BY <1>1, <1>2, <1>3, <1>5, Stutter, StatusStep

(* And what happens on a node: only the end of a process is not a stutter.   *)
LEMMA NodeRefines ==
    ASSUME IInv, NEW d \in Daemons,
           GebrdReceives(d) \/ NodeChanges(d) \/ \E j \in Jobs : ProcessEnds(d, j)
    PROVE  Lifecycle!Next \/ UNCHANGED Lifecycle!vars
  <1>1. UNCHANGED <<status, assigned>> /\ proc \in [Daemons -> [Jobs -> ProcState]]
    BY DEF GebrdReceives, ProcessEnds, NodeChanges, LoseDaemon, ClientDisconnect, ClientRemove,
           RemoveYes, DaemonQuit, Reconnect, Unplug, ForgetDaemon, gebrmVars,
           IInv, TypeOK, GebrdTypeOK
  <1>2. ASSUME \A e \in Daemons, x \in Jobs : proc'[e][x] = "ok" <=> proc[e][x] = "ok"
        PROVE  UNCHANGED Lifecycle!vars
    BY <1>1, <1>2 DEF Lifecycle!vars
  <1>3. CASE GebrdReceives(d)
    <2> DEFINE j == Head(down[d]).job
    <2>1. down[d] # <<>> /\ j \in Jobs
      BY <1>3, HeadTypes DEF IInv, GebrdReceives, GebrdRun, GebrdKil, GebrdClr, Receives
    <2>2. CASE GebrdRun(d)
      <3>1. Head(down[d]).op = "run"
        BY <2>2 DEF GebrdRun, Receives
      <3>2. proc[d][j] = "none"
        BY <2>1, <3>1, HeadRun
      <3>3. \E p \in {"none"} \cup GroupChoices : proc' = [proc EXCEPT ![d][j] = p]
        <4>1. PICK critical_error \in BOOLEAN, group \in GroupChoices :
                proc' = [proc EXCEPT ![d][j] = IF critical_error THEN @ ELSE group]
          BY <2>2 DEF GebrdRun
        <4>2. CASE critical_error
          BY <1>1, <2>1, <3>2, <4>1, <4>2
        <4>3. CASE ~critical_error
          BY <4>1, <4>3
        <4>4. QED
          BY <4>2, <4>3
      <3> HIDE DEF j
      <3>4. QED
        BY <1>1, <1>2, <2>1, <3>2, <3>3, GebrdAssumption
    <2>3. CASE GebrdKil(d) \/ GebrdClr(d)
      <3>1. proc' = proc \/ proc' = [proc EXCEPT ![d][j] = IF @ = "own" THEN "dying" ELSE @]
        BY <2>3 DEF GebrdKil, GebrdClr
      <3> HIDE DEF j
      <3>2. CASE proc' = proc
        BY <1>1, <3>2, Stutter
      <3>3. CASE proc' = [proc EXCEPT ![d][j] = IF @ = "own" THEN "dying" ELSE @]
        BY <1>1, <1>2, <2>1, <3>3
      <3>4. QED
        BY <3>1, <3>2, <3>3
    <2>4. QED
      BY <1>3, <2>2, <2>3 DEF GebrdReceives
  <1>4. CASE NodeChanges(d)
    <2>1. proc' = proc
      BY <1>4 DEF NodeChanges, LoseDaemon, ClientDisconnect, ClientRemove, RemoveYes, DaemonQuit,
                  Reconnect, Unplug, GebrdQuit, GebrdStart, gebrdVars
    <2>2. QED
      BY <1>1, <2>1, Stutter
  <1>5. ASSUME NEW j \in Jobs, ProcessEnds(d, j) PROVE Lifecycle!Next \/ UNCHANGED Lifecycle!vars
    <2>1. PICK exit \in {"ok", "bad"} : proc' = [proc EXCEPT ![d][j] = exit]
      BY <1>5 DEF ProcessEnds, ProcessFinished, OrphanFinished
    <2>2. proc[d][j] \in Executing
      BY <1>5 DEF ProcessEnds, ProcessFinished, OrphanFinished
    <2>3. d \in assigned[j] /\ proc[d][j] # "ok"
      BY <2>2 DEF IInv, ExecInv, ProcessesKnown, Executing
    <2>4. CASE exit = "bad"
      BY <1>1, <1>2, <2>1, <2>3, <2>4
    <2>5. CASE exit = "ok"
      <3>1. [x \in Jobs |-> {e \in Daemons : proc'[e][x] = "ok"}]
              = [[x \in Jobs |-> {e \in Daemons : proc[e][x] = "ok"}] EXCEPT ![j] = @ \cup {d}]
        BY <1>1, <2>1, <2>5
      <3>2. Lifecycle!PartDone(j, d)
        BY <1>1, <2>3, <3>1 DEF Lifecycle!PartDone
      <3>3. QED
        BY <3>2 DEF Lifecycle!Next
    <2>6. QED
      BY <2>4, <2>5
  <1>6. QED
    BY <1>3, <1>4, <1>5

(* The maestro, the daemons and the network together implement JobLifecycle: *)
(* a job is split once, it is FINISHED only when all its parts ended well,   *)
(* and the first stop that is reported is the last word.                     *)
THEOREM LifecycleImplemented == Spec => ImplementsLifecycle
  <1>1. Init => Lifecycle!Init
    BY DEF Init, GebrmInit, GebrdInit, Lifecycle!Init
  <1>2. IInv /\ IInv' /\ [Next]_vars => [Lifecycle!Next]_(Lifecycle!vars)
    <2> SUFFICES ASSUME IInv, IInv', [Next]_vars
                 PROVE  Lifecycle!Next \/ UNCHANGED Lifecycle!vars
      OBVIOUS
    <2>1. CASE UNCHANGED vars
      BY <2>1, Stutter DEF vars, gebrdVars, gebrmVars
    <2>2. CASE Next
      BY <2>2, MaestroRefines, MaestroReceivesRefines, NodeRefines DEF Next, Work
    <2>3. QED
      BY <2>1, <2>2
  <1>3. QED
    BY <1>1, <1>2, ExecInvariant, PTL DEF Spec, ImplementsLifecycle, Lifecycle!Spec
=============================================================================
