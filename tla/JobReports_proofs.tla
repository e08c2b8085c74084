-------------------------- MODULE JobReports_proofs -------------------------
(***************************************************************************)
(* Proofs about what is on its way between the maestro and the daemons, for  *)
(* every set of nodes and of jobs: no FINISHED report that matters is lost,  *)
(* and when a job fails, the fractions that still run are told.              *)
(***************************************************************************)
EXTENDS JobLifecycle_proofs

-----------------------------------------------------------------------------
(* Messages of a kind in a channel.  A kind is a set of messages.            *)

Has(s, K)  == \E i \in DOMAIN s : s[i] \in K
Once(s, K) == \A i, k \in DOMAIN s : s[i] \in K /\ s[k] \in K => i = k

Tsks(j) == {m \in UpMsg : m.op = "tsk" /\ m.job = j}
Ends(j) == {m \in UpMsg : m.op = "sta" /\ m.job = j /\ m.status \in Stopped}

(* What is appended is there, beside what was there.                         *)
LEMMA HasConcat ==
    ASSUME NEW M, NEW s \in Seq(M), NEW t \in Seq(M), NEW K
    PROVE  Has(s \o t, K) <=> Has(s, K) \/ Has(t, K)
  <1>1. ASSUME NEW i \in DOMAIN s, s[i] \in K PROVE Has(s \o t, K)
    BY <1>1 DEF Has
  <1>2. ASSUME NEW i \in DOMAIN t, t[i] \in K PROVE Has(s \o t, K)
    <2>1. Len(s) + i \in DOMAIN (s \o t) /\ (s \o t)[Len(s) + i] = t[i]
      OBVIOUS
    <2>2. QED
      BY <1>2, <2>1 DEF Has
  <1>3. ASSUME NEW i \in DOMAIN (s \o t), (s \o t)[i] \in K PROVE Has(s, K) \/ Has(t, K)
    BY <1>3 DEF Has
  <1>4. QED
    BY <1>1, <1>2, <1>3 DEF Has

(* The first message of a kind is the only one after it is appended.         *)
LEMMA OnceConcat ==
    ASSUME NEW M, NEW s \in Seq(M), NEW t \in Seq(M), NEW K,
           Once(s, K), Once(t, K), ~Has(s, K) \/ ~Has(t, K)
    PROVE  Once(s \o t, K)
  <1> SUFFICES ASSUME NEW i \in DOMAIN (s \o t), NEW k \in DOMAIN (s \o t),
                      (s \o t)[i] \in K, (s \o t)[k] \in K
               PROVE  i = k
    BY DEF Once
  <1>1. \A n \in DOMAIN (s \o t) :
          \/ n \in DOMAIN s /\ (s \o t)[n] = s[n]
          \/ n - Len(s) \in DOMAIN t /\ (s \o t)[n] = t[n - Len(s)]
    OBVIOUS
  <1>2. i \in Int /\ k \in Int /\ Len(s) \in Int
    OBVIOUS
  <1>3. CASE ~Has(t, K)
    BY <1>1, <1>3 DEF Has, Once
  <1>4. CASE ~Has(s, K)
    <2>1. i - Len(s) = k - Len(s)
      BY <1>1, <1>4 DEF Has, Once
    <2>2. QED
      BY <1>2, <2>1
  <1>5. QED
    BY <1>3, <1>4

(* What is there is at the head or behind it.                                *)
LEMMA HasTail ==
    ASSUME NEW M, NEW s \in Seq(M), s # <<>>, NEW K
    PROVE  Has(s, K) <=> Head(s) \in K \/ Has(Tail(s), K)
  <1>1. 1 \in DOMAIN s /\ Head(s) = s[1]
    OBVIOUS
  <1>2. \A i \in DOMAIN Tail(s) : i + 1 \in DOMAIN s /\ Tail(s)[i] = s[i + 1]
    OBVIOUS
  <1>3. \A i \in DOMAIN s : i = 1 \/ (i - 1 \in DOMAIN Tail(s) /\ Tail(s)[i - 1] = s[i])
    OBVIOUS
  <1>4. QED
    BY <1>1, <1>2, <1>3 DEF Has

(* The only message of a kind is not there any more when it is taken.        *)
LEMMA OnceTail ==
    ASSUME NEW M, NEW s \in Seq(M), s # <<>>, NEW K, Once(s, K)
    PROVE  Once(Tail(s), K) /\ (Head(s) \in K => ~Has(Tail(s), K))
  <1>1. 1 \in DOMAIN s /\ Head(s) = s[1]
    OBVIOUS
  <1>2. \A i \in DOMAIN Tail(s) : i \in Int /\ i >= 1 /\ i + 1 \in DOMAIN s /\ Tail(s)[i] = s[i + 1]
    OBVIOUS
  <1>3. Once(Tail(s), K)
    <2> SUFFICES ASSUME NEW i \in DOMAIN Tail(s), NEW k \in DOMAIN Tail(s),
                        Tail(s)[i] \in K, Tail(s)[k] \in K
                 PROVE  i = k
      BY DEF Once
    <2>1. i + 1 = k + 1
      BY <1>2 DEF Once
    <2>2. QED
      BY <1>2, <2>1
  <1>4. ASSUME Head(s) \in K, Has(Tail(s), K) PROVE FALSE
    BY <1>1, <1>2, <1>4 DEF Has, Once
  <1>5. QED
    BY <1>3, <1>4

(* The same for the channels of all the nodes, when messages are sent ...    *)
LEMMA SentHas ==
    ASSUME NEW M, NEW ch \in [Daemons -> Seq(M)], NEW S, NEW msgs \in Seq(M),
           NEW d \in Daemons, NEW K
    PROVE  /\ Has(Sent(ch, S, msgs)[d], K) <=> Has(ch[d], K) \/ (d \in S /\ conn[d] /\ Has(msgs, K))
           /\ Once(ch[d], K) /\ Once(msgs, K) /\ (~Has(ch[d], K) \/ ~Has(msgs, K) \/ d \notin S)
              => Once(Sent(ch, S, msgs)[d], K)
  <1>1. CASE d \in S /\ conn[d]
    <2>1. Sent(ch, S, msgs)[d] = ch[d] \o msgs
      BY <1>1 DEF Sent
    <2>2. QED
      BY <1>1, <2>1, HasConcat, OnceConcat
  <1>2. CASE ~(d \in S /\ conn[d])
    <2>1. Sent(ch, S, msgs)[d] = ch[d]
      BY <1>2 DEF Sent
    <2>2. QED
      BY <1>2, <2>1
  <1>3. QED
    BY <1>1, <1>2

(* ... and when one is taken.                                                *)
LEMMA PoppedHas ==
    ASSUME NEW M, NEW ch \in [Daemons -> Seq(M)], NEW d \in Daemons, ch[d] # <<>>,
           NEW e \in Daemons, NEW K
    PROVE  /\ Has(Popped(ch, d)[e], K) => Has(ch[e], K)
           /\ Has(ch[e], K) => Has(Popped(ch, d)[e], K) \/ (e = d /\ Head(ch[d]) \in K)
           /\ Once(ch[e], K) => Once(Popped(ch, d)[e], K)
           /\ Once(ch[e], K) /\ e = d /\ Head(ch[d]) \in K => ~Has(Popped(ch, d)[e], K)
  <1>1. CASE e = d
    <2>1. Popped(ch, d)[e] = Tail(ch[d])
      BY <1>1 DEF Popped
    <2>2. QED
      BY <1>1, <2>1, HasTail, OnceTail
  <1>2. CASE e # d
    <2>1. Popped(ch, d)[e] = ch[e]
      BY <1>2 DEF Popped
    <2>2. QED
      BY <1>2, <2>1
  <1>3. QED
    BY <1>1, <1>2

(* The kinds that the messages of gebrd are of.                              *)
LEMMA KindsOfReports ==
    ASSUME NEW j \in Jobs, NEW s \in TaskStatus, NEW issues \in BOOLEAN, NEW x \in Jobs
    PROVE  /\ Has(<<Tsk(j, issues), Sta(j, s)>>, Tsks(x)) <=> x = j
           /\ Has(<<Tsk(j, issues), Sta(j, s)>>, Ends(x)) <=> x = j /\ s \in Stopped
           /\ Once(<<Tsk(j, issues), Sta(j, s)>>, Tsks(x))
           /\ Once(<<Tsk(j, issues), Sta(j, s)>>, Ends(x))
           /\ ~Has(<<Sta(j, s)>>, Tsks(x)) /\ Once(<<Sta(j, s)>>, Tsks(x))
           /\ Has(<<Sta(j, s)>>, Ends(x)) <=> x = j /\ s \in Stopped
           /\ Once(<<Sta(j, s)>>, Ends(x))
  <1>1. Tsk(j, issues) \in UpMsg /\ Sta(j, s) \in UpMsg
    BY DEF Tsk, Sta, UpMsg
  <1>2. /\ Tsk(j, issues) \in Tsks(x) <=> x = j
        /\ Tsk(j, issues) \notin Ends(x)
        /\ Sta(j, s) \notin Tsks(x)
        /\ Sta(j, s) \in Ends(x) <=> x = j /\ s \in Stopped
    <2>1. Tsk(j, issues).op = "tsk" /\ Tsk(j, issues).job = j
      BY DEF Tsk
    <2>2. Sta(j, s).op = "sta" /\ Sta(j, s).job = j /\ Sta(j, s).status = s
      BY DEF Sta
    <2>3. QED
      BY <1>1, <2>1, <2>2 DEF Tsks, Ends
  <1> DEFINE m == <<Tsk(j, issues), Sta(j, s)>>
             n == <<Sta(j, s)>>
  <1>3. DOMAIN m = {1, 2} /\ m[1] = Tsk(j, issues) /\ m[2] = Sta(j, s)
    OBVIOUS
  <1>4. DOMAIN n = {1} /\ n[1] = Sta(j, s)
    OBVIOUS
  <1> HIDE DEF m, n
  <1>5. /\ Has(m, Tsks(x)) <=> x = j
        /\ Has(m, Ends(x)) <=> x = j /\ s \in Stopped
        /\ Once(m, Tsks(x)) /\ Once(m, Ends(x))
    BY <1>2, <1>3 DEF Has, Once
  <1>6. /\ ~Has(n, Tsks(x)) /\ Once(n, Tsks(x))
        /\ Has(n, Ends(x)) <=> x = j /\ s \in Stopped
        /\ Once(n, Ends(x))
    BY <1>2, <1>4 DEF Has, Once
  <1>7. QED
    BY <1>5, <1>6 DEF m, n

(* The kinds that the messages of the maestro are of.                        *)
LEMMA KindsOfOrders ==
    ASSUME NEW j \in Jobs, NEW x \in Jobs
    PROVE  /\ Has(<<Run(j)>>, {Run(x)}) <=> x = j
           /\ ~Has(<<Run(j)>>, {Kil(x)})
           /\ ~Has(<<Kil(j)>>, {Run(x)}) /\ ~Has(<<Kil(j), Kil(j)>>, {Run(x)})
           /\ ~Has(<<Clr(j)>>, {Run(x)})
           /\ Has(<<Kil(j)>>, {Kil(j)}) /\ Has(<<Kil(j), Kil(j)>>, {Kil(j)})
  <1>1. /\ Run(j) = Run(x) <=> x = j
        /\ Run(j) # Kil(x) /\ Kil(j) # Run(x) /\ Clr(j) # Run(x)
    <2>1. /\ Run(j).op = "run" /\ Run(j).job = j /\ Run(x).op = "run" /\ Run(x).job = x
          /\ Kil(j).op = "kil" /\ Kil(x).op = "kil" /\ Clr(j).op = "clr"
      BY DEF Run, Kil, Clr
    <2>2. QED
      BY <2>1
  <1>2. \A a, K : Has(<<a>>, K) <=> a \in K
    BY DEF Has
  <1>3. \A a, K : Has(<<a, a>>, K) <=> a \in K
    BY DEF Has
  <1>4. QED
    BY <1>1, <1>2, <1>3

-----------------------------------------------------------------------------
(* What the steps do to the channels, as far as the kinds of messages go.    *)

(* The types that the channel lemmas need.                                   *)
LEMMA Channels ==
    ASSUME IInv
    PROVE  /\ TypeOK
           /\ up \in [Daemons -> Seq(UpMsg)] /\ down \in [Daemons -> Seq(DownMsg)]
           /\ conn \in [Daemons -> BOOLEAN] /\ alive \in [Daemons -> BOOLEAN]
           /\ gjob \in [Daemons -> [Jobs -> {"none"} \cup TaskStatus]]
           /\ tasks \in [Jobs -> SUBSET Daemons] /\ assigned \in [Jobs -> SUBSET Daemons]
           /\ status \in [Jobs -> {"none"} \cup JobStatus]
  BY DEF IInv, TypeOK, WireTypeOK, GebrdTypeOK, GebrmTypeOK

(* No message of a kind is about a job of which the node has no fraction.    *)
LEMMA NoReports ==
    ASSUME IInv, NEW d \in Daemons, NEW j \in Jobs, d \notin assigned[j]
    PROVE  ~Has(up[d], Tsks(j)) /\ ~Has(up[d], Ends(j)) /\ ~Has(down[d], {Run(j)})
  <1>1. ~Has(up[d], Tsks(j)) /\ ~Has(up[d], Ends(j))
    BY DEF IInv, ExecInv, ReportsTrue, Has, Tsks, Ends
  <1>2. ASSUME NEW i \in DOMAIN down[d], down[d][i] = Run(j) PROVE FALSE
    <2>1. down[d][i].op = "run" /\ down[d][i].job = j
      BY <1>2 DEF Run
    <2>2. QED
      BY <2>1 DEF IInv, ExecInv, RunsUnique
  <1>3. QED
    BY <1>1, <1>2 DEF Has

(* KIL and CLR messages add no RUN and remove no KIL.                        *)
LEMMA OrdersSent ==
    ASSUME IInv, NEW j \in Jobs, NEW S,
           \/ down' = down
           \/ down' = Sent(down, S, <<Kil(j)>>)
           \/ down' = Sent(down, S, <<Kil(j), Kil(j)>>)
           \/ down' = Sent(down, S, <<Clr(j)>>)
    PROVE  /\ \A e \in Daemons, x \in Jobs :
                /\ Has(down'[e], {Run(x)}) => Has(down[e], {Run(x)})
                /\ Has(down[e], {Kil(x)}) => Has(down'[e], {Kil(x)})
           /\ down' = Sent(down, S, <<Kil(j)>>) \/ down' = Sent(down, S, <<Kil(j), Kil(j)>>)
              => \A e \in Daemons : e \in S /\ conn[e] => Has(down'[e], {Kil(j)})
  <1> DEFINE Ms == {<<Kil(j)>>, <<Kil(j), Kil(j)>>, <<Clr(j)>>}
  <1>1. \A m \in Ms : m \in Seq(DownMsg)
    BY MessageTypes
  <1>2. \A m \in Ms, x \in Jobs : ~Has(m, {Run(x)})
    <2>1. \A x \in Jobs : /\ ~Has(<<Kil(j)>>, {Run(x)}) /\ ~Has(<<Kil(j), Kil(j)>>, {Run(x)})
                          /\ ~Has(<<Clr(j)>>, {Run(x)})
      BY KindsOfOrders
    <2>2. QED
      BY <2>1, Zenon
  <1>3. down \in [Daemons -> Seq(DownMsg)]
    BY Channels
  <1>4. ASSUME NEW m \in Ms, down' = Sent(down, S, m)
        PROVE  \A e \in Daemons, x \in Jobs :
                /\ Has(down'[e], {Run(x)}) => Has(down[e], {Run(x)})
                /\ Has(down[e], {Kil(x)}) => Has(down'[e], {Kil(x)})
    <2> HIDE DEF Ms
    <2>1. QED
      BY <1>1, <1>2, <1>3, <1>4, SentHas
  <1>5. ASSUME NEW m \in {<<Kil(j)>>, <<Kil(j), Kil(j)>>}, down' = Sent(down, S, m),
               NEW e \in Daemons, e \in S, conn[e]
        PROVE  Has(down'[e], {Kil(j)})
    <2>1. Has(<<Kil(j)>>, {Kil(j)}) /\ Has(<<Kil(j), Kil(j)>>, {Kil(j)})
      BY KindsOfOrders
    <2>2. m \in Seq(DownMsg) /\ Has(m, {Kil(j)})
      BY <1>1, <2>1, Zenon
    <2>3. QED
      BY <1>3, <1>5, <2>2, SentHas
  <1>6. \A e \in Daemons, x \in Jobs :
          /\ Has(down'[e], {Run(x)}) => Has(down[e], {Run(x)})
          /\ Has(down[e], {Kil(x)}) => Has(down'[e], {Kil(x)})
    <2>1. CASE down' = down
      BY <2>1
    <2>2. CASE \E m \in Ms : down' = Sent(down, S, m)
      BY <1>4, <2>2, Zenon
    <2>3. QED
      BY <2>1, <2>2, Zenon
  <1>7. QED
    BY <1>5, <1>6, Zenon

(* Handing a job out sends RUN, to nodes that had none of its fractions.     *)
LEMMA DispatchEffects ==
    ASSUME IInv, NEW j \in Jobs, DivideAndRunFlows(j) \/ MpiRunFlow(j)
    PROVE  /\ assigned[j] = {}
           /\ \A e \in Daemons, x \in Jobs :
                /\ Has(down'[e], {Run(x)}) => Has(down[e], {Run(x)}) \/ (x = j /\ e \in assigned'[j])
                /\ Has(down[e], {Kil(x)}) => Has(down'[e], {Kil(x)})
  <1>1. runner[j] # {} /\ down \in [Daemons -> Seq(DownMsg)]
    BY Channels DEF DivideAndRunFlows, MpiRunFlow
  <1>2. assigned[j] = {}
    BY <1>1 DEF IInv, ExecInv, HandedOutOnce
  <1>3. PICK S : down' = Sent(down, S, <<Run(j)>>) /\ assigned' = [assigned EXCEPT ![j] = S]
    <2>1. CASE DivideAndRunFlows(j)
      BY <2>1 DEF DivideAndRunFlows
    <2>2. CASE MpiRunFlow(j)
      BY <2>2 DEF MpiRunFlow
    <2>3. QED
      BY <2>1, <2>2
  <1>4. assigned'[j] = S
    BY <1>3, Channels
  <1> DEFINE m == <<Run(j)>>
  <1>5. /\ m \in Seq(DownMsg) /\ down' = Sent(down, S, m)
        /\ \A x \in Jobs : Has(m, {Run(x)}) => x = j
    BY <1>3, MessageTypes, KindsOfOrders, Zenon
  <1> HIDE DEF m
  <1>6. ASSUME NEW e \in Daemons, NEW x \in Jobs
        PROVE  /\ Has(down'[e], {Run(x)}) => Has(down[e], {Run(x)}) \/ (x = j /\ e \in assigned'[j])
               /\ Has(down[e], {Kil(x)}) => Has(down'[e], {Kil(x)})
    BY <1>1, <1>4, <1>5, SentHas
  <1>7. QED
    BY <1>2, <1>6

-----------------------------------------------------------------------------
(* The inductive invariant of the messages.                                  *)

(* While a RUN is on its way, nothing is known of the fraction it starts.    *)
RunFirst ==
    \A d \in Daemons, j \in Jobs : Has(down[d], {Run(j)}) =>
        /\ ~Has(up[d], Tsks(j)) /\ ~Has(up[d], Ends(j))
        /\ d \notin tasks[j] /\ gjob[d][j] = "none"

(* A fraction is announced once: its TSK is unread, or its task is there.    *)
AnnouncedOnce ==
    \A d \in Daemons, j \in Jobs :
        Once(up[d], Tsks(j)) /\ (Has(up[d], Tsks(j)) => d \notin tasks[j])

(* While gebrd is up, it has reported the end of a fraction at most once, and *)
(* of no fraction that runs.  (When it quits it reports FAILED once more.)   *)
EndsOnce ==
    \A d \in Daemons, j \in Jobs : alive[d] =>
        Once(up[d], Ends(j)) /\ (Has(up[d], Ends(j)) => gjob[d][j] # "running")

(* A gebrd that is down has no jobs.                                         *)
DeadIdle == \A d \in Daemons, j \in Jobs : ~alive[d] => gjob[d][j] = "none"

(* The maestro has the task of every fraction that runs on a connected node, *)
(* or will have it, unless the job was closed.                               *)
Announced ==
    \A d \in Daemons, j \in Jobs : gjob[d][j] = "running" /\ conn[d] /\ j \in jobs =>
        d \in tasks[j] \/ Has(up[d], Tsks(j))

(* FailedToldToDie, in terms of Has.                                         *)
ToldToDie ==
    \A j \in Jobs, d \in Daemons :
        /\ status[j] = "failed" /\ gjob[d][j] = "running" /\ conn[d]
        /\ j \in jobs \/ d \in tasks[j]
        => userFinished[d][j] \/ Has(down[d], {Kil(j)}) \/ Has(up[d], Tsks(j))

MessagesInv == RunFirst /\ AnnouncedOnce /\ EndsOnce /\ DeadIdle /\ Announced /\ ToldToDie

RInv == IInv /\ MessagesInv

(* Nothing is known of the fractions of a job that was not handed out.       *)
LEMMA NotHandedOut ==
    ASSUME IInv, NEW j \in Jobs, assigned[j] = {}, NEW d \in Daemons
    PROVE  /\ ~Has(up[d], Tsks(j)) /\ ~Has(up[d], Ends(j)) /\ ~Has(down[d], {Run(j)})
           /\ d \notin tasks[j] /\ gjob[d][j] = "none"
  <1>1. d \notin tasks[j] /\ gjob[d][j] = "none"
    BY DEF IInv, ExecInv, TotalCounts, ProcessesKnown
  <1>2. QED
    BY <1>1, NoReports

(* It holds at the start.                                                    *)
LEMMA InitMessages == Init => MessagesInv
  <1> SUFFICES ASSUME Init PROVE MessagesInv
    OBVIOUS
  <1>1. \A d \in Daemons : \A K : ~Has(up[d], K) /\ ~Has(down[d], K) /\ Once(up[d], K)
    BY DEF Init, WireInit, Has, Once
  <1>2. \A d \in Daemons, j \in Jobs : gjob[d][j] = "none"
    BY DEF Init, GebrdInit
  <1>3. QED
    BY <1>1, <1>2 DEF MessagesInv, RunFirst, AnnouncedOnce, EndsOnce, DeadIdle, Announced, ToldToDie

(* What clients and the runner make the maestro do keeps it.                 *)
LEMMA MaestroMessages ==
    ASSUME RInv, NEW j \in Jobs, Maestro(j)
    PROVE  MessagesInv'
  <1>1. IInv /\ MessagesInv
    BY DEF RInv
  <1>2. UNCHANGED <<conn, up, tasks, alive, gjob, userFinished>>
    BY DEF Maestro, Submit, RunAsync, DivideAndRunFlows, MpiRunFlow, MpiRan, KillRequest,
           CloseRequest, wireVars, gebrdVars
  <1>3. \A e \in Daemons, x \in Jobs :
          /\ Has(down'[e], {Run(x)}) => Has(down[e], {Run(x)}) \/ (x = j /\ assigned[j] = {})
          /\ Has(down[e], {Kil(x)}) => Has(down'[e], {Kil(x)})
    <2>1. CASE DivideAndRunFlows(j) \/ MpiRunFlow(j)
      BY <1>1, <2>1, DispatchEffects
    <2>2. CASE ~(DivideAndRunFlows(j) \/ MpiRunFlow(j))
      <3>1. \/ down' = down
            \/ down' = Sent(down, tasks[j], <<Kil(j)>>)
            \/ down' = Sent(down, tasks[j], <<Clr(j)>>)
        BY <2>2 DEF Maestro, Submit, RunAsync, MpiRan, KillRequest, CloseRequest, wireVars
      <3>2. QED
        BY <1>1, <3>1, OrdersSent
    <2>3. QED
      BY <2>1, <2>2
  <1>4. status \in [Jobs -> {"none"} \cup JobStatus]
    BY <1>1, Channels
  <1>5. \A x \in Jobs : /\ x \in jobs' => x \in jobs \/ status[x] = "none"
                        /\ status'[x] = "failed" => status[x] \in {"failed", "none"}
    BY <1>4 DEF Maestro, Submit, RunAsync, DivideAndRunFlows, MpiRunFlow, MpiRan, KillRequest,
                CloseRequest
  <1>6. \A x \in Jobs, e \in Daemons : status[x] = "none" => gjob[e][x] = "none"
    <2>1. \A x \in Jobs : status[x] = "none" => assigned[x] = {}
      BY <1>1 DEF IInv, ExecInv, HandedOutOnce
    <2>2. QED
      BY <1>1, <2>1, NotHandedOut
  <1>7. RunFirst'
    <2>1. \A e \in Daemons : assigned[j] = {} =>
              /\ ~Has(up[e], Tsks(j)) /\ ~Has(up[e], Ends(j))
              /\ e \notin tasks[j] /\ gjob[e][j] = "none"
      BY <1>1, NotHandedOut
    <2>2. QED
      BY <1>1, <1>2, <1>3, <2>1 DEF MessagesInv, RunFirst
  <1>8. AnnouncedOnce' /\ EndsOnce' /\ DeadIdle'
    BY <1>1, <1>2 DEF MessagesInv, AnnouncedOnce, EndsOnce, DeadIdle
  <1>9. Announced'
    BY <1>1, <1>2, <1>5, <1>6 DEF MessagesInv, Announced
  <1>10. ToldToDie'
    BY <1>1, <1>2, <1>3, <1>5, <1>6 DEF MessagesInv, ToldToDie
  <1>11. QED
    BY <1>7, <1>8, <1>9, <1>10 DEF MessagesInv

(* What the maestro reads is gone from the channel, and nothing else.        *)
LEMMA ReportRead ==
    ASSUME IInv, NEW d \in Daemons, up[d] # <<>>, up' = Popped(up, d),
           NEW e \in Daemons, NEW x \in Jobs
    PROVE  LET h == Head(up[d])
               t == e = d /\ h.op = "tsk" /\ h.job = x
               s == e = d /\ h.op = "sta" /\ h.job = x /\ h.status \in Stopped
           IN /\ Has(up'[e], Tsks(x)) => Has(up[e], Tsks(x))
              /\ Has(up[e], Tsks(x)) => Has(up'[e], Tsks(x)) \/ t
              /\ t => Has(up[e], Tsks(x))
              /\ Once(up[e], Tsks(x)) => Once(up'[e], Tsks(x)) /\ (t => ~Has(up'[e], Tsks(x)))
              /\ Has(up'[e], Ends(x)) => Has(up[e], Ends(x))
              /\ s => Has(up[e], Ends(x))
              /\ Once(up[e], Ends(x)) => Once(up'[e], Ends(x)) /\ (s => ~Has(up'[e], Ends(x)))
  <1> DEFINE h == Head(up[d])
             t == e = d /\ h.op = "tsk" /\ h.job = x
             s == e = d /\ h.op = "sta" /\ h.job = x /\ h.status \in Stopped
  <1>1. up \in [Daemons -> Seq(UpMsg)] /\ h \in UpMsg
    BY Channels
  <1>2. h \in Tsks(x) <=> h.op = "tsk" /\ h.job = x
    BY <1>1 DEF Tsks
  <1>3. h \in Ends(x) <=> h.op = "sta" /\ h.job = x /\ h.status \in Stopped
    BY <1>1 DEF Ends
  <1>4. 1 \in DOMAIN up[d] /\ up[d][1] = h
    BY <1>1
  <1>5. h \in Tsks(x) => Has(up[d], Tsks(x))
    BY <1>4 DEF Has
  <1>6. h \in Ends(x) => Has(up[d], Ends(x))
    BY <1>4 DEF Has
  <1> HIDE DEF h
  <1>7. \A K : /\ Has(up'[e], K) => Has(up[e], K)
               /\ Has(up[e], K) => Has(up'[e], K) \/ (e = d /\ h \in K)
               /\ Once(up[e], K) => Once(up'[e], K)
               /\ Once(up[e], K) /\ e = d /\ h \in K => ~Has(up'[e], K)
    BY <1>1, PoppedHas DEF h
  <1>8. QED
    BY <1>2, <1>3, <1>5, <1>6, <1>7 DEF h

(* What gebrd_run's TSK does at the maestro keeps it: with the task in the   *)
(* list, a job that has failed meanwhile answers with a KIL.                 *)
LEMMA TaskDefineMessages ==
    ASSUME RInv, NEW d \in Daemons, TaskDefine(d), UNCHANGED gebrdVars
    PROVE  MessagesInv'
  <1> DEFINE j  == Head(up[d]).job
             tk == tasks[j] \cup {d}
             ts == [taskStatus[j] EXCEPT ![d] = "running"]
  <1>1. IInv /\ MessagesInv
    BY DEF RInv
  <1>2. /\ up[d] # <<>> /\ Head(up[d]).op = "tsk" /\ conn[d] /\ up' = Popped(up, d)
        /\ UNCHANGED <<conn, jobs, alive, gjob, userFinished>>
    BY DEF TaskDefine, Delivers, gebrdVars
  <1>3. /\ j \in Jobs
        /\ status \in [Jobs -> {"none"} \cup JobStatus] /\ tasks \in [Jobs -> SUBSET Daemons]
    BY <1>1, <1>2, HeadReport, Channels
  <1>4. \/ j \notin jobs /\ tasks' = tasks /\ status' = status /\ down' = down
        \/ /\ j \in jobs /\ tasks' = [tasks EXCEPT ![j] = tk]
           /\ status' = [status EXCEPT ![j] = ChangedStatus(j, tk, ts, "running")]
           /\ \/ down' = Sent(down, ToKill(j, d, tk, ts, "running"), <<Kil(j)>>)
              \/ down' = Sent(down, ToKill(j, d, tk, ts, "running"), <<Kil(j), Kil(j)>>)
    BY DEF TaskDefine
  <1> HIDE DEF j
  <1>5. \A e \in Daemons, x \in Jobs :
          /\ Has(up'[e], Tsks(x)) => Has(up[e], Tsks(x))
          /\ Has(up[e], Tsks(x)) => Has(up'[e], Tsks(x)) \/ (e = d /\ x = j)
          /\ Once(up'[e], Tsks(x))
          /\ Has(up'[e], Ends(x)) => Has(up[e], Ends(x))
          /\ Once(up[e], Ends(x)) => Once(up'[e], Ends(x))
    BY <1>1, <1>2, ReportRead DEF MessagesInv, AnnouncedOnce, j
  <1>6. Has(up[d], Tsks(j)) /\ ~Has(up'[d], Tsks(j))
    BY <1>1, <1>2, <1>3, ReportRead DEF MessagesInv, AnnouncedOnce, j
  <1>7. \A x \in Jobs : status'[x] = "failed" => status[x] = "failed"
    BY <1>3, <1>4 DEF ChangedStatus, IsStopped, Stopped
  <1> DEFINE S == ToKill(j, d, tk, ts, "running")
  <1>8. status[j] = "failed" => S = {d}
    BY DEF ToKill, IsStopped, Stopped
  <1> HIDE DEF tk, ts, S
  <1>9. \A e \in Daemons, x \in Jobs :
          /\ Has(down'[e], {Run(x)}) => Has(down[e], {Run(x)})
          /\ Has(down[e], {Kil(x)}) => Has(down'[e], {Kil(x)})
    BY <1>1, <1>3, <1>4, OrdersSent DEF S
  <1>10. j \in jobs /\ status[j] = "failed" => Has(down'[d], {Kil(j)})
    BY <1>1, <1>2, <1>3, <1>4, <1>8, OrdersSent DEF S
  <1>11. /\ \A x \in Jobs : tasks'[x] = tasks[x] \/ (x = j /\ tasks'[x] = tasks[x] \cup {d})
         /\ j \in jobs => d \in tasks'[j]
         /\ j \notin jobs => tasks' = tasks
    BY <1>3, <1>4 DEF tk
  <1>12. RunFirst'
    <2> SUFFICES ASSUME NEW e \in Daemons, NEW x \in Jobs, Has(down'[e], {Run(x)})
                 PROVE  /\ ~Has(up'[e], Tsks(x)) /\ ~Has(up'[e], Ends(x))
                        /\ e \notin tasks'[x] /\ gjob[e][x] = "none"
      BY <1>2 DEF RunFirst
    <2>1. /\ ~Has(up[e], Tsks(x)) /\ ~Has(up[e], Ends(x))
          /\ e \notin tasks[x] /\ gjob[e][x] = "none"
      BY <1>1, <1>9 DEF MessagesInv, RunFirst
    <2>2. QED
      BY <1>5, <1>6, <1>11, <2>1
  <1>13. AnnouncedOnce'
    BY <1>1, <1>5, <1>6, <1>11 DEF MessagesInv, AnnouncedOnce
  <1>14. EndsOnce' /\ DeadIdle'
    BY <1>1, <1>2, <1>5 DEF MessagesInv, EndsOnce, DeadIdle
  <1>15. Announced'
    BY <1>1, <1>2, <1>5, <1>11 DEF MessagesInv, Announced
  <1>16. ToldToDie'
    <2> SUFFICES ASSUME NEW x \in Jobs, NEW e \in Daemons,
                        status'[x] = "failed", gjob[e][x] = "running", conn[e],
                        x \in jobs \/ e \in tasks'[x]
                 PROVE  userFinished[e][x] \/ Has(down'[e], {Kil(x)}) \/ Has(up'[e], Tsks(x))
      BY <1>2 DEF ToldToDie
    <2>1. CASE e = d /\ x = j
      BY <1>1, <1>3, <1>6, <1>7, <1>10, <1>11, <2>1 DEF MessagesInv, AnnouncedOnce
    <2>2. CASE ~(e = d /\ x = j)
      <3>1. x \in jobs \/ e \in tasks[x]
        BY <1>3, <1>11, <2>2
      <3>2. QED
        BY <1>1, <1>5, <1>7, <1>9, <2>2, <3>1 DEF MessagesInv, ToldToDie
    <2>3. QED
      BY <2>1, <2>2
  <1>17. QED
    BY <1>12, <1>13, <1>14, <1>15, <1>16 DEF MessagesInv

(* So does an STA: the FAILED that stops a job is followed by a KIL to each  *)
(* of its tasks.                                                             *)
LEMMA StatusChangedMessages ==
    ASSUME RInv, NEW d \in Daemons, StatusChanged(d), UNCHANGED gebrdVars
    PROVE  MessagesInv'
  <1> DEFINE j   == Head(up[d]).job
             new == Head(up[d]).status
             ts  == [taskStatus[j] EXCEPT ![d] = new]
             S   == ToKill(j, d, tasks[j], ts, new)
  <1>1. IInv /\ MessagesInv
    BY DEF RInv
  <1>2. /\ up[d] # <<>> /\ Head(up[d]).op = "sta" /\ up' = Popped(up, d)
        /\ UNCHANGED <<conn, jobs, tasks, alive, gjob, userFinished>>
    BY DEF StatusChanged, Delivers, gebrdVars
  <1>3. j \in Jobs /\ status \in [Jobs -> {"none"} \cup JobStatus]
    BY <1>1, <1>2, HeadReport, Channels
  <1>4. \/ status' = status /\ down' = down
        \/ /\ status' = [status EXCEPT ![j] = ChangedStatus(j, tasks[j], ts, new)]
           /\ down' = Sent(down, S, <<Kil(j)>>)
    BY DEF StatusChanged
  <1>5. \A e \in Daemons, x \in Jobs :
          /\ Has(up'[e], Tsks(x)) <=> Has(up[e], Tsks(x))
          /\ Once(up'[e], Tsks(x))
          /\ Has(up'[e], Ends(x)) => Has(up[e], Ends(x))
          /\ Once(up[e], Ends(x)) => Once(up'[e], Ends(x))
    BY <1>1, <1>2, ReportRead DEF MessagesInv, AnnouncedOnce
  <1> HIDE DEF j, new, ts
  <1>6. /\ \A x \in Jobs : status'[x] = "failed" /\ x # j => status[x] = "failed"
        /\ status'[j] = "failed" => status[j] = "failed"
                                    \/ (S = tasks[j] /\ down' = Sent(down, S, <<Kil(j)>>))
    BY <1>3, <1>4 DEF ToKill, IsStopped, Stopped, ChangedStatus
  <1> HIDE DEF S
  <1>7. /\ \A e \in Daemons, x \in Jobs :
             /\ Has(down'[e], {Run(x)}) => Has(down[e], {Run(x)})
             /\ Has(down[e], {Kil(x)}) => Has(down'[e], {Kil(x)})
        /\ down' = Sent(down, S, <<Kil(j)>>) =>
             \A e \in Daemons : e \in S /\ conn[e] => Has(down'[e], {Kil(j)})
    BY <1>1, <1>3, <1>4, OrdersSent
  <1>8. /\ RunFirst' /\ AnnouncedOnce' /\ EndsOnce' /\ DeadIdle' /\ Announced'
    <2>1. RunFirst'
      BY <1>1, <1>2, <1>5, <1>7 DEF MessagesInv, RunFirst
    <2>2. AnnouncedOnce'
      BY <1>1, <1>2, <1>5 DEF MessagesInv, AnnouncedOnce
    <2>3. EndsOnce' /\ DeadIdle' /\ Announced'
      BY <1>1, <1>2, <1>5 DEF MessagesInv, EndsOnce, DeadIdle, Announced
    <2>4. QED
      BY <2>1, <2>2, <2>3
  <1>9. ToldToDie'
    <2> SUFFICES ASSUME NEW x \in Jobs, NEW e \in Daemons,
                        status'[x] = "failed", gjob[e][x] = "running", conn[e],
                        x \in jobs \/ e \in tasks[x]
                 PROVE  userFinished[e][x] \/ Has(down'[e], {Kil(x)}) \/ Has(up'[e], Tsks(x))
      BY <1>2 DEF ToldToDie
    <2>1. CASE status[x] = "failed"
      BY <1>1, <1>5, <1>7, <2>1 DEF MessagesInv, ToldToDie
    <2>2. CASE status[x] # "failed"
      <3>1. x = j /\ S = tasks[j] /\ down' = Sent(down, S, <<Kil(j)>>)
        BY <1>6, <2>2
      <3>2. CASE e \in tasks[x]
        BY <1>7, <3>1, <3>2
      <3>3. CASE e \notin tasks[x]
        BY <1>1, <1>5, <3>3 DEF MessagesInv, Announced
      <3>4. QED
        BY <3>2, <3>3
    <2>3. QED
      BY <2>1, <2>2
  <1>10. QED
    BY <1>8, <1>9 DEF MessagesInv

(* What gebrd reads is gone from the channel, and nothing else.              *)
LEMMA OrderRead ==
    ASSUME IInv, NEW d \in Daemons, down[d] # <<>>, down' = Popped(down, d),
           NEW e \in Daemons, NEW x \in Jobs
    PROVE  /\ Has(down'[e], {Run(x)}) => Has(down[e], {Run(x)})
           /\ Has(down[e], {Kil(x)}) =>
                Has(down'[e], {Kil(x)}) \/ (e = d /\ Head(down[d]).op = "kil" /\ Head(down[d]).job = x)
           /\ e = d /\ Head(down[d]).op = "run" /\ Head(down[d]).job = x =>
                Has(down[e], {Run(x)}) /\ ~Has(down'[e], {Run(x)})
  <1>1. down \in [Daemons -> Seq(DownMsg)] /\ Head(down[d]) \in DownMsg
    BY Channels
  <1>2. Head(down[d]).op = "run" /\ Head(down[d]).job = x => Head(down[d]) = Run(x)
    BY <1>1 DEF DownMsg, Run
  <1>3. Head(down[d]) = Kil(x) => Head(down[d]).op = "kil" /\ Head(down[d]).job = x
    BY DEF Kil
  <1>4. 1 \in DOMAIN down[d] /\ down[d][1] = Head(down[d])
    BY <1>1
  <1>5. Head(down[d]) = Run(x) => Has(down[d], {Run(x)})
    BY <1>4 DEF Has
  <1>6. Once(down[e], {Run(x)})
    <2>1. Run(x).op = "run" /\ Run(x).job = x
      BY DEF Run
    <2>2. QED
      BY <2>1 DEF Once, IInv, ExecInv, RunsUnique
  <1> DEFINE h == Head(down[d])
  <1> HIDE DEF h
  <1>7. \A K : /\ Has(down'[e], K) => Has(down[e], K)
               /\ Has(down[e], K) => Has(down'[e], K) \/ (e = d /\ h \in K)
               /\ Once(down[e], K) /\ e = d /\ h \in K => ~Has(down'[e], K)
    BY <1>1, PoppedHas DEF h
  <1>8. \A m : h \in {m} <=> h = m
    OBVIOUS
  <1>9. QED
    BY <1>2, <1>3, <1>5, <1>6, <1>7, <1>8, Zenon DEF h

(* RUN at a node: the fraction is announced, if the connection still stands, *)
(* and either runs or is reported FAILED.                                    *)
LEMMA GebrdRunEffects ==
    ASSUME IInv, NEW d \in Daemons, GebrdRun(d)
    PROVE  \E s \in {"failed", "running"} :
             LET j == Head(down[d]).job
             IN /\ j \in Jobs /\ gjob' = [gjob EXCEPT ![d][j] = s]
                /\ Has(down[d], {Run(j)}) /\ ~Has(down'[d], {Run(j)})
                /\ \A e \in Daemons, x \in Jobs :
                     /\ Has(down'[e], {Run(x)}) => Has(down[e], {Run(x)})
                     /\ Has(down[e], {Kil(x)}) => Has(down'[e], {Kil(x)})
                     /\ Has(up'[e], Tsks(x)) <=> Has(up[e], Tsks(x)) \/ (e = d /\ x = j /\ conn[d])
                     /\ Has(up'[e], Ends(x)) =>
                          Has(up[e], Ends(x)) \/ (e = d /\ x = j /\ s = "failed")
                     /\ Once(up[e], Tsks(x)) /\ (e = d /\ x = j => ~Has(up[e], Tsks(x)))
                          => Once(up'[e], Tsks(x))
                     /\ Once(up[e], Ends(x)) /\ (e = d /\ x = j => ~Has(up[e], Ends(x)))
                          => Once(up'[e], Ends(x))
  <1> DEFINE j == Head(down[d]).job
  <1>1. /\ down[d] # <<>> /\ Head(down[d]).op = "run" /\ down' = Popped(down, d)
        /\ up \in [Daemons -> Seq(UpMsg)]
    BY Channels DEF GebrdRun, Receives
  <1>2. j \in Jobs
    BY <1>1, HeadTypes, Channels
  <1>3. PICK issues \in BOOLEAN, s \in {"failed", "running"} :
          /\ gjob' = [gjob EXCEPT ![d][j] = s]
          /\ up' = Sent(up, {d}, <<Tsk(j, issues), Sta(j, s)>>)
    <2>1. PICK issues \in IssueChoices, critical_error \in BOOLEAN :
            LET s == IF critical_error THEN "failed" ELSE "running"
            IN /\ gjob' = [gjob EXCEPT ![d][j] = s]
               /\ up' = Sent(up, {d}, <<Tsk(j, issues), Sta(j, s)>>)
      BY DEF GebrdRun
    <2>2. issues \in BOOLEAN
      BY GebrdAssumption
    <2> HIDE DEF j
    <2>3. QED
      BY <2>1, <2>2
  <1>4. Has(down[d], {Run(j)}) /\ ~Has(down'[d], {Run(j)})
    <2>1. \A e \in Daemons, x \in Jobs :
            e = d /\ Head(down[d]).op = "run" /\ Head(down[d]).job = x
              => Has(down[e], {Run(x)}) /\ ~Has(down'[e], {Run(x)})
      BY <1>1, OrderRead
    <2>2. QED
      BY <1>1, <1>2, <2>1, Zenon
  <1> HIDE DEF j
  <1> DEFINE m == <<Tsk(j, issues), Sta(j, s)>>
  <1>5. s \in TaskStatus /\ (s \in Stopped <=> s = "failed")
    BY DEF TaskStatus, Stopped
  <1>6. /\ m \in Seq(UpMsg) /\ up' = Sent(up, {d}, m)
        /\ \A x \in Jobs : /\ Has(m, Tsks(x)) <=> x = j
                           /\ Has(m, Ends(x)) <=> x = j /\ s = "failed"
                           /\ Once(m, Tsks(x)) /\ Once(m, Ends(x))
    BY <1>2, <1>3, <1>5, MessageTypes, KindsOfReports
  <1> HIDE DEF m
  <1>7. \A e \in Daemons, x \in Jobs :
          /\ Has(down'[e], {Run(x)}) => Has(down[e], {Run(x)})
          /\ Has(down[e], {Kil(x)}) => Has(down'[e], {Kil(x)})
    BY <1>1, OrderRead
  <1>8. ASSUME NEW e \in Daemons, NEW x \in Jobs
        PROVE  /\ Has(up'[e], Tsks(x)) <=> Has(up[e], Tsks(x)) \/ (e = d /\ x = j /\ conn[d])
               /\ Has(up'[e], Ends(x)) =>
                    Has(up[e], Ends(x)) \/ (e = d /\ x = j /\ s = "failed")
               /\ Once(up[e], Tsks(x)) /\ (e = d /\ x = j => ~Has(up[e], Tsks(x)))
                    => Once(up'[e], Tsks(x))
               /\ Once(up[e], Ends(x)) /\ (e = d /\ x = j => ~Has(up[e], Ends(x)))
                    => Once(up'[e], Ends(x))
    BY <1>1, <1>6, SentHas
  <1>9. QED
    BY <1>2, <1>3, <1>7, <1>4, <1>8 DEF j

(* The messages stay in order when a RUN is read.                            *)
LEMMA GebrdRunMessages ==
    ASSUME RInv, NEW d \in Daemons, GebrdRun(d), UNCHANGED gebrmVars
    PROVE  MessagesInv'
  <1> DEFINE j == Head(down[d]).job
  <1>1. IInv /\ MessagesInv /\ gjob \in [Daemons -> [Jobs -> {"none"} \cup TaskStatus]]
    BY Channels DEF RInv
  <1>2. UNCHANGED <<conn, alive, userFinished, status, jobs, tasks>> /\ alive[d]
    BY DEF GebrdRun, Receives, gebrmVars
  <1>3. PICK s \in {"failed", "running"} :
          /\ j \in Jobs /\ gjob' = [gjob EXCEPT ![d][j] = s]
          /\ Has(down[d], {Run(j)}) /\ ~Has(down'[d], {Run(j)})
          /\ \A e \in Daemons, x \in Jobs :
               /\ Has(down'[e], {Run(x)}) => Has(down[e], {Run(x)})
               /\ Has(down[e], {Kil(x)}) => Has(down'[e], {Kil(x)})
               /\ Has(up'[e], Tsks(x)) <=> Has(up[e], Tsks(x)) \/ (e = d /\ x = j /\ conn[d])
               /\ Has(up'[e], Ends(x)) => Has(up[e], Ends(x)) \/ (e = d /\ x = j /\ s = "failed")
               /\ Once(up[e], Tsks(x)) /\ (e = d /\ x = j => ~Has(up[e], Tsks(x)))
                    => Once(up'[e], Tsks(x))
               /\ Once(up[e], Ends(x)) /\ (e = d /\ x = j => ~Has(up[e], Ends(x)))
                    => Once(up'[e], Ends(x))
    BY <1>1, GebrdRunEffects
  <1> HIDE DEF j
  <1>4. ~Has(up[d], Tsks(j)) /\ ~Has(up[d], Ends(j)) /\ d \notin tasks[j]
    BY <1>1, <1>3 DEF MessagesInv, RunFirst
  <1>5. /\ gjob'[d][j] = s
        /\ \A e \in Daemons, x \in Jobs : ~(e = d /\ x = j) => gjob'[e][x] = gjob[e][x]
    BY <1>1, <1>3
  <1>6. RunFirst'
    <2> SUFFICES ASSUME NEW e \in Daemons, NEW x \in Jobs, Has(down'[e], {Run(x)})
                 PROVE  /\ ~Has(up'[e], Tsks(x)) /\ ~Has(up'[e], Ends(x))
                        /\ e \notin tasks[x] /\ gjob'[e][x] = "none"
      BY <1>2 DEF RunFirst
    <2>1. ~(e = d /\ x = j) /\ Has(down[e], {Run(x)})
      BY <1>3
    <2>2. /\ ~Has(up[e], Tsks(x)) /\ ~Has(up[e], Ends(x))
          /\ e \notin tasks[x] /\ gjob[e][x] = "none"
      BY <1>1, <2>1 DEF MessagesInv, RunFirst
    <2>3. QED
      BY <1>3, <1>5, <2>1, <2>2
  <1>7. AnnouncedOnce'
    BY <1>1, <1>2, <1>3, <1>4 DEF MessagesInv, AnnouncedOnce
  <1>8. EndsOnce'
    BY <1>1, <1>2, <1>3, <1>4, <1>5 DEF MessagesInv, EndsOnce
  <1>9. DeadIdle' /\ Announced'
    BY <1>1, <1>2, <1>3, <1>5 DEF MessagesInv, DeadIdle, Announced
  <1>10. ToldToDie'
    BY <1>1, <1>2, <1>3, <1>5 DEF MessagesInv, ToldToDie
  <1>11. QED
    BY <1>6, <1>7, <1>8, <1>9, <1>10 DEF MessagesInv

(* They do when a KIL is read, which is when the job learns of it, or a CLR. *)
LEMMA GebrdStopMessages ==
    ASSUME RInv, NEW d \in Daemons, GebrdKil(d) \/ GebrdClr(d), UNCHANGED gebrmVars
    PROVE  MessagesInv'
  <1> DEFINE j == Head(down[d]).job
  <1>1. IInv /\ MessagesInv /\ gjob \in [Daemons -> [Jobs -> {"none"} \cup TaskStatus]]
        /\ userFinished \in [Daemons -> [Jobs -> BOOLEAN]]
    BY Channels DEF RInv, TypeOK, GebrdTypeOK
  <1>2. /\ down[d] # <<>> /\ down' = Popped(down, d)
        /\ UNCHANGED <<conn, up, alive, status, jobs, tasks>>
    BY DEF GebrdKil, GebrdClr, Receives, gebrmVars
  <1>3. j \in Jobs
    BY <1>1, <1>2, HeadTypes, Channels
  <1>4. \A e \in Daemons, x \in Jobs :
          /\ Has(down'[e], {Run(x)}) => Has(down[e], {Run(x)})
          /\ Has(down[e], {Kil(x)}) => Has(down'[e], {Kil(x)})
                                       \/ (e = d /\ x = j /\ Head(down[d]).op = "kil")
    BY <1>1, <1>2, OrderRead
  <1>5. /\ gjob' = gjob \/ gjob' = [gjob EXCEPT ![d][j] = "none"]
        /\ userFinished' = userFinished \/ userFinished' = [userFinished EXCEPT ![d][j] = TRUE]
        /\ Head(down[d]).op = "kil" /\ gjob[d][j] # "none"
             => userFinished' = [userFinished EXCEPT ![d][j] = TRUE]
    BY DEF GebrdKil, GebrdClr, Receives
  <1> HIDE DEF j
  <1>6. \A e \in Daemons, x \in Jobs : gjob'[e][x] = gjob[e][x] \/ gjob'[e][x] = "none"
    BY <1>1, <1>3, <1>5
  <1>7. /\ \A e \in Daemons, x \in Jobs : userFinished[e][x] => userFinished'[e][x]
        /\ Head(down[d]).op = "kil" /\ gjob[d][j] # "none" => userFinished'[d][j]
    <2>1. CASE ~(Head(down[d]).op = "kil" /\ gjob[d][j] # "none") /\ userFinished' = userFinished
      BY <2>1
    <2>2. CASE userFinished' = [userFinished EXCEPT ![d][j] = TRUE]
      <3>1. \A e \in Daemons, x \in Jobs :
              userFinished'[e][x] = (IF e = d /\ x = j THEN TRUE ELSE userFinished[e][x])
        BY <1>1, <1>3, <2>2
      <3>2. QED
        BY <1>3, <3>1, Zenon
    <2>3. QED
      BY <1>5, <2>1, <2>2
  <1>8. RunFirst'
    BY <1>1, <1>2, <1>4, <1>6 DEF MessagesInv, RunFirst
  <1>9. AnnouncedOnce'
    BY <1>1, <1>2 DEF MessagesInv, AnnouncedOnce
  <1>10. EndsOnce'
    BY <1>1, <1>2, <1>6 DEF MessagesInv, EndsOnce
  <1>11. DeadIdle'
    BY <1>1, <1>2, <1>6 DEF MessagesInv, DeadIdle
  <1>12. Announced'
    BY <1>1, <1>2, <1>6 DEF MessagesInv, Announced
  <1>13. ToldToDie'
    BY <1>1, <1>2, <1>3, <1>4, <1>6, <1>7 DEF MessagesInv, ToldToDie
  <1>14. QED
    BY <1>8, <1>9, <1>10, <1>11, <1>12, <1>13 DEF MessagesInv

(* The end of a process: the only report is that of a job that ran.          *)
LEMMA ProcessEndsEffects ==
    ASSUME IInv, NEW d \in Daemons, NEW j \in Jobs, ProcessEnds(d, j)
    PROVE  /\ \A e \in Daemons, x \in Jobs :
                /\ gjob'[e][x] = gjob[e][x]
                   \/ (e = d /\ x = j /\ gjob[e][x] = "running" /\ gjob'[e][x] \in Stopped)
                /\ Has(up'[e], Tsks(x)) <=> Has(up[e], Tsks(x))
                /\ Has(up'[e], Ends(x)) => Has(up[e], Ends(x))
                     \/ (e = d /\ x = j /\ gjob[e][x] = "running" /\ gjob'[e][x] # "running")
                /\ Once(up[e], Tsks(x)) => Once(up'[e], Tsks(x))
                /\ Once(up[e], Ends(x)) /\ (gjob[e][x] = "running" => ~Has(up[e], Ends(x)))
                     => Once(up'[e], Ends(x))
  <1>1. up \in [Daemons -> Seq(UpMsg)] /\ gjob \in [Daemons -> [Jobs -> {"none"} \cup TaskStatus]]
    BY Channels
  <1>2. CASE ProcessFinished(d, j)
    <2>1. PICK s \in Stopped : /\ gjob' = [gjob EXCEPT ![d][j] = s]
                               /\ up' = Sent(up, {d}, <<Sta(j, s)>>)
      BY <1>2 DEF ProcessFinished, Stopped
    <2> DEFINE m == <<Sta(j, s)>>
    <2>2. s \in TaskStatus
      BY DEF TaskStatus
    <2>3. /\ m \in Seq(UpMsg) /\ up' = Sent(up, {d}, m)
          /\ \A x \in Jobs : /\ ~Has(m, Tsks(x)) /\ Once(m, Tsks(x))
                             /\ Has(m, Ends(x)) => x = j
                             /\ Once(m, Ends(x))
      BY <2>1, <2>2, MessageTypes, KindsOfReports
    <2> HIDE DEF m
    <2>4. /\ gjob[d][j] = "running" /\ gjob'[d][j] = s /\ s # "running"
          /\ \A e \in Daemons, x \in Jobs : (e = d /\ x = j) \/ gjob'[e][x] = gjob[e][x]
      BY <1>1, <1>2, <2>1 DEF ProcessFinished, Stopped
    <2>5. ASSUME NEW e \in Daemons, NEW x \in Jobs
          PROVE  /\ Has(up'[e], Tsks(x)) <=> Has(up[e], Tsks(x))
                 /\ Has(up'[e], Ends(x)) => Has(up[e], Ends(x)) \/ (e = d /\ x = j)
                 /\ Once(up[e], Tsks(x)) => Once(up'[e], Tsks(x))
                 /\ Once(up[e], Ends(x)) /\ (e = d /\ x = j => ~Has(up[e], Ends(x)))
                      => Once(up'[e], Ends(x))
      <3>1. /\ Has(up'[e], Tsks(x)) <=> Has(up[e], Tsks(x)) \/ (e \in {d} /\ conn[e] /\ Has(m, Tsks(x)))
            /\ Once(up[e], Tsks(x)) /\ Once(m, Tsks(x))
                 /\ (~Has(up[e], Tsks(x)) \/ ~Has(m, Tsks(x)) \/ e \notin {d}) => Once(up'[e], Tsks(x))
        BY <1>1, <2>3, SentHas
      <3>2. /\ Has(up'[e], Ends(x)) <=> Has(up[e], Ends(x)) \/ (e \in {d} /\ conn[e] /\ Has(m, Ends(x)))
            /\ Once(up[e], Ends(x)) /\ Once(m, Ends(x))
                 /\ (~Has(up[e], Ends(x)) \/ ~Has(m, Ends(x)) \/ e \notin {d}) => Once(up'[e], Ends(x))
        BY <1>1, <2>3, SentHas
      <3>3. QED
        BY <2>3, <3>1, <3>2, Zenon
    <2>6. QED
      BY <2>4, <2>5
  <1>3. CASE OrphanFinished(d, j)
    BY <1>3 DEF OrphanFinished, wireVars
  <1>4. QED
    BY <1>2, <1>3 DEF ProcessEnds

(* The messages stay in order when a process ends.                           *)
LEMMA ProcessEndsMessages ==
    ASSUME RInv, NEW d \in Daemons, NEW j \in Jobs, ProcessEnds(d, j)
    PROVE  MessagesInv'
  <1>1. IInv /\ MessagesInv
    BY DEF RInv
  <1>2. UNCHANGED <<conn, down, alive, userFinished, status, jobs, tasks>>
    BY DEF ProcessEnds, ProcessFinished, OrphanFinished, wireVars, gebrmVars
  <1>3. \A e \in Daemons, x \in Jobs :
          /\ gjob'[e][x] = gjob[e][x]
             \/ (e = d /\ x = j /\ gjob[e][x] = "running" /\ gjob'[e][x] \in Stopped)
          /\ Has(up'[e], Tsks(x)) <=> Has(up[e], Tsks(x))
          /\ Has(up'[e], Ends(x)) => Has(up[e], Ends(x))
               \/ (e = d /\ x = j /\ gjob[e][x] = "running" /\ gjob'[e][x] # "running")
          /\ Once(up[e], Tsks(x)) => Once(up'[e], Tsks(x))
          /\ Once(up[e], Ends(x)) /\ (gjob[e][x] = "running" => ~Has(up[e], Ends(x)))
               => Once(up'[e], Ends(x))
    BY <1>1, ProcessEndsEffects
  <1>4. "running" \notin Stopped
    BY DEF Stopped
  <1>5. RunFirst'
    BY <1>1, <1>2, <1>3 DEF MessagesInv, RunFirst
  <1>6. AnnouncedOnce'
    BY <1>1, <1>2, <1>3 DEF MessagesInv, AnnouncedOnce
  <1>7. EndsOnce'
    BY <1>1, <1>2, <1>3, <1>4 DEF MessagesInv, EndsOnce
  <1>8. DeadIdle' /\ Announced'
    BY <1>1, <1>2, <1>3, <1>4 DEF MessagesInv, DeadIdle, Announced
  <1>9. ToldToDie'
    BY <1>1, <1>2, <1>3, <1>4 DEF MessagesInv, ToldToDie
  <1>10. QED
    BY <1>5, <1>6, <1>7, <1>8, <1>9 DEF MessagesInv

(* The last words of a gebrd are about the jobs of its list, and no TSK.     *)
LEMMA QuitEffects ==
    ASSUME IInv, NEW d \in Daemons, GebrdQuit(d)
    PROVE  /\ alive[d] /\ alive' = [alive EXCEPT ![d] = FALSE]
           /\ UNCHANGED <<conn, down, userFinished>>
           /\ \A e \in Daemons, x \in Jobs :
                /\ e = d => gjob'[e][x] = "none"
                /\ e # d => gjob'[e][x] = gjob[e][x]
                /\ Has(up'[e], Tsks(x)) <=> Has(up[e], Tsks(x))
                /\ Once(up[e], Tsks(x)) => Once(up'[e], Tsks(x))
                /\ Has(up'[e], Ends(x)) => Has(up[e], Ends(x)) \/ (e = d /\ gjob[e][x] # "none")
                /\ e # d => up'[e] = up[e]
  <1>1. /\ up \in [Daemons -> Seq(UpMsg)] /\ alive \in [Daemons -> BOOLEAN]
        /\ gjob \in [Daemons -> [Jobs -> {"none"} \cup TaskStatus]]
    BY Channels
  <1>2. PICK q \in Orders(Listed(d)) :
          up' = Sent(up, {d}, [i \in DOMAIN q |-> Sta(q[i], "failed")])
    BY DEF GebrdQuit
  <1> DEFINE m == [i \in DOMAIN q |-> Sta(q[i], "failed")]
  <1>3. q \in [1..Cardinality(Listed(d)) -> Listed(d)] /\ Cardinality(Listed(d)) \in Nat
    BY <1>2, WireAssumption, FS_Subset, FS_CardinalityType DEF Orders, Listed
  <1>4. \A i \in DOMAIN q : Sta(q[i], "failed") \in UpMsg
    BY <1>3 DEF Listed, Sta, UpMsg, TaskStatus, Stopped
  <1>5. m \in Seq(UpMsg) /\ up' = Sent(up, {d}, m)
    BY <1>2, <1>3, <1>4
  <1>6. \A n \in DOMAIN m : m[n].op = "sta" /\ m[n].job \in Jobs /\ gjob[d][m[n].job] # "none"
    BY <1>3 DEF Sta, Listed
  <1> HIDE DEF m
  <1>7. \A x \in Jobs : /\ ~Has(m, Tsks(x)) /\ Once(m, Tsks(x))
                        /\ Has(m, Ends(x)) => gjob[d][x] # "none"
    BY <1>6 DEF Has, Once, Tsks, Ends
  <1>8. \A e \in Daemons, x \in Jobs :
          /\ Has(up'[e], Tsks(x)) <=> Has(up[e], Tsks(x))
          /\ Once(up[e], Tsks(x)) => Once(up'[e], Tsks(x))
          /\ Has(up'[e], Ends(x)) => Has(up[e], Ends(x)) \/ (e = d /\ gjob[e][x] # "none")
    <2> SUFFICES ASSUME NEW e \in Daemons, NEW x \in Jobs
                 PROVE  /\ Has(up'[e], Tsks(x)) <=> Has(up[e], Tsks(x))
                        /\ Once(up[e], Tsks(x)) => Once(up'[e], Tsks(x))
                        /\ Has(up'[e], Ends(x)) =>
                             Has(up[e], Ends(x)) \/ (e = d /\ gjob[e][x] # "none")
      OBVIOUS
    <2>1. \A K : /\ Has(up'[e], K) <=> Has(up[e], K) \/ (e \in {d} /\ conn[e] /\ Has(m, K))
                 /\ Once(up[e], K) /\ Once(m, K) /\ ~Has(m, K) => Once(up'[e], K)
      BY <1>1, <1>5, SentHas
    <2>2. QED
      BY <1>7, <2>1
  <1>9. \A e \in Daemons : e # d => up'[e] = up[e]
    BY <1>5 DEF Sent
  <1>10. \A e \in Daemons, x \in Jobs : /\ e = d => gjob'[e][x] = "none"
                                        /\ e # d => gjob'[e][x] = gjob[e][x]
    BY <1>1 DEF GebrdQuit
  <1>11. QED
    BY <1>8, <1>9, <1>10 DEF GebrdQuit

(* The messages stay in order when nodes go and come: what is unread is lost *)
(* on both sides before a node is connected again, with a gebrd that knows   *)
(* of no job.                                                                *)
LEMMA NodeChangesMessages ==
    ASSUME RInv, NEW d \in Daemons, NodeChanges(d)
    PROVE  MessagesInv'
  <1>1. /\ IInv /\ MessagesInv
        /\ up \in [Daemons -> Seq(UpMsg)] /\ down \in [Daemons -> Seq(DownMsg)]
        /\ conn \in [Daemons -> BOOLEAN] /\ alive \in [Daemons -> BOOLEAN]
    BY Channels DEF RInv
  <1>2. UNCHANGED <<status, jobs, tasks, userFinished>>
    BY DEF NodeChanges, LoseDaemon, ClientDisconnect, ClientRemove, RemoveYes, DaemonQuit,
           Reconnect, Unplug, ForgetDaemon, GebrdQuit, GebrdStart, gebrdVars, gebrmVars
  <1>3. \A K : ~Has(<<>>, K) /\ Once(<<>>, K)
    BY DEF Has, Once
  <1>4. CASE ClientRemove(d)
    BY <1>1, <1>4 DEF ClientRemove, wireVars, gebrdVars, gebrmVars, MessagesInv, RunFirst,
                      AnnouncedOnce, EndsOnce, DeadIdle, Announced, ToldToDie
  <1>5. CASE Unplug(d)
    <2>1. /\ \A e \in Daemons : (e = d /\ ~conn'[e] /\ up'[e] = <<>>)
                             \/ (e # d /\ conn'[e] = conn[e] /\ up'[e] = up[e])
          /\ UNCHANGED <<down, alive, gjob>>
      BY <1>1, <1>5 DEF Unplug, gebrdVars
    <2>2. RunFirst'
      BY <1>1, <1>2, <1>3, <2>1 DEF MessagesInv, RunFirst
    <2>3. AnnouncedOnce'
      BY <1>1, <1>2, <1>3, <2>1 DEF MessagesInv, AnnouncedOnce
    <2>4. EndsOnce'
      BY <1>1, <1>3, <2>1 DEF MessagesInv, EndsOnce
    <2>5. DeadIdle'
      BY <1>1, <2>1 DEF MessagesInv, DeadIdle
    <2>6. Announced' /\ ToldToDie'
      BY <1>1, <1>2, <1>3, <2>1 DEF MessagesInv, Announced, ToldToDie
    <2>7. QED
      BY <2>2, <2>3, <2>4, <2>5, <2>6 DEF MessagesInv
  <1>6. CASE DaemonQuit(d)
    <2>1. /\ alive[d] /\ alive' = [alive EXCEPT ![d] = FALSE]
          /\ UNCHANGED <<conn, down>>
          /\ \A e \in Daemons, x \in Jobs :
               /\ e = d => gjob'[e][x] = "none"
               /\ e # d => gjob'[e][x] = gjob[e][x]
               /\ Has(up'[e], Tsks(x)) <=> Has(up[e], Tsks(x))
               /\ Once(up[e], Tsks(x)) => Once(up'[e], Tsks(x))
               /\ Has(up'[e], Ends(x)) => Has(up[e], Ends(x)) \/ (e = d /\ gjob[e][x] # "none")
               /\ e # d => up'[e] = up[e]
      BY <1>1, <1>6, QuitEffects DEF DaemonQuit
    <2>2. \A e \in Daemons : (e = d /\ ~alive'[e]) \/ (e # d /\ alive'[e] = alive[e])
      BY <1>1, <2>1
    <2>3. RunFirst'
      BY <1>1, <1>2, <2>1 DEF MessagesInv, RunFirst
    <2>4. AnnouncedOnce'
      BY <1>1, <1>2, <2>1 DEF MessagesInv, AnnouncedOnce
    <2>5. EndsOnce'
      <3> SUFFICES ASSUME NEW e \in Daemons, NEW x \in Jobs, alive'[e]
                   PROVE  /\ Once(up'[e], Ends(x))
                          /\ Has(up'[e], Ends(x)) => gjob'[e][x] # "running"
        BY DEF EndsOnce
      <3>1. e # d /\ alive[e]
        BY <2>2
      <3>2. up'[e] = up[e] /\ gjob'[e][x] = gjob[e][x]
        BY <2>1, <3>1
      <3>3. QED
        BY <1>1, <3>1, <3>2 DEF MessagesInv, EndsOnce
    <2>6. DeadIdle'
      <3> SUFFICES ASSUME NEW e \in Daemons, NEW x \in Jobs, ~alive'[e]
                   PROVE  gjob'[e][x] = "none"
        BY DEF DeadIdle
      <3>1. CASE e # d
        <4>1. ~alive[e]
          BY <2>2, <3>1, Zenon
        <4>2. gjob'[e][x] = gjob[e][x]
          BY <2>1, <3>1
        <4>3. QED
          BY <1>1, <4>1, <4>2 DEF MessagesInv, DeadIdle
      <3>2. QED
        BY <2>1, <3>1
    <2>7. Announced'
      BY <1>1, <1>2, <2>1 DEF MessagesInv, Announced
    <2>8. ToldToDie'
      BY <1>1, <1>2, <2>1 DEF MessagesInv, ToldToDie
    <2>9. QED
      BY <2>3, <2>4, <2>5, <2>6, <2>7, <2>8 DEF MessagesInv
  <1>7. CASE Reconnect(d)
    <2>1. /\ \A e \in Daemons : (e = d /\ ~alive[e] /\ up'[e] = <<>> /\ down'[e] = <<>>)
                             \/ (e # d /\ conn'[e] = conn[e] /\ alive'[e] = alive[e]
                                       /\ up'[e] = up[e] /\ down'[e] = down[e])
          /\ gjob' = gjob
      BY <1>1, <1>7 DEF Reconnect, GebrdStart
    <2>2. \A x \in Jobs : gjob[d][x] = "none"
      BY <1>1, <2>1 DEF MessagesInv, DeadIdle
    <2>3. RunFirst'
      BY <1>1, <1>2, <1>3, <2>1, <2>2 DEF MessagesInv, RunFirst
    <2>4. AnnouncedOnce'
      BY <1>1, <1>2, <1>3, <2>1, <2>2 DEF MessagesInv, AnnouncedOnce
    <2>5. EndsOnce'
      BY <1>1, <1>2, <1>3, <2>1, <2>2 DEF MessagesInv, EndsOnce
    <2>6. DeadIdle'
      BY <1>1, <2>1, <2>2 DEF MessagesInv, DeadIdle
    <2>7. Announced'
      BY <1>1, <1>2, <1>3, <2>1, <2>2 DEF MessagesInv, Announced
    <2>8. ToldToDie'
      BY <1>1, <1>2, <1>3, <2>1, <2>2 DEF MessagesInv, ToldToDie
    <2>9. QED
      BY <2>3, <2>4, <2>5, <2>6, <2>7, <2>8 DEF MessagesInv
  <1>8. QED
    BY <1>4, <1>5, <1>6, <1>7 DEF NodeChanges, LoseDaemon, ClientDisconnect, RemoveYes

(* Every step keeps the invariant of the messages.                           *)
LEMMA NextMessages == RInv /\ [Next]_vars => RInv'
  <1> SUFFICES ASSUME RInv, [Next]_vars PROVE RInv'
    OBVIOUS
  <1>1. IInv'
    BY NextInv DEF RInv
  <1>2. CASE UNCHANGED vars
    BY <1>1, <1>2 DEF RInv, MessagesInv, RunFirst, AnnouncedOnce, EndsOnce, DeadIdle, Announced,
                      ToldToDie, vars, wireVars, gebrdVars, gebrmVars
  <1>3. CASE \E j \in Jobs : Maestro(j)
    BY <1>1, <1>3, MaestroMessages DEF RInv
  <1>4. CASE \E d \in Daemons : MaestroReceives(d)
    BY <1>1, <1>4, TaskDefineMessages, StatusChangedMessages DEF RInv, MaestroReceives
  <1>5. CASE \E d \in Daemons : GebrdReceives(d)
    BY <1>1, <1>5, GebrdRunMessages, GebrdStopMessages DEF RInv, GebrdReceives
  <1>6. CASE \E d \in Daemons, j \in Jobs : ProcessEnds(d, j)
    BY <1>1, <1>6, ProcessEndsMessages DEF RInv
  <1>7. CASE \E d \in Daemons : NodeChanges(d)
    BY <1>1, <1>7, NodeChangesMessages DEF RInv
  <1>8. QED
    BY <1>2, <1>3, <1>4, <1>5, <1>6, <1>7 DEF Next, Work

(* A fraction is started, announced and ended in this order and once: the    *)
(* invariant of the messages is an invariant.                                *)
THEOREM MessagesInvariant == Spec => []RInv
  <1>1. Init => RInv
    BY InitInv, InitMessages DEF RInv
  <1>2. QED
    BY <1>1, NextMessages, PTL DEF Spec

(* When a job is FAILED, every fraction of it that still runs on a connected *)
(* node has been told to stop, or a KIL is on its way, or the maestro will   *)
(* be reminded by the fraction's TSK.                                        *)
THEOREM FailedTold == Spec => []FailedToldToDie
  <1>1. RInv => FailedToldToDie
    <2> SUFFICES ASSUME RInv, NEW j \in Jobs, NEW d \in Daemons,
                        status[j] = "failed", gjob[d][j] = "running", conn[d],
                        j \in jobs \/ d \in tasks[j]
                 PROVE  userFinished[d][j] \/ Carries(down[d], Kil(j)) \/ TskInFlight(d, j)
      BY DEF FailedToldToDie
    <2>1. userFinished[d][j] \/ Has(down[d], {Kil(j)}) \/ Has(up[d], Tsks(j))
      BY DEF RInv, MessagesInv, ToldToDie
    <2>2. Has(down[d], {Kil(j)}) => Carries(down[d], Kil(j))
      BY DEF Has, Carries
    <2>3. Has(up[d], Tsks(j)) => TskInFlight(d, j)
      BY DEF Has, Tsks, TskInFlight
    <2>4. QED
      BY <2>1, <2>2, <2>3
  <1>2. QED
    BY <1>1, MessagesInvariant, PTL

-----------------------------------------------------------------------------
(* No FINISHED report that matters is dropped.                               *)

(* A job that is not an MPI job has its total as soon as it has fractions:   *)
(* divide_and_run_flows calls on_execution_response itself.                  *)
TotalSet ==
    \A j \in Jobs \ MpiJobs : assigned[j] # {} => total[j] = Cardinality(assigned[j])

LInv == IInv /\ TotalSet /\ NoLostFinish

(* A step that leaves the fractions and their tasks alone and reopens no job *)
(* keeps NoLostFinish.                                                       *)
LEMMA TasksKept ==
    ASSUME LInv, UNCHANGED <<assigned, tasks, taskStatus>>,
           \A j \in Jobs \ MpiJobs : total'[j] = total[j],
           \A j \in Jobs : status[j] \in Stopped => status'[j] \in Stopped
    PROVE  TotalSet' /\ NoLostFinish'
  BY DEF LInv, TotalSet, NoLostFinish, IsStopped

(* What clients and the runner make the maestro do keeps it.                 *)
LEMMA MaestroFinish ==
    ASSUME LInv, NEW j \in Jobs, Maestro(j)
    PROVE  TotalSet' /\ NoLostFinish'
  <1>1. /\ IInv /\ TotalSet /\ NoLostFinish
        /\ status \in [Jobs -> {"none"} \cup JobStatus] /\ total \in [Jobs -> Nat]
        /\ assigned \in [Jobs -> SUBSET Daemons] /\ tasks \in [Jobs -> SUBSET Daemons]
    BY DEF LInv, IInv, TypeOK, GebrmTypeOK
  <1>2. CASE DivideAndRunFlows(j) \/ MpiRunFlow(j)
    <2>1. assigned[j] = {} /\ tasks[j] = {}
      <3>1. assigned[j] = {}
        BY <1>1, <1>2, DispatchEffects
      <3>2. QED
        BY <1>1, <3>1 DEF IInv, ExecInv, TotalCounts
    <2>2. /\ UNCHANGED <<status, tasks, taskStatus>>
          /\ \A x \in Jobs : x # j => assigned'[x] = assigned[x] /\ total'[x] = total[x]
          /\ j \notin MpiJobs => total'[j] = Cardinality(assigned'[j])
      <3>1. CASE DivideAndRunFlows(j)
        BY <1>1, <3>1 DEF DivideAndRunFlows
      <3>2. CASE MpiRunFlow(j)
        BY <1>1, <3>2 DEF MpiRunFlow
      <3>3. QED
        BY <1>2, <3>1, <3>2
    <2>3. TotalSet'
      BY <1>1, <2>2 DEF TotalSet
    <2>4. NoLostFinish'
      BY <1>1, <2>1, <2>2 DEF NoLostFinish, IsStopped
    <2>5. QED
      BY <2>3, <2>4
  <1>3. CASE ~(DivideAndRunFlows(j) \/ MpiRunFlow(j))
    <2>1. /\ UNCHANGED <<assigned, tasks, taskStatus>>
          /\ \A x \in Jobs \ MpiJobs : total'[x] = total[x]
          /\ \A x \in Jobs : status[x] \in Stopped => status'[x] \in Stopped
      BY <1>1, <1>3 DEF Maestro, Submit, RunAsync, MpiRan, KillRequest, CloseRequest, Stopped
    <2>2. QED
      BY <2>1, TasksKept
  <1>4. QED
    BY <1>2, <1>3

(* A new task runs: with it in the list, not all have finished.              *)
LEMMA TaskDefineFinish ==
    ASSUME LInv, NEW d \in Daemons, TaskDefine(d)
    PROVE  TotalSet' /\ NoLostFinish'
  <1> DEFINE j  == Head(up[d]).job
             tk == tasks[j] \cup {d}
             ts == [taskStatus[j] EXCEPT ![d] = "running"]
  <1>1. /\ IInv /\ TotalSet /\ NoLostFinish
        /\ status \in [Jobs -> {"none"} \cup JobStatus] /\ tasks \in [Jobs -> SUBSET Daemons]
        /\ taskStatus \in [Jobs -> [Daemons -> {"none"} \cup TaskStatus]]
    BY DEF LInv, IInv, TypeOK, GebrmTypeOK
  <1>2. up[d] # <<>> /\ UNCHANGED <<assigned, total>>
    BY DEF TaskDefine, Delivers
  <1>3. j \in Jobs
    BY <1>1, <1>2, HeadReport
  <1>4. /\ taskStatus' = [taskStatus EXCEPT ![j] = ts]
        /\ tasks' = tasks \/ tasks' = [tasks EXCEPT ![j] = tk]
        /\ status' = status \/ status' = [status EXCEPT ![j] = ChangedStatus(j, tk, ts, "running")]
    BY DEF TaskDefine
  <1> HIDE DEF j
  <1>5. \A x \in Jobs : status[x] \in Stopped => status'[x] \in Stopped
    BY <1>1, <1>3, <1>4 DEF ChangedStatus, IsStopped
  <1>6. /\ taskStatus'[j][d] = "running"
        /\ \A e \in Daemons : e # d => taskStatus'[j][e] = taskStatus[j][e]
        /\ \A x \in Jobs : x # j => taskStatus'[x] = taskStatus[x] /\ tasks'[x] = tasks[x]
        /\ tasks'[j] = tasks[j] \/ d \in tasks'[j]
    BY <1>1, <1>3, <1>4
  <1>7. TotalSet'
    BY <1>1, <1>2 DEF TotalSet
  <1>8. NoLostFinish'
    <2> SUFFICES ASSUME NEW x \in Jobs \ MpiJobs, tasks'[x] # {}, tasks'[x] = assigned[x],
                        \A e \in tasks'[x] : taskStatus'[x][e] = "finished"
                 PROVE  status'[x] \in Stopped
      BY <1>2 DEF NoLostFinish, IsStopped
    <2>1. tasks'[x] = tasks[x] /\ \A e \in tasks[x] : taskStatus[x][e] = "finished"
      BY <1>1, <1>6
    <2>2. QED
      BY <1>1, <1>5, <2>1 DEF NoLostFinish, IsStopped
  <1>9. QED
    BY <1>7, <1>8

(* The report of the last fraction to finish, whichever it is, finds the     *)
(* list complete and all tasks FINISHED.                                     *)
LEMMA StatusChangedFinish ==
    ASSUME LInv, NEW d \in Daemons, StatusChanged(d)
    PROVE  TotalSet' /\ NoLostFinish'
  <1> DEFINE j   == Head(up[d]).job
             new == Head(up[d]).status
             ts  == [taskStatus[j] EXCEPT ![d] = new]
  <1>1. /\ IInv /\ TotalSet /\ NoLostFinish
        /\ status \in [Jobs -> {"none"} \cup JobStatus] /\ tasks \in [Jobs -> SUBSET Daemons]
        /\ taskStatus \in [Jobs -> [Daemons -> {"none"} \cup TaskStatus]]
    BY DEF LInv, IInv, TypeOK, GebrmTypeOK
  <1>2. up[d] # <<>> /\ UNCHANGED <<assigned, total, tasks>>
    BY DEF StatusChanged, Delivers
  <1>3. j \in Jobs
    BY <1>1, <1>2, HeadReport
  <1>4. \/ taskStatus' = taskStatus /\ status' = status
        \/ /\ taskStatus' = [taskStatus EXCEPT ![j] = ts]
           /\ \/ d \notin tasks[j] /\ status' = status
              \/ /\ d \in tasks[j]
                 /\ status' = [status EXCEPT ![j] = ChangedStatus(j, tasks[j], ts, new)]
    BY DEF StatusChanged
  <1> HIDE DEF j, new
  <1>5. \A x \in Jobs : status[x] \in Stopped => status'[x] \in Stopped
    BY <1>1, <1>3, <1>4 DEF ChangedStatus, IsStopped
  <1>6. TotalSet'
    BY <1>1, <1>2 DEF TotalSet
  <1>7. NoLostFinish'
    <2> SUFFICES ASSUME NEW x \in Jobs \ MpiJobs, tasks[x] # {}, tasks[x] = assigned[x],
                        \A e \in tasks[x] : taskStatus'[x][e] = "finished"
                 PROVE  status'[x] \in Stopped
      BY <1>2 DEF NoLostFinish, IsStopped
    <2>1. CASE \A e \in tasks[x] : taskStatus[x][e] = "finished"
      BY <1>1, <1>5, <2>1 DEF NoLostFinish, IsStopped
    <2>2. CASE \E e \in tasks[x] : taskStatus[x][e] # "finished"
      <3>1. /\ x = j /\ taskStatus'[j] = ts /\ d \in tasks[j]
            /\ status'[j] = ChangedStatus(j, tasks[j], ts, new)
        BY <1>1, <1>3, <1>4, <2>2
      <3>2. new = "finished" /\ \A e \in tasks[j] : ts[e] = "finished"
        BY <1>1, <1>3, <3>1
      <3>3. Cardinality(tasks[j]) = total[j]
        BY <1>1, <3>1 DEF TotalSet
      <3>4. QED
        BY <3>1, <3>2, <3>3 DEF ChangedStatus, IsStopped, Stopped
    <2>3. QED
      BY <2>1, <2>2
  <1>8. QED
    BY <1>6, <1>7

(* A job none of whose fractions is missing and all of whose tasks have      *)
(* FINISHED has stopped, in every order in which the reports are read.       *)
THEOREM FinishNotLost == Spec => []NoLostFinish
  <1>1. Init => LInv
    <2> SUFFICES ASSUME Init PROVE LInv
      OBVIOUS
    <2>1. TotalSet /\ NoLostFinish
      BY DEF Init, GebrmInit, TotalSet, NoLostFinish
    <2>2. QED
      BY <2>1, InitInv DEF LInv
  <1>2. LInv /\ [Next]_vars => LInv'
    <2> SUFFICES ASSUME LInv, [Next]_vars PROVE TotalSet' /\ NoLostFinish'
      BY NextInv DEF LInv
    <2>1. CASE UNCHANGED <<status, assigned, total, tasks, taskStatus>>
      BY <2>1, TasksKept
    <2>2. CASE \E j \in Jobs : Maestro(j)
      BY <2>2, MaestroFinish
    <2>3. CASE \E d \in Daemons : MaestroReceives(d)
      BY <2>3, TaskDefineFinish, StatusChangedFinish DEF MaestroReceives
    <2>4. CASE \E d \in Daemons : \/ GebrdReceives(d) \/ NodeChanges(d)
                                  \/ \E j \in Jobs : ProcessEnds(d, j)
      BY <2>1, <2>4 DEF GebrdReceives, ProcessEnds, NodeChanges, LoseDaemon, ClientDisconnect,
            ClientRemove, RemoveYes, DaemonQuit, Reconnect, Unplug, ForgetDaemon, gebrmVars
    <2>5. QED
      BY <2>1, <2>2, <2>3, <2>4 DEF Next, Work, vars, gebrmVars
  <1>3. LInv => NoLostFinish
    BY DEF LInv
  <1>4. QED
    BY <1>1, <1>2, <1>3, PTL DEF Spec

-----------------------------------------------------------------------------
(* Proofs about uncompleted_tasks, the counter of a node by which the        *)
(* maestro decides whether it may be disconnected, for every set of nodes    *)
(* and of jobs.  An MPI job's task is never added to the counter, but its    *)
(* end is taken off: the results are about nodes that were given no MPI job. *)

(* The jobs for which the node still owes the maestro the report of an end.  *)
Pending(d) ==
    {j \in Jobs : gjob[d][j] = "running" \/ Has(down[d], {Run(j)}) \/ Has(up[d], Ends(j))}

NoMpi(d) == \A j \in MpiJobs : d \notin assigned[j]

(* The counter is at least the number of the jobs that are pending; of a     *)
(* node that is not connected it is what was counted since, and the last     *)
(* reports of a gebrd that is down are not accounted for.                    *)
Counted(d) ==
    /\ ~conn[d] => uncompleted[d] >= 0
    /\ conn[d] /\ alive[d] => uncompleted[d] >= Cardinality(Pending(d))

CInv == RInv /\ \A d \in Daemons : NoMpi(d) => Counted(d)

-----------------------------------------------------------------------------
(* Jobs are finitely many.                                                   *)
LEMMA JobsFinite ==
    ASSUME NEW S \in SUBSET Jobs
    PROVE  IsFiniteSet(S) /\ Cardinality(S) \in Nat
  BY WireAssumption, FS_Subset, FS_CardinalityType

(* No step adds to the pending jobs of a node, nor takes off its counter.    *)
LEMMA CountKept ==
    ASSUME RInv, NEW d \in Daemons, Counted(d),
           conn'[d] = conn[d], alive'[d] = alive[d], uncompleted'[d] = uncompleted[d],
           Pending(d)' \subseteq Pending(d)
    PROVE  Counted(d)'
  <1>1. Pending(d) \in SUBSET Jobs /\ Pending(d)' \in SUBSET Jobs
    BY DEF Pending
  <1>2. Cardinality(Pending(d)') <= Cardinality(Pending(d))
    BY <1>1, JobsFinite, FS_Subset
  <1>3. uncompleted[d] \in Int /\ Cardinality(Pending(d)) \in Nat /\ Cardinality(Pending(d)') \in Nat
    BY <1>1, JobsFinite DEF RInv, IInv, TypeOK, GebrmTypeOK
  <1>4. Cardinality(Pending(d))' = Cardinality(Pending(d)')
    OBVIOUS
  <1>5. QED
    BY <1>2, <1>3, <1>4 DEF Counted

(* A job that is added to the pending ones is counted.                       *)
LEMMA CountAdded ==
    ASSUME RInv, NEW d \in Daemons, Counted(d), NEW x \in Jobs,
           conn'[d] = conn[d], alive'[d] = alive[d], uncompleted'[d] = uncompleted[d] + 1,
           Pending(d)' \subseteq Pending(d) \cup {x}
    PROVE  Counted(d)'
  <1>1. Pending(d) \in SUBSET Jobs /\ Pending(d)' \in SUBSET Jobs
    BY DEF Pending
  <1>2. Cardinality(Pending(d)') <= Cardinality(Pending(d)) + 1
    <2> DEFINE P == Pending(d)
    <2>1. P \cup {x} \in SUBSET Jobs
      BY <1>1
    <2>2. /\ IsFiniteSet(P) /\ Cardinality(P) \in Nat
          /\ IsFiniteSet(P \cup {x}) /\ Cardinality(P \cup {x}) \in Nat
      BY <1>1, <2>1, JobsFinite
    <2>3. Cardinality(Pending(d)') \in Nat /\ Cardinality(Pending(d)') <= Cardinality(P \cup {x})
      BY <1>1, <2>2, JobsFinite, FS_Subset
    <2> HIDE DEF P
    <2>4. Cardinality(P \cup {x}) <= Cardinality(P) + 1
      <3>1. CASE x \in P
        <4>1. P \cup {x} = P
          BY <3>1
        <4>2. QED
          BY <2>2, <4>1
      <3>2. CASE x \notin P
        BY <2>2, <3>2, FS_AddElement
      <3>3. QED
        BY <3>1, <3>2
    <2>5. QED
      BY <2>2, <2>3, <2>4 DEF P
  <1>3. uncompleted[d] \in Int /\ Cardinality(Pending(d)) \in Nat /\ Cardinality(Pending(d)') \in Nat
    BY <1>1, JobsFinite DEF RInv, IInv, TypeOK, GebrmTypeOK
  <1>4. QED
    BY <1>2, <1>3 DEF Counted

(* A job that is taken off the counter is no longer pending.                 *)
LEMMA CountTaken ==
    ASSUME RInv, NEW d \in Daemons, Counted(d), NEW x \in Pending(d), conn[d],
           conn'[d] = conn[d], alive'[d] = alive[d], uncompleted'[d] = uncompleted[d] - 1,
           Pending(d)' \subseteq Pending(d) \ {x}
    PROVE  Counted(d)'
  <1>1. Pending(d) \in SUBSET Jobs /\ Pending(d)' \in SUBSET Jobs
    BY DEF Pending
  <1>2. Cardinality(Pending(d)') <= Cardinality(Pending(d)) - 1
    <2>1. IsFiniteSet(Pending(d)) /\ Cardinality(Pending(d)) \in Nat
      BY <1>1, JobsFinite
    <2>2. /\ IsFiniteSet(Pending(d) \ {x})
          /\ Cardinality(Pending(d) \ {x}) = Cardinality(Pending(d)) - 1
      BY <2>1, FS_RemoveElement
    <2>3. Cardinality(Pending(d)') <= Cardinality(Pending(d) \ {x})
      BY <2>2, FS_Subset
    <2>4. QED
      BY <2>2, <2>3
  <1>3. uncompleted[d] \in Int /\ Cardinality(Pending(d)) \in Nat /\ Cardinality(Pending(d)') \in Nat
    BY <1>1, JobsFinite DEF RInv, IInv, TypeOK, GebrmTypeOK
  <1>4. QED
    BY <1>2, <1>3 DEF Counted

-----------------------------------------------------------------------------
(* Every step keeps the counters.                                            *)

(* What clients and the runner make the maestro do: a fraction is counted as *)
(* it is sent.                                                               *)
LEMMA MaestroCounts ==
    ASSUME RInv, NEW j \in Jobs, Maestro(j), NEW d \in Daemons, Counted(d), NoMpi(d)'
    PROVE  Counted(d)'
  <1>1. IInv /\ uncompleted \in [Daemons -> Int] /\ assigned \in [Jobs -> SUBSET Daemons]
    BY DEF RInv, IInv, TypeOK, GebrmTypeOK
  <1>2. UNCHANGED <<conn, up, alive, gjob>>
    BY DEF Maestro, Submit, RunAsync, DivideAndRunFlows, MpiRunFlow, MpiRan, KillRequest,
           CloseRequest, wireVars, gebrdVars
  <1>3. CASE DivideAndRunFlows(j) \/ MpiRunFlow(j)
    <2>1. \A x \in Jobs : Has(down'[d], {Run(x)}) => Has(down[d], {Run(x)}) \/ (x = j /\ d \in assigned'[j])
      BY <1>1, <1>3, DispatchEffects
    <2>2. d \in assigned'[j] => uncompleted'[d] = uncompleted[d] + 1
      <3>1. CASE DivideAndRunFlows(j)
        BY <1>1, <3>1 DEF DivideAndRunFlows
      <3>2. CASE MpiRunFlow(j)
        BY <3>2 DEF MpiRunFlow, NoMpi
      <3>3. QED
        BY <1>3, <3>1, <3>2
    <2>3. d \notin assigned'[j] => uncompleted'[d] = uncompleted[d]
      <3>1. CASE DivideAndRunFlows(j)
        BY <1>1, <3>1 DEF DivideAndRunFlows
      <3>2. CASE MpiRunFlow(j)
        BY <3>2 DEF MpiRunFlow
      <3>3. QED
        BY <1>3, <3>1, <3>2
    <2>4. CASE d \in assigned'[j]
      <3>1. Pending(d)' \subseteq Pending(d) \cup {j}
        BY <1>2, <2>1 DEF Pending
      <3>2. QED
        BY <1>2, <2>2, <2>4, <3>1, CountAdded
    <2>5. CASE d \notin assigned'[j]
      <3>1. Pending(d)' \subseteq Pending(d)
        BY <1>2, <2>1, <2>5 DEF Pending
      <3>2. QED
        BY <1>2, <2>3, <2>5, <3>1, CountKept
    <2>6. QED
      BY <2>4, <2>5
  <1>4. CASE ~(DivideAndRunFlows(j) \/ MpiRunFlow(j))
    <2>1. /\ \/ down' = down
             \/ down' = Sent(down, tasks[j], <<Kil(j)>>)
             \/ down' = Sent(down, tasks[j], <<Clr(j)>>)
          /\ uncompleted' = uncompleted
      BY <1>4 DEF Maestro, Submit, RunAsync, MpiRan, KillRequest, CloseRequest, wireVars
    <2>2. \A x \in Jobs : Has(down'[d], {Run(x)}) => Has(down[d], {Run(x)})
      BY <1>1, <2>1, OrdersSent
    <2>3. Pending(d)' \subseteq Pending(d)
      BY <1>2, <2>2 DEF Pending
    <2>4. QED
      BY <1>2, <2>1, <2>3, CountKept
  <1>5. QED
    BY <1>3, <1>4

(* What the maestro reads: an end is taken off the counter of its node, once *)
(* for each fraction, because no second report of it is on its way.          *)
LEMMA MaestroReceivesCounts ==
    ASSUME RInv, NEW e \in Daemons, MaestroReceives(e), NEW d \in Daemons, Counted(d)
    PROVE  Counted(d)'
  <1> DEFINE j == Head(up[e]).job
             h == Head(up[e])
  <1>1. /\ IInv /\ MessagesInv /\ uncompleted \in [Daemons -> Int] /\ conn \in [Daemons -> BOOLEAN]
        /\ up \in [Daemons -> Seq(UpMsg)]
    BY Channels DEF RInv, IInv, TypeOK, GebrmTypeOK
  <1>2. /\ up[e] # <<>> /\ up' = Popped(up, e) /\ conn[e]
        /\ UNCHANGED <<conn, alive, gjob>>
    BY DEF MaestroReceives, TaskDefine, StatusChanged, Delivers, gebrdVars
  <1>3. j \in Jobs /\ h \in UpMsg
    BY <1>1, <1>2, HeadReport
  <1>4. \A x \in Jobs : Has(down'[d], {Run(x)}) => Has(down[d], {Run(x)})
    <2>1. PICK S0 : \/ down' = down
                    \/ down' = Sent(down, S0, <<Kil(j)>>)
                    \/ down' = Sent(down, S0, <<Kil(j), Kil(j)>>)
      BY DEF MaestroReceives, TaskDefine, StatusChanged
    <2>2. QED
      BY <1>1, <1>3, <2>1, OrdersSent
  <1>5. /\ \A x \in Jobs : Has(up'[d], Ends(x)) => Has(up[d], Ends(x))
        /\ d = e /\ h.op = "sta" /\ h.status \in Stopped =>
             /\ Has(up[d], Ends(j))
             /\ Once(up[d], Ends(j)) => ~Has(up'[d], Ends(j))
    BY <1>1, <1>2, <1>3, ReportRead
  <1>6. Pending(d)' \subseteq Pending(d)
    BY <1>2, <1>4, <1>5 DEF Pending
  <1>7. CASE uncompleted'[d] = uncompleted[d]
    BY <1>2, <1>6, <1>7, CountKept
  <1>8. CASE uncompleted'[d] # uncompleted[d]
    <2>1. d = e /\ h.op = "sta" /\ h.status \in Stopped /\ uncompleted'[d] = uncompleted[d] - 1
      BY <1>1, <1>8 DEF MaestroReceives, TaskDefine, StatusChanged, Completed, Delivers
    <2>2. CASE ~alive[d]
      BY <1>2, <2>1, <2>2 DEF Counted
    <2>3. CASE alive[d]
      <3>1. Has(up[d], Ends(j)) /\ ~Has(up'[d], Ends(j)) /\ gjob[d][j] # "running"
        BY <1>1, <1>3, <1>5, <2>1, <2>3 DEF MessagesInv, EndsOnce
      <3>2. ~Has(down[d], {Run(j)})
        BY <1>1, <1>3, <3>1 DEF MessagesInv, RunFirst
      <3>3. j \in Pending(d) /\ j \notin Pending(d)'
        BY <1>2, <1>3, <1>4, <3>1, <3>2 DEF Pending
      <3> HIDE DEF j
      <3>4. QED
        BY <1>2, <1>6, <2>1, <3>3, CountTaken
    <2>4. QED
      BY <2>2, <2>3
  <1>9. QED
    BY <1>7, <1>8

(* What gebrd does: a fraction that it starts was sent, and one that ends    *)
(* ran; what it must report stays the same.                                  *)
LEMMA GebrdCounts ==
    ASSUME RInv, NEW e \in Daemons,
           GebrdReceives(e) \/ \E j \in Jobs : ProcessEnds(e, j),
           NEW d \in Daemons, Counted(d)
    PROVE  Counted(d)'
  <1>1. IInv /\ MessagesInv /\ gjob \in [Daemons -> [Jobs -> {"none"} \cup TaskStatus]]
    BY Channels DEF RInv
  <1>2. UNCHANGED <<conn, alive, uncompleted>>
    BY DEF GebrdReceives, GebrdRun, GebrdKil, GebrdClr, ProcessEnds, ProcessFinished,
           OrphanFinished, wireVars, gebrmVars
  <1>3. CASE GebrdRun(e)
    <2> DEFINE j == Head(down[e]).job
    <2>1. PICK s \in {"failed", "running"} :
            /\ j \in Jobs /\ gjob' = [gjob EXCEPT ![e][j] = s]
            /\ Has(down[e], {Run(j)})
            /\ \A y \in Daemons, x \in Jobs :
                 /\ Has(down'[y], {Run(x)}) => Has(down[y], {Run(x)})
                 /\ Has(up'[y], Ends(x)) => Has(up[y], Ends(x)) \/ (y = e /\ x = j /\ s = "failed")
      BY <1>1, <1>3, GebrdRunEffects
    <2> HIDE DEF j
    <2>2. \A x \in Jobs : gjob'[d][x] = "running" => gjob[d][x] = "running" \/ (d = e /\ x = j)
      BY <1>1, <2>1
    <2>3. Pending(d)' \subseteq Pending(d)
      BY <2>1, <2>2 DEF Pending
    <2>4. QED
      BY <1>2, <2>3, CountKept
  <1>4. CASE GebrdKil(e) \/ GebrdClr(e)
    <2> DEFINE j == Head(down[e]).job
    <2>1. /\ down[e] # <<>> /\ down' = Popped(down, e) /\ up' = up
          /\ gjob' = gjob \/ gjob' = [gjob EXCEPT ![e][j] = "none"]
      BY <1>4 DEF GebrdKil, GebrdClr, Receives
    <2> HIDE DEF j
    <2>2. \A x \in Jobs : gjob'[d][x] = "running" => gjob[d][x] = "running"
      BY <1>1, <2>1
    <2>3. \A x \in Jobs : Has(down'[d], {Run(x)}) => Has(down[d], {Run(x)})
      BY <1>1, <2>1, OrderRead
    <2>4. Pending(d)' \subseteq Pending(d)
      BY <2>1, <2>2, <2>3 DEF Pending
    <2>5. QED
      BY <1>2, <2>4, CountKept
  <1>5. CASE \E j \in Jobs : ProcessEnds(e, j)
    <2>1. PICK j \in Jobs : ProcessEnds(e, j)
      BY <1>5
    <2>2. down' = down
      BY <2>1 DEF ProcessEnds, ProcessFinished, OrphanFinished, wireVars
    <2>3. \A x \in Jobs :
            /\ gjob'[d][x] = "running" => gjob[d][x] = "running"
            /\ Has(up'[d], Ends(x)) => Has(up[d], Ends(x)) \/ gjob[d][x] = "running"
      <3>1. "running" \notin Stopped
        BY DEF Stopped
      <3>2. QED
        BY <1>1, <2>1, <3>1, ProcessEndsEffects
    <2>4. Pending(d)' \subseteq Pending(d)
      BY <2>2, <2>3 DEF Pending
    <2>5. QED
      BY <1>2, <2>4, CountKept
  <1>6. QED
    BY <1>3, <1>4, <1>5 DEF GebrdReceives

(* Nodes that go and come: a node that is connected again has a gebrd with   *)
(* nothing to report.                                                        *)
LEMMA NodeCounts ==
    ASSUME RInv, NEW e \in Daemons, NodeChanges(e), NEW d \in Daemons, Counted(d)
    PROVE  Counted(d)'
  <1>1. /\ IInv /\ MessagesInv /\ uncompleted \in [Daemons -> Int]
        /\ up \in [Daemons -> Seq(UpMsg)] /\ down \in [Daemons -> Seq(DownMsg)]
        /\ conn \in [Daemons -> BOOLEAN] /\ alive \in [Daemons -> BOOLEAN]
        /\ gjob \in [Daemons -> [Jobs -> {"none"} \cup TaskStatus]]
    BY Channels DEF RInv, IInv, TypeOK, GebrmTypeOK
  <1>2. CASE ClientRemove(e)
    BY <1>2, CountKept DEF ClientRemove, wireVars, gebrdVars, gebrmVars, Pending
  <1>3. CASE Unplug(e)
    <2>1. CASE d = e
      <3>1. ~conn'[d]
        <4>1. conn'[d] = FALSE
          BY <1>1, <1>3, <2>1 DEF Unplug
        <4>2. QED
          BY <4>1
      <3>2. uncompleted'[d] >= 0
        BY <1>1, <1>3, <2>1 DEF Unplug, ForgetDaemon
      <3>3. QED
        BY <3>1, <3>2 DEF Counted
    <2>2. CASE d # e
      <3>1. /\ conn'[d] = conn[d] /\ alive'[d] = alive[d] /\ uncompleted'[d] = uncompleted[d]
            /\ up'[d] = up[d] /\ UNCHANGED <<down, gjob>>
        BY <1>1, <1>3, <2>2 DEF Unplug, ForgetDaemon, gebrdVars
      <3>2. Pending(d)' \subseteq Pending(d)
        BY <3>1 DEF Pending
      <3>3. QED
        BY <3>1, <3>2, CountKept
    <2>3. QED
      BY <2>1, <2>2
  <1>4. CASE DaemonQuit(e)
    <2>1. /\ GebrdQuit(e) /\ uncompleted' = uncompleted
      BY <1>4 DEF DaemonQuit, gebrmVars
    <2>2. /\ alive' = [alive EXCEPT ![e] = FALSE] /\ UNCHANGED <<conn, down>>
          /\ \A x \in Jobs : d # e => gjob'[d][x] = gjob[d][x] /\ up'[d] = up[d]
      BY <1>1, <2>1, QuitEffects
    <2>3. CASE d = e
      <3>1. alive'[d] = FALSE
        BY <1>1, <2>2, <2>3
      <3>2. ~alive'[d]
        BY <3>1
      <3>3. QED
        BY <2>1, <2>2, <3>2 DEF Counted
    <2>4. CASE d # e
      <3>1. alive'[d] = alive[d]
        BY <1>1, <2>2, <2>4
      <3>2. Pending(d)' \subseteq Pending(d)
        BY <2>2, <2>4 DEF Pending
      <3>3. QED
        BY <2>1, <2>2, <3>1, <3>2, CountKept
    <2>5. QED
      BY <2>3, <2>4
  <1>5. CASE Reconnect(e)
    <2>1. uncompleted' = uncompleted /\ gjob' = gjob
      BY <1>5 DEF Reconnect, GebrdStart, gebrmVars
    <2>2. CASE d = e
      <3>1. ~conn[d] /\ ~alive[d] /\ up'[d] = <<>> /\ down'[d] = <<>>
        <4>1. up'[d] = <<>> /\ down'[d] = <<>>
          BY <1>1, <1>5, <2>2 DEF Reconnect
        <4>2. ~conn[d] /\ ~alive[d]
          BY <1>5, <2>2, Zenon DEF Reconnect, GebrdStart
        <4>3. QED
          BY <4>1, <4>2
      <3>2. \A j \in Jobs : gjob'[d][j] # "running"
        BY <1>1, <2>1, <3>1 DEF MessagesInv, DeadIdle
      <3>3. \A K : ~Has(<<>>, K)
        BY DEF Has
      <3>4. Pending(d)' = {}
        BY <3>1, <3>2, <3>3 DEF Pending
      <3>5. Cardinality(Pending(d))' = 0
        BY <3>4, FS_EmptySet
      <3>6. uncompleted'[d] \in Int /\ uncompleted'[d] >= 0
        BY <1>1, <2>1, <3>1 DEF Counted
      <3>7. QED
        BY <3>5, <3>6 DEF Counted
    <2>3. CASE d # e
      <3>1. /\ conn'[d] = conn[d] /\ alive'[d] = alive[d]
            /\ up'[d] = up[d] /\ down'[d] = down[d]
        BY <1>1, <1>5, <2>3 DEF Reconnect, GebrdStart
      <3>2. Pending(d)' \subseteq Pending(d)
        BY <2>1, <3>1 DEF Pending
      <3>3. QED
        BY <2>1, <3>1, <3>2, CountKept
    <2>4. QED
      BY <2>2, <2>3
  <1>6. QED
    BY <1>2, <1>3, <1>4, <1>5 DEF NodeChanges, LoseDaemon, ClientDisconnect, RemoveYes

(* No step takes an MPI job back.                                            *)
LEMMA MpiStays ==
    ASSUME RInv, Next, NEW d \in Daemons, NoMpi(d)'
    PROVE  NoMpi(d)
  <1>1. IInv /\ assigned \in [Jobs -> SUBSET Daemons]
    BY Channels DEF RInv
  <1>2. \A j \in Jobs : assigned[j] \subseteq assigned'[j]
    <2>1. CASE \E j \in Jobs : Maestro(j)
      <3>1. PICK j \in Jobs : Maestro(j)
        BY <2>1
      <3>2. CASE DivideAndRunFlows(j) \/ MpiRunFlow(j)
        <4>1. assigned[j] = {}
          BY <1>1, <3>2, DispatchEffects
        <4>2. \A x \in Jobs : x # j => assigned'[x] = assigned[x]
          BY <1>1, <3>2 DEF DivideAndRunFlows, MpiRunFlow
        <4>3. QED
          BY <4>1, <4>2
      <3>3. CASE ~(DivideAndRunFlows(j) \/ MpiRunFlow(j))
        BY <3>1, <3>3 DEF Maestro, Submit, RunAsync, MpiRan, KillRequest, CloseRequest
      <3>4. QED
        BY <3>2, <3>3
    <2>2. CASE \E e \in Daemons : MaestroReceives(e)
      BY <2>2 DEF MaestroReceives, TaskDefine, StatusChanged
    <2>3. CASE \E e \in Daemons : GebrdReceives(e) \/ \E j \in Jobs : ProcessEnds(e, j)
      BY <2>3 DEF GebrdReceives, ProcessEnds, gebrmVars
    <2>4. CASE \E e \in Daemons : NodeChanges(e)
      BY <2>4 DEF NodeChanges, LoseDaemon, ClientDisconnect, ClientRemove, RemoveYes, DaemonQuit,
                  Reconnect, Unplug, ForgetDaemon, gebrmVars
    <2>5. QED
      BY <2>1, <2>2, <2>3, <2>4 DEF Next, Work
  <1>3. QED
    BY <1>2, KindAssumption DEF NoMpi

(* Every step keeps the invariant of the counters.                           *)
LEMMA NextCounts == CInv /\ [Next]_vars => CInv'
  <1> SUFFICES ASSUME CInv, [Next]_vars PROVE CInv'
    OBVIOUS
  <1>1. RInv /\ RInv'
    BY NextMessages DEF CInv
  <1> SUFFICES ASSUME NEW d \in Daemons, NoMpi(d)' PROVE Counted(d)'
    BY <1>1 DEF CInv
  <1>2. CASE UNCHANGED vars
    BY <1>2 DEF CInv, NoMpi, Counted, Pending, vars, wireVars, gebrdVars, gebrmVars
  <1>3. CASE Next
    <2>1. Counted(d)
      BY <1>1, <1>3, MpiStays DEF CInv
    <2>2. CASE \E j \in Jobs : Maestro(j)
      BY <1>1, <2>1, <2>2, MaestroCounts
    <2>3. CASE \E e \in Daemons : MaestroReceives(e)
      BY <1>1, <2>1, <2>3, MaestroReceivesCounts
    <2>4. CASE \E e \in Daemons : GebrdReceives(e) \/ \E j \in Jobs : ProcessEnds(e, j)
      BY <1>1, <2>1, <2>4, GebrdCounts
    <2>5. CASE \E e \in Daemons : NodeChanges(e)
      BY <1>1, <2>1, <2>5, NodeCounts
    <2>6. QED
      BY <1>3, <2>2, <2>3, <2>4, <2>5 DEF Next, Work
  <1>4. QED
    BY <1>2, <1>3

(* uncompleted_tasks of a node that was given no MPI job is at least the      *)
(* number of the fractions whose end it still has to report, through losses  *)
(* and reconnections.                                                        *)
THEOREM CounterInvariant == Spec => []CInv
  <1>1. Init => CInv
    <2> SUFFICES ASSUME Init PROVE CInv
      OBVIOUS
    <2>1. RInv
      BY InitInv, InitMessages DEF RInv
    <2>2. ASSUME NEW d \in Daemons PROVE Counted(d)
      <3>1. \A K : ~Has(<<>>, K)
        BY DEF Has
      <3>2. Pending(d) = {}
        BY <3>1 DEF Init, WireInit, GebrdInit, Pending
      <3>3. uncompleted[d] = 0
        BY DEF Init, GebrmInit
      <3>4. QED
        BY <3>2, <3>3, FS_EmptySet DEF Counted
    <2>3. QED
      BY <2>1, <2>2 DEF CInv
  <1>2. QED
    BY <1>1, NextCounts, PTL DEF Spec

(* Without MPI jobs, uncompleted_tasks never falls below the number of        *)
(* fractions that a node runs or has been sent.                              *)
THEOREM CountsTasks == ASSUME MpiJobs = {} PROVE Spec => []UncompletedCounts
  <1>1. CInv => UncompletedCounts
    <2> SUFFICES ASSUME CInv, NEW d \in Daemons, conn[d], alive[d]
                 PROVE  uncompleted[d] >= Cardinality({j \in Jobs \ MpiJobs :
                              gjob[d][j] = "running" \/ Carries(down[d], Run(j))})
      BY DEF UncompletedCounts
    <2> DEFINE R == {j \in Jobs \ MpiJobs : gjob[d][j] = "running" \/ Carries(down[d], Run(j))}
    <2>1. uncompleted[d] \in Int /\ uncompleted[d] >= Cardinality(Pending(d))
      BY DEF CInv, Counted, NoMpi, RInv, IInv, TypeOK, GebrmTypeOK
    <2>2. R \subseteq Pending(d) /\ Pending(d) \in SUBSET Jobs
      BY DEF Pending, Has, Carries
    <2> HIDE DEF R
    <2>3. R \in SUBSET Jobs
      BY <2>2
    <2>4. IsFiniteSet(Pending(d)) /\ Cardinality(Pending(d)) \in Nat /\ Cardinality(R) \in Nat
      BY <2>2, <2>3, JobsFinite
    <2>5. Cardinality(R) <= Cardinality(Pending(d))
      BY <2>2, <2>4, FS_Subset
    <2>6. QED
      BY <2>1, <2>4, <2>5 DEF R
  <1>2. QED
    BY <1>1, CounterInvariant, PTL

(* A node that is disconnected without a confirmation and not after a        *)
(* remove-immediately runs nothing, or its gebrd is gone already.            *)
LEMMA UnplugIdle ==
    ASSUME CInv, Next, MpiJobs = {}, NEW d \in Daemons,
           conn[d], ~conn'[d], losses' = losses, d \notin removing, NEW j \in Jobs
    PROVE  gjob[d][j] # "running"
  <1>1. /\ IInv /\ MessagesInv /\ conn \in [Daemons -> BOOLEAN]
        /\ uncompleted[d] \in Int /\ losses \in Nat
    BY Channels DEF CInv, RInv, IInv, TypeOK, GebrmTypeOK
  <1>2. CASE ~alive[d]
    BY <1>1, <1>2 DEF MessagesInv, DeadIdle
  <1>3. CASE alive[d]
    <2>1. \E e \in Daemons : LoseDaemon(e) \/ ClientDisconnect(e) \/ RemoveYes(e) \/ Reconnect(e)
      <3>1. CASE Work
        BY <3>1 DEF Work, Maestro, Submit, RunAsync, DivideAndRunFlows, MpiRunFlow, MpiRan,
                    KillRequest, CloseRequest, MaestroReceives, TaskDefine, StatusChanged,
                    GebrdReceives, GebrdRun, GebrdKil, GebrdClr, ProcessEnds, ProcessFinished,
                    OrphanFinished, wireVars
      <3>2. CASE \E e \in Daemons : ClientRemove(e) \/ DaemonQuit(e)
        BY <3>2 DEF ClientRemove, DaemonQuit, GebrdQuit, wireVars
      <3>3. QED
        BY <3>1, <3>2 DEF Next, NodeChanges
    <2>2. ~Reconnect(d) /\ \A e \in Daemons : e # d => conn'[d] = conn[d] \/ ~(Unplug(e) \/ Reconnect(e))
      BY <1>1 DEF Reconnect, Unplug
    <2>3. LoseDaemon(d) \/ ClientDisconnect(d) \/ RemoveYes(d)
      BY <2>1, <2>2 DEF LoseDaemon, ClientDisconnect, RemoveYes
    <2>4. uncompleted[d] <= 0
      BY <1>1, <1>3, <2>3 DEF LoseDaemon, ClientDisconnect, RemoveYes
    <2>5. uncompleted[d] >= Cardinality(Pending(d))
      BY <1>3 DEF CInv, Counted, NoMpi
    <2>6. IsFiniteSet(Pending(d)) /\ Cardinality(Pending(d)) \in Nat
      <3>1. Pending(d) \in SUBSET Jobs
        BY DEF Pending
      <3>2. QED
        BY <3>1, JobsFinite
    <2>7. Cardinality(Pending(d)) = 0
      BY <1>1, <2>4, <2>5, <2>6
    <2>8. Pending(d) = {}
      BY <2>6, <2>7, FS_EmptySet
    <2>9. QED
      BY <2>8 DEF Pending
  <1>4. QED
    BY <1>2, <1>3

(* Without MPI jobs, /disconnect without a confirmation never cuts off a      *)
(* node that runs a fraction.                                                *)
THEOREM DisconnectsIdle == ASSUME MpiJobs = {} PROVE Spec => CleanDisconnect
  <1>1. CInv /\ [Next]_vars =>
          [\A d \in Daemons : conn[d] /\ ~conn'[d] /\ losses' = losses /\ d \notin removing
             => \A j \in Jobs : gjob[d][j] # "running"]_vars
    <2> SUFFICES ASSUME CInv, Next
                 PROVE  \A d \in Daemons :
                          conn[d] /\ ~conn'[d] /\ losses' = losses /\ d \notin removing
                            => \A j \in Jobs : gjob[d][j] # "running"
      OBVIOUS
    <2>1. QED
      BY UnplugIdle
  <1>2. QED
    BY <1>1, CounterInvariant, PTL DEF Spec, CleanDisconnect

=============================================================================
