--------------------------- MODULE JobQueue_proofs --------------------------
(***************************************************************************)
(* Proofs about the run queue, the children that wait and the requests FIFOs *)
(* of the maestro, for every set of nodes and of jobs.                       *)
(***************************************************************************)
EXTENDS JobQueue, Lists_proofs, FiniteSetTheorems, TLAPS

-----------------------------------------------------------------------------
(* What is particular to the lists of jobs.                                  *)

(* A list with one more after the first p.                                   *)
LEMMA InsertElements ==
    ASSUME NEW M, NEW s \in Seq(M), NEW e \in M, NEW p, Contains(s, p)
    PROVE  InsertedAfter(s, p, e) \in Seq(M)
  <1> DEFINE I == {i \in 1..Len(s) : s[i] = p}
             n == Min(I)
  <1>1. \E i \in 1..Len(s) : s[i] = p
    BY DEF Contains
  <1>2. n \in 1..Len(s)
    <2>1. I \in SUBSET Nat /\ I # {}
      BY <1>1
    <2>2. n \in I
      BY <2>1, MinIn
    <2>3. QED
      BY <2>2
  <1>3. InsertedAfter(s, p, e) = SubSeq(s, 1, (1 + n) - 1) \o <<e>> \o SubSeq(s, 1 + n, Len(s))
    BY <1>1 DEF InsertedAfter, InsertAt, SelectInSeq
  <1> HIDE DEF n
  <1>4. SubSeq(s, 1, (1 + n) - 1) \in Seq(M) /\ SubSeq(s, 1 + n, Len(s)) \in Seq(M) /\ <<e>> \in Seq(M)
    BY <1>2
  <1>5. QED
    BY <1>3, <1>4

(* The enumerations of a set of jobs.                                        *)
LEMMA OrderElements ==
    ASSUME NEW R \in SUBSET Jobs, NEW q \in SetToSeqs(R)
    PROVE  q \in Seq(Jobs) /\ ToSet(q) = R /\ IsInjective(q)
  <1> DEFINE D == 1..Cardinality(R)
  <1>1. IsFiniteSet(R) /\ Cardinality(R) \in Nat
    BY QueueAssumption, FS_Subset, FS_CardinalityType
  <1>2. q \in [D -> R] /\ \A i, k \in D : i # k => q[i] # q[k]
    BY DEF SetToSeqs
  <1>3. Cardinality(D) = Cardinality(R)
    BY <1>1, FS_Interval
  <1>4. q \in Injection(D, R)
    BY <1>2 DEF Injection, IsInjective
  <1>5. q \in Surjection(D, R)
    BY <1>1, <1>3, <1>4, FS_Injection
  <1>6. ToSet(q) = R
    BY <1>2, <1>5 DEF Surjection, ToSet
  <1>7. QED
    BY <1>1, <1>2, <1>6 DEF IsInjective

-----------------------------------------------------------------------------
(* Cascade: what is run together with the runners of S.                      *)

(* It is the least set with the runners of S and the children of those that  *)
(* cannot run: a runner of it is one of S, or its parent is of it and has    *)
(* stopped.                                                                  *)
LEMMA CascadeLeast ==
    ASSUME NEW S \in SUBSET Jobs, NEW svs, NEW ch \in [Jobs -> Seq(Jobs)]
    PROVE  LET all == Cascade(S, svs, ch)
           IN /\ S \subseteq all /\ all \subseteq Jobs
              /\ \A x \in all : x \in S \/ \E y \in all : ~CanRun(y, svs) /\ x \in ToSet(ch[y])
              /\ \A W \in SUBSET Jobs :
                   S \subseteq W /\ (\A y \in W : ToSet(ch[y]) \subseteq W) => all \subseteq W
  <1> DEFINE all == Cascade(S, svs, ch)
             Closed(T) == S \subseteq T /\ \A y \in T : CanRun(y, svs) \/ ToSet(ch[y]) \subseteq T
  <1>1. /\ all \subseteq Jobs
        /\ \A T \in SUBSET Jobs : Closed(T) => all \subseteq T
        /\ \A x \in Jobs : (\A T \in SUBSET Jobs : Closed(T) => x \in T) => x \in all
    BY DEF Cascade
  <1> HIDE DEF all
  <1>2. \A y \in Jobs : ToSet(ch[y]) \subseteq Jobs
    BY DEF ToSet
  <1>3. Closed(all)
    <2>1. S \subseteq all
      BY <1>1
    <2>2. ASSUME NEW y \in all, ~CanRun(y, svs), NEW x \in ToSet(ch[y]) PROVE x \in all
      BY <1>1, <1>2, <2>2
    <2>3. QED
      BY <2>1, <2>2
  <1> DEFINE T == {x \in all : x \in S \/ \E y \in all : ~CanRun(y, svs) /\ x \in ToSet(ch[y])}
  <1>4. Closed(T)
    BY <1>3
  <1>5. all \subseteq T
    <2>1. T \in SUBSET Jobs
      BY <1>1
    <2> HIDE DEF T
    <2>2. QED
      BY <1>1, <1>4, <2>1
  <1>6. QED
    BY <1>1, <1>3, <1>5 DEF all

-----------------------------------------------------------------------------
(* The inductive invariant.  A handler prepares new values of the variables  *)
(* and a set S of runners, and then launches S: the invariant is stated for  *)
(* the values at that point.  Between the handlers S is empty.               *)

(* The first of the run queue has been run, or is about to be; the others    *)
(* wait, each in one place.                                                  *)
InTurn(S, ph, rq) ==
    /\ IsInjective(rq)
    /\ \A i \in DOMAIN rq :
         IF i = 1 THEN ph[rq[i]] \in {"asked", "ran", "dead"} \/ rq[i] \in S
         ELSE ph[rq[i]] = "waiting" /\ rq[i] \notin S

(* The children of a job wait for it, and are neither in the run queue nor   *)
(* about to be run.                                                          *)
ChildrenWait(S, qu, ph, rq, ch) ==
    \A y \in Jobs :
        /\ IsInjective(ch[y])
        /\ \A x \in ToSet(ch[y]) :
             ph[x] = "waiting" /\ qu[x] = y /\ x \notin ToSet(rq) /\ x \notin S

(* Only jobs that were submitted are in the table, have a runner or are      *)
(* waited for.                                                               *)
Submitted(st, js, qu, ph) ==
    \A x \in Jobs :
        /\ ph[x] # "none" \/ x \in js => st[x] # "none"
        /\ qu[x] \in Jobs => st[qu[x]] # "none"

(* OrderKept, for the runners in the run queue and those about to be run too. *)
AfterParent(S, st, js, qu, ph, rq) ==
    \A x \in Jobs :
        (ph[x] \in {"asked", "ran"} \/ x \in ToSet(rq) \/ x \in S) /\ qu[x] \in js
            => st[qu[x]] = "stopped"

(* The nodes that have a request of the job in their FIFO.                   *)
Askers(x, ff) == {d \in Daemons : x \in ToSet(ff[d])}

(* RequestsCounted, in terms of the nodes: a FIFO has at most one request of *)
(* a job, and of a job that waits for answers.                               *)
Requested(ph, pe, ff) ==
    /\ \A d \in Daemons : IsInjective(ff[d]) /\ \A x \in ToSet(ff[d]) : ph[x] = "asked"
    /\ \A x \in Jobs : ph[x] = "asked" => pe[x] = Cardinality(Askers(x, ff))

(* Nobody waits for itself: the queues of jobs are a forest.                 *)
Forest(qu) == \E rank \in [Jobs -> Nat] : \A x \in Jobs : qu[x] \in Jobs => rank[qu[x]] < rank[x]

QInv ==
    /\ TypeOK
    /\ InTurn({}, phase, runQueue)
    /\ ChildrenWait({}, queue, phase, runQueue, children)
    /\ Submitted(status, jobs, queue, phase)
    /\ AfterParent({}, status, jobs, queue, phase, runQueue)
    /\ Requested(phase, pending, fifo)
    /\ Forest(queue)

(* What a handler has prepared is ready for the launch of S.                 *)
Ready(S, st, svs, ch, ph, pe, ff, an) ==
    /\ S \in SUBSET Jobs /\ \A x \in S : ph[x] = "waiting"
    /\ st \in [Jobs -> Status] /\ svs \in [Jobs -> SUBSET Daemons]
    /\ ch \in [Jobs -> Seq(Jobs)] /\ ph \in [Jobs -> Phase] /\ pe \in [Jobs -> Nat]
    /\ ff \in [Daemons -> Seq(Jobs)] /\ an \in [Daemons -> Nat]
    /\ InTurn(S, ph, runQueue')
    /\ ChildrenWait(S, queue', ph, runQueue', ch)
    /\ Submitted(st, jobs', queue', ph)
    /\ AfterParent(S, st, jobs', queue', ph, runQueue')
    /\ Requested(ph, pe, ff)

(* The servers of a runner that are there.                                   *)
Logged(x, svs) == {d \in svs[x] : conn[d]}

(* What a launch does to each job: the runners of the cascade waited, and    *)
(* each of them is now run or dead.                                          *)
LEMMA LaunchJobs ==
    ASSUME NEW S, NEW st, NEW svs, NEW ch, NEW ph, NEW pe, NEW ff, NEW an,
           Ready(S, st, svs, ch, ph, pe, ff, an), Launch(S, st, svs, ch, ph, pe, ff, an),
           runQueue' \in Seq(Jobs)
    PROVE  \E all \in SUBSET Jobs :
             /\ all = Cascade(S, svs, ch)
             /\ S \subseteq all
             /\ \A x \in all : ph[x] = "waiting"
             /\ \A x \in all : x \in S \/ \E y \in all : ~CanRun(y, svs) /\ x \in ToSet(ch[y])
             /\ \A x \in Jobs \ all :
                  status'[x] = st[x] /\ phase'[x] = ph[x] /\ pending'[x] = pe[x] /\ children'[x] = ch[x]
             /\ \A x \in all : CanRun(x, svs) =>
                  status'[x] = st[x] /\ phase'[x] = "asked" /\ children'[x] = ch[x]
             /\ \A x \in all : ~CanRun(x, svs) =>
                  status'[x] = "stopped" /\ phase'[x] = "dead" /\ children'[x] = <<>>
             /\ \A x \in all : pending'[x] = Cardinality(Logged(x, svs))
  <1> DEFINE all == Cascade(S, svs, ch)
             W   == {x \in Jobs : ph[x] = "waiting"}
  <1>1. S \in SUBSET Jobs /\ ch \in [Jobs -> Seq(Jobs)] /\ \A x \in S : ph[x] = "waiting"
    BY DEF Ready
  <1>2. /\ S \subseteq all /\ all \subseteq Jobs
        /\ \A x \in all : x \in S \/ \E y \in all : ~CanRun(y, svs) /\ x \in ToSet(ch[y])
        /\ \A V \in SUBSET Jobs :
             S \subseteq V /\ (\A y \in V : ToSet(ch[y]) \subseteq V) => all \subseteq V
    BY <1>1, CascadeLeast
  <1>3. all \subseteq W
    <2>1. S \subseteq W
      BY <1>1
    <2>2. \A y \in W : ToSet(ch[y]) \subseteq W
      <3>1. \A y \in Jobs : ToSet(ch[y]) \subseteq Jobs
        BY <1>1 DEF ToSet
      <3>2. \A y \in Jobs : \A x \in ToSet(ch[y]) : ph[x] = "waiting"
        BY DEF Ready, ChildrenWait
      <3>3. QED
        BY <3>1, <3>2
    <2>3. W \in SUBSET Jobs
      OBVIOUS
    <2> HIDE DEF W, all
    <2>4. QED
      BY <1>2, <2>1, <2>2, <2>3
  <1>4. /\ status' = [x \in Jobs |-> IF x \in all /\ ~CanRun(x, svs) THEN "stopped" ELSE st[x]]
        /\ phase' = [x \in Jobs |-> IF x \in all /\ ~CanRun(x, svs) THEN "dead"
                                    ELSE IF x \in all THEN "asked" ELSE ph[x]]
        /\ pending' = [x \in Jobs |-> IF x \in all THEN Cardinality(Logged(x, svs)) ELSE pe[x]]
        /\ children' = [x \in Jobs |-> IF x \in all /\ ~CanRun(x, svs) THEN <<>> ELSE ch[x]]
    BY DEF Launch, Logged
  <1> HIDE DEF all
  <1>5. \A x \in all : ph[x] = "waiting"
    BY <1>3
  <1>6. QED
    BY <1>2, <1>4, <1>5 DEF all

(* The invariant's parts about the jobs hold after the launch.               *)
LEMMA LaunchLists ==
    ASSUME NEW S, NEW st, NEW svs, NEW ch, NEW ph, NEW pe, NEW ff, NEW an,
           Ready(S, st, svs, ch, ph, pe, ff, an), Launch(S, st, svs, ch, ph, pe, ff, an),
           runQueue' \in Seq(Jobs), jobs' \in SUBSET Jobs
    PROVE  /\ InTurn({}, phase', runQueue')
           /\ ChildrenWait({}, queue', phase', runQueue', children')
           /\ Submitted(status', jobs', queue', phase')
           /\ AfterParent({}, status', jobs', queue', phase', runQueue')
           /\ \A x \in Jobs : ph[x] # "waiting" => phase'[x] = ph[x] /\ pending'[x] = pe[x]
  <1>1. PICK all \in SUBSET Jobs :
             /\ S \subseteq all
             /\ \A x \in all : ph[x] = "waiting"
             /\ \A x \in all : x \in S \/ \E y \in all : ~CanRun(y, svs) /\ x \in ToSet(ch[y])
             /\ \A x \in Jobs \ all :
                  status'[x] = st[x] /\ phase'[x] = ph[x] /\ pending'[x] = pe[x] /\ children'[x] = ch[x]
             /\ \A x \in all : CanRun(x, svs) =>
                  status'[x] = st[x] /\ phase'[x] = "asked" /\ children'[x] = ch[x]
             /\ \A x \in all : ~CanRun(x, svs) =>
                  status'[x] = "stopped" /\ phase'[x] = "dead" /\ children'[x] = <<>>
    BY LaunchJobs
  <1>2. /\ S \in SUBSET Jobs /\ ch \in [Jobs -> Seq(Jobs)]
        /\ \A y \in Jobs : ToSet(ch[y]) \subseteq Jobs
    BY DEF Ready, ToSet
  <1>3. \A i \in DOMAIN runQueue' : runQueue'[i] \in Jobs /\ runQueue'[i] \in ToSet(runQueue')
    BY DEF ToSet
  <1>4. InTurn({}, phase', runQueue')
    <2>1. InTurn(S, ph, runQueue') /\ ChildrenWait(S, queue', ph, runQueue', ch)
      BY DEF Ready
    <2>2. ASSUME NEW i \in DOMAIN runQueue', i = 1
          PROVE  phase'[runQueue'[i]] \in {"asked", "ran", "dead"}
      BY <1>1, <1>3, <2>1, <2>2 DEF InTurn
    <2>3. ASSUME NEW i \in DOMAIN runQueue', i # 1
          PROVE  phase'[runQueue'[i]] = "waiting"
      <3>1. ph[runQueue'[i]] = "waiting" /\ runQueue'[i] \notin S
        BY <2>1, <2>3 DEF InTurn
      <3>2. \A y \in Jobs : runQueue'[i] \notin ToSet(ch[y])
        BY <1>3, <2>1 DEF ChildrenWait
      <3>3. QED
        BY <1>1, <1>3, <3>1, <3>2
    <2>4. QED
      BY <2>1, <2>2, <2>3 DEF InTurn
  <1>5. ChildrenWait({}, queue', phase', runQueue', children')
    <2> SUFFICES ASSUME NEW y \in Jobs
                 PROVE  /\ IsInjective(children'[y])
                        /\ \A x \in ToSet(children'[y]) :
                             phase'[x] = "waiting" /\ queue'[x] = y /\ x \notin ToSet(runQueue')
      BY DEF ChildrenWait
    <2>1. CASE children'[y] = <<>>
      BY <2>1 DEF IsInjective, ToSet
    <2>2. CASE children'[y] # <<>>
      <3>1. children'[y] = ch[y] /\ ~(y \in all /\ ~CanRun(y, svs))
        BY <1>1, <2>2
      <3>2. \A z \in Jobs, x \in Jobs : x \in ToSet(ch[z]) => ph[x] = "waiting" /\ queue'[x] = z
                                              /\ x \notin ToSet(runQueue') /\ x \notin S
        BY DEF Ready, ChildrenWait
      <3>3. ASSUME NEW x \in ToSet(ch[y]) PROVE phase'[x] = "waiting"
        <4>1. x \in Jobs
          BY <1>2
        <4>2. x \notin S
          BY <3>2, <4>1
        <4>3. ASSUME NEW z \in all, ~CanRun(z, svs), x \in ToSet(ch[z]) PROVE FALSE
          <5>1. queue'[x] = z /\ queue'[x] = y
            BY <3>2, <4>1, <4>3
          <5>2. QED
            BY <3>1, <4>3, <5>1
        <4>4. x \notin all
          BY <1>1, <4>2, <4>3
        <4>5. QED
          BY <1>1, <3>2, <4>1, <4>4
      <3>4. QED
        BY <1>2, <3>1, <3>2, <3>3 DEF Ready, ChildrenWait
    <2>3. QED
      BY <2>1, <2>2
  <1>6. Submitted(status', jobs', queue', phase')
    <2>1. \A x \in Jobs : /\ status'[x] = st[x] \/ status'[x] = "stopped"
                          /\ phase'[x] # "none" => ph[x] # "none"
      BY <1>1
    <2>2. QED
      BY <2>1 DEF Ready, Submitted
  <1>7. AfterParent({}, status', jobs', queue', phase', runQueue')
    <2> SUFFICES ASSUME NEW x \in Jobs, queue'[x] \in jobs',
                        phase'[x] \in {"asked", "ran"} \/ x \in ToSet(runQueue')
                 PROVE  status'[queue'[x]] = "stopped"
      BY DEF AfterParent
    <2>1. \A y \in Jobs : st[y] = "stopped" => status'[y] = "stopped"
      BY <1>1
    <2>2. CASE \E y \in all : ~CanRun(y, svs) /\ x \in ToSet(ch[y])
      BY <1>1, <2>2 DEF Ready, ChildrenWait
    <2>3. CASE ph[x] \in {"asked", "ran"} \/ x \in ToSet(runQueue') \/ x \in S
      BY <2>1, <2>3 DEF Ready, AfterParent
    <2>4. QED
      BY <1>1, <2>2, <2>3
  <1>8. QED
    BY <1>1, <1>4, <1>5, <1>6, <1>7

(* The nodes are finitely many.                                              *)
LEMMA NodesFinite ==
    ASSUME NEW D \in SUBSET Daemons
    PROVE  IsFiniteSet(D) /\ Cardinality(D) \in Nat
  BY QueueAssumption, FS_Subset, FS_CardinalityType

(* The types of what a launch changes; and each of the runners that is run   *)
(* has one request in the FIFO of each of its nodes that is there.           *)
LEMMA LaunchRequests ==
    ASSUME NEW S, NEW st, NEW svs, NEW ch, NEW ph, NEW pe, NEW ff, NEW an,
           Ready(S, st, svs, ch, ph, pe, ff, an), Launch(S, st, svs, ch, ph, pe, ff, an),
           runQueue' \in Seq(Jobs), conn \in [Daemons -> BOOLEAN]
    PROVE  /\ status' \in [Jobs -> Status] /\ servers' \in [Jobs -> SUBSET Daemons]
           /\ children' \in [Jobs -> Seq(Jobs)] /\ phase' \in [Jobs -> Phase]
           /\ pending' \in [Jobs -> Nat] /\ fifo' \in [Daemons -> Seq(Jobs)]
           /\ answers' \in [Daemons -> Nat]
           /\ Requested(phase', pending', fifo')
  <1>1. PICK all \in SUBSET Jobs :
             /\ all = Cascade(S, svs, ch)
             /\ \A x \in all : ph[x] = "waiting"
             /\ \A x \in Jobs \ all :
                  status'[x] = st[x] /\ phase'[x] = ph[x] /\ pending'[x] = pe[x] /\ children'[x] = ch[x]
             /\ \A x \in all : CanRun(x, svs) =>
                  status'[x] = st[x] /\ phase'[x] = "asked" /\ children'[x] = ch[x]
             /\ \A x \in all : ~CanRun(x, svs) =>
                  status'[x] = "stopped" /\ phase'[x] = "dead" /\ children'[x] = <<>>
             /\ \A x \in all : pending'[x] = Cardinality(Logged(x, svs))
    BY LaunchJobs
  <1>2. /\ st \in [Jobs -> Status] /\ svs \in [Jobs -> SUBSET Daemons]
        /\ ch \in [Jobs -> Seq(Jobs)] /\ ph \in [Jobs -> Phase] /\ pe \in [Jobs -> Nat]
        /\ ff \in [Daemons -> Seq(Jobs)] /\ an \in [Daemons -> Nat]
        /\ Requested(ph, pe, ff)
    BY DEF Ready
  <1> DEFINE Has(d) == {x \in all : conn[d] /\ d \in svs[x]}
  <1>3. PICK sent :
          /\ \A d \in Daemons : sent[d] \in SetToSeqs(Has(d))
          /\ fifo' = [d \in Daemons |-> ff[d] \o sent[d]]
          /\ answers' = [d \in Daemons |-> an[d] + Len(sent[d])]
    <2> DEFINE all0 == Cascade(S, svs, ch)
    <2>1. PICK order \in SetToSeqs(all0), sent \in [Daemons -> UNION {SetToSeqs(R) : R \in SUBSET all0}] :
            /\ \A d \in Daemons : sent[d] \in InOrder({x \in all0 : conn[d] /\ d \in svs[x]}, order)
            /\ fifo' = [d \in Daemons |-> ff[d] \o sent[d]]
            /\ answers' = [d \in Daemons |-> an[d] + Len(sent[d])]
      BY DEF Launch
    <2>2. all0 = all
      BY <1>1
    <2> HIDE DEF all0
    <2>3. \A d \in Daemons : sent[d] \in SetToSeqs(Has(d))
      BY <2>1, <2>2 DEF InOrder
    <2> HIDE DEF Has
    <2>4. QED
      BY <2>1, <2>3
  <1>4. \A d \in Daemons : sent[d] \in Seq(Jobs) /\ ToSet(sent[d]) = Has(d) /\ IsInjective(sent[d])
    <2>1. \A d \in Daemons : Has(d) \in SUBSET Jobs
      OBVIOUS
    <2>2. QED
      BY <1>3, <2>1, OrderElements
  <1>5. fifo' \in [Daemons -> Seq(Jobs)] /\ answers' \in [Daemons -> Nat]
    <2>1. \A d \in Daemons : ff[d] \o sent[d] \in Seq(Jobs) /\ an[d] + Len(sent[d]) \in Nat
      BY <1>2, <1>4
    <2>2. QED
      BY <1>3, <2>1
  <1>6. status' \in [Jobs -> Status] /\ phase' \in [Jobs -> Phase]
    <2>1. \A x \in Jobs : status'[x] \in Status /\ phase'[x] \in Phase
      BY <1>1, <1>2 DEF Status, Phase
    <2>2. \E a, b : status' = [x \in Jobs |-> a[x]] /\ phase' = [x \in Jobs |-> b[x]]
      <3>1. status' = [x \in Jobs |-> status'[x]] /\ phase' = [x \in Jobs |-> phase'[x]]
        BY DEF Launch
      <3>2. QED
        BY <3>1
    <2>3. QED
      BY <2>1, <2>2
  <1>7. children' \in [Jobs -> Seq(Jobs)] /\ pending' \in [Jobs -> Nat]
    <2>1. \A x \in Jobs : children'[x] \in Seq(Jobs)
      <3>1. \A x \in Jobs : children'[x] = ch[x] \/ children'[x] = <<>>
        BY <1>1
      <3>2. \A x \in Jobs : ch[x] \in Seq(Jobs)
        BY <1>2
      <3>3. <<>> \in Seq(Jobs)
        OBVIOUS
      <3>4. QED
        BY <3>1, <3>2, <3>3, Zenon
    <2>2. \A x \in Jobs : pending'[x] \in Nat
      <3>1. \A x \in all : Logged(x, svs) \in SUBSET Daemons
        BY <1>2 DEF Logged
      <3>2. \A x \in all : Cardinality(Logged(x, svs)) \in Nat
        BY <3>1, NodesFinite
      <3>3. \A x \in Jobs : pending'[x] = pe[x] \/ (x \in all /\ pending'[x] = Cardinality(Logged(x, svs)))
        BY <1>1
      <3>4. \A x \in Jobs : pe[x] \in Nat
        BY <1>2
      <3>5. QED
        BY <3>2, <3>3, <3>4, Zenon
    <2>3. children' = [x \in Jobs |-> children'[x]] /\ pending' = [x \in Jobs |-> pending'[x]]
      BY DEF Launch
    <2>4. QED
      BY <2>1, <2>2, <2>3
  <1>8. servers' \in [Jobs -> SUBSET Daemons]
    BY <1>2 DEF Launch
  <1>9. \A d \in Daemons :
          /\ fifo'[d] = ff[d] \o sent[d]
          /\ ToSet(fifo'[d]) = ToSet(ff[d]) \cup Has(d)
          /\ IsInjective(fifo'[d])
    <2> SUFFICES ASSUME NEW d \in Daemons
                 PROVE  /\ fifo'[d] = ff[d] \o sent[d]
                        /\ ToSet(fifo'[d]) = ToSet(ff[d]) \cup Has(d)
                        /\ IsInjective(fifo'[d])
      OBVIOUS
    <2>1. fifo'[d] = ff[d] \o sent[d] /\ ff[d] \in Seq(Jobs) /\ sent[d] \in Seq(Jobs)
      BY <1>2, <1>3, <1>4
    <2>2. IsInjective(ff[d]) /\ \A x \in ToSet(ff[d]) : ph[x] = "asked"
      BY <1>2 DEF Requested
    <2>3. ToSet(ff[d]) \cap ToSet(sent[d]) = {}
      BY <1>1, <1>4, <2>2
    <2>4. QED
      BY <1>4, <2>1, <2>2, <2>3, ConcatElements
  <1>10. \A x \in Jobs : Askers(x, fifo') = IF x \in all THEN Logged(x, svs) ELSE Askers(x, ff)
    <2>1. \A d \in Daemons : \A x \in all : x \notin ToSet(ff[d])
      BY <1>1, <1>2 DEF Requested
    <2>2. ASSUME NEW x \in all PROVE Askers(x, fifo') = Logged(x, svs)
      BY <1>2, <1>9, <2>1, <2>2 DEF Askers, Logged
    <2>3. ASSUME NEW x \in Jobs \ all PROVE Askers(x, fifo') = Askers(x, ff)
      BY <1>9, <2>3 DEF Askers
    <2>4. QED
      BY <2>2, <2>3
  <1>11. Requested(phase', pending', fifo')
    <2>1. ASSUME NEW d \in Daemons, NEW x \in ToSet(fifo'[d]) PROVE phase'[x] = "asked"
      <3>1. CASE x \in ToSet(ff[d])
        <4>1. x \in Jobs /\ ph[x] = "asked"
          <5>1. ToSet(ff[d]) \subseteq Jobs
            BY <1>2 DEF ToSet
          <5>2. QED
            BY <1>2, <3>1, <5>1 DEF Requested
        <4>2. QED
          BY <1>1, <4>1
      <3>2. CASE x \in Has(d)
        BY <1>1, <3>2 DEF CanRun
      <3>3. QED
        BY <1>9, <2>1, <3>1, <3>2
    <2>2. ASSUME NEW x \in Jobs, phase'[x] = "asked" PROVE pending'[x] = Cardinality(Askers(x, fifo'))
      <3>1. CASE x \in all
        <4>1. pending'[x] = Cardinality(Logged(x, svs))
          BY <1>1, <3>1
        <4>2. Askers(x, fifo') = Logged(x, svs)
          BY <1>10, <3>1
        <4>3. QED
          BY <4>1, <4>2, Zenon
      <3>2. CASE x \notin all
        <4>1. ph[x] = "asked" /\ pending'[x] = pe[x]
          BY <1>1, <2>2, <3>2
        <4>2. pe[x] = Cardinality(Askers(x, ff))
          BY <1>2, <4>1 DEF Requested
        <4>3. QED
          BY <1>10, <3>2, <4>1, <4>2, Zenon
      <3>3. QED
        BY <3>1, <3>2
    <2>3. QED
      BY <1>9, <2>1, <2>2 DEF Requested
  <1>12. QED
    BY <1>5, <1>6, <1>7, <1>8, <1>11

(* After the launch of what is ready, the invariant holds.                   *)
LEMMA LaunchInv ==
    ASSUME QInv, NEW S, NEW st, NEW svs, NEW ch, NEW ph, NEW pe, NEW ff, NEW an,
           Ready(S, st, svs, ch, ph, pe, ff, an), Launch(S, st, svs, ch, ph, pe, ff, an),
           jobs' \in SUBSET Jobs, parent' \in [Jobs -> Jobs \cup {NoParent}],
           queue' \in [Jobs -> Jobs \cup {NoParent}], Forest(queue'),
           runQueue' \in Seq(Jobs), defQueue' \in Seq(Jobs), known' \in SUBSET Jobs,
           crashed' \in BOOLEAN, UNCHANGED <<conn, losses>>
    PROVE  QInv' /\ \A x \in Jobs : ph[x] # "waiting" => phase'[x] = ph[x] /\ pending'[x] = pe[x]
  <1>1. conn \in [Daemons -> BOOLEAN] /\ losses \in Nat
    BY DEF QInv, TypeOK
  <1>2. /\ InTurn({}, phase', runQueue')
        /\ ChildrenWait({}, queue', phase', runQueue', children')
        /\ Submitted(status', jobs', queue', phase')
        /\ AfterParent({}, status', jobs', queue', phase', runQueue')
        /\ \A x \in Jobs : ph[x] # "waiting" => phase'[x] = ph[x] /\ pending'[x] = pe[x]
    BY LaunchLists
  <1>3. /\ status' \in [Jobs -> Status] /\ servers' \in [Jobs -> SUBSET Daemons]
        /\ children' \in [Jobs -> Seq(Jobs)] /\ phase' \in [Jobs -> Phase]
        /\ pending' \in [Jobs -> Nat] /\ fifo' \in [Daemons -> Seq(Jobs)]
        /\ answers' \in [Daemons -> Nat]
        /\ Requested(phase', pending', fifo')
    BY <1>1, LaunchRequests
  <1>4. TypeOK'
    BY <1>1, <1>3 DEF TypeOK
  <1>5. QED
    BY <1>2, <1>3, <1>4 DEF QInv

-----------------------------------------------------------------------------
(* The steps of the maestro.  Each of them keeps the invariant, and lets the *)
(* runners that are not waiting alone: RunsOnce.                             *)

RunsOnce ==
    \A j \in Jobs :
        /\ phase[j] \in {"ran", "dead"} => phase'[j] = phase[j]
        /\ phase[j] = "asked" /\ phase'[j] = "asked" => pending'[j] <= pending[j]

(* The types, one by one.                                                    *)
LEMMA Types ==
    ASSUME QInv
    PROVE  /\ status \in [Jobs -> Status] /\ jobs \in SUBSET Jobs /\ known \in SUBSET Jobs
           /\ parent \in [Jobs -> Jobs \cup {NoParent}] /\ queue \in [Jobs -> Jobs \cup {NoParent}]
           /\ servers \in [Jobs -> SUBSET Daemons] /\ phase \in [Jobs -> Phase]
           /\ pending \in [Jobs -> Nat] /\ runQueue \in Seq(Jobs) /\ defQueue \in Seq(Jobs)
           /\ children \in [Jobs -> Seq(Jobs)] /\ fifo \in [Daemons -> Seq(Jobs)]
           /\ answers \in [Daemons -> Nat] /\ conn \in [Daemons -> BOOLEAN]
           /\ losses \in Nat /\ crashed \in BOOLEAN
  BY DEF QInv, TypeOK

(* What the steps have to show for RunsOnce.                                 *)
LEMMA AtRest ==
    ASSUME QInv,
           \A x \in Jobs : phase[x] # "none" /\ phase[x] # "waiting"
                            => phase'[x] = phase[x] /\ pending'[x] = pending[x]
    PROVE  RunsOnce
  <1>1. \A x \in Jobs : pending[x] \in Nat
    BY Types
  <1>2. \A x \in Jobs : pending[x] <= pending[x]
    BY <1>1
  <1>3. QED
    BY <1>2 DEF RunsOnce

(* What is known of a job that was not submitted: it has no place anywhere.  *)
LEMMA NotSubmitted ==
    ASSUME QInv, NEW j \in Jobs, status[j] = "none"
    PROVE  /\ phase[j] = "none" /\ j \notin jobs /\ j \notin ToSet(runQueue)
           /\ \A x \in Jobs : queue[x] # j /\ j \notin ToSet(children[x])
           /\ \A d \in Daemons : j \notin ToSet(fifo[d])
  <1>1. phase[j] = "none" /\ j \notin jobs /\ \A x \in Jobs : queue[x] # j
    BY DEF QInv, Submitted
  <1>2. j \notin ToSet(runQueue)
    BY <1>1 DEF QInv, InTurn, ToSet
  <1>3. \A x \in Jobs : j \notin ToSet(children[x])
    BY <1>1 DEF QInv, ChildrenWait
  <1>4. \A d \in Daemons : j \notin ToSet(fifo[d])
    BY <1>1 DEF QInv, Requested
  <1>5. QED
    BY <1>1, <1>2, <1>3, <1>4

(* A new job hangs on the forest by the job it waits for.                    *)
LEMMA EnterForest ==
    ASSUME QInv, NEW j \in Jobs, NEW p, Enter(j, p)
    PROVE  /\ p \in Jobs \cup {NoParent} /\ p # j
           /\ queue' \in [Jobs -> Jobs \cup {NoParent}] /\ queue'[j] = p
           /\ \A x \in Jobs : x # j => queue'[x] = queue[x]
           /\ parent' \in [Jobs -> Jobs \cup {NoParent}]
           /\ jobs' = jobs \cup {j} /\ jobs' \in SUBSET Jobs
           /\ p \in Jobs => status[p] # "none"
           /\ Forest(queue')
  <1>1. /\ p \in {NoParent} \cup {x \in Jobs : status[x] # "none"} /\ status[j] = "none"
        /\ jobs' = jobs \cup {j} /\ parent' = [parent EXCEPT ![j] = p] /\ queue' = [queue EXCEPT ![j] = p]
    BY DEF Enter
  <1>2. /\ p \in Jobs \cup {NoParent} /\ p # j /\ (p \in Jobs => status[p] # "none")
        /\ queue' \in [Jobs -> Jobs \cup {NoParent}] /\ queue'[j] = p
        /\ \A x \in Jobs : x # j => queue'[x] = queue[x]
        /\ parent' \in [Jobs -> Jobs \cup {NoParent}] /\ jobs' \in SUBSET Jobs
    BY <1>1, Types, QueueAssumption
  <1>3. PICK rank \in [Jobs -> Nat] : \A x \in Jobs : queue[x] \in Jobs => rank[queue[x]] < rank[x]
    BY DEF QInv, Forest
  <1> DEFINE r == [rank EXCEPT ![j] = IF p \in Jobs THEN rank[p] + 1 ELSE 0]
  <1>4. r \in [Jobs -> Nat] /\ (p \in Jobs => r[j] = rank[p] + 1) /\ \A x \in Jobs : x # j => r[x] = rank[x]
    BY <1>3
  <1> HIDE DEF r
  <1>5. \A x \in Jobs : queue[x] # j
    BY <1>1, NotSubmitted
  <1>6. ASSUME NEW x \in Jobs, queue'[x] \in Jobs PROVE r[queue'[x]] < r[x]
    <2>1. CASE x = j
      BY <1>2, <1>3, <1>4, <1>6, <2>1
    <2>2. CASE x # j
      BY <1>2, <1>3, <1>4, <1>5, <1>6, <2>2
    <2>3. QED
      BY <2>1, <2>2
  <1>7. QED
    BY <1>1, <1>2, <1>4, <1>6 DEF Forest

(* The statuses and the runners when job j has got its own.                  *)
Given(j, st, ph) ==
    /\ st[j] # "none" /\ (ph[j] = "none" \/ ph[j] = "waiting")
    /\ \A x \in Jobs : x # j => st[x] = status[x] /\ ph[x] = phase[x]

(* What holds of the other jobs while a new one enters, with its status and  *)
(* its runner set.                                                           *)
LEMMA EnterOthers ==
    ASSUME QInv, NEW j \in Jobs, NEW p, Enter(j, p), NEW st, NEW ph, Given(j, st, ph)
    PROVE  /\ Submitted(st, jobs', queue', ph)
           /\ AfterParent({}, st, jobs', queue', ph, runQueue)
           /\ ChildrenWait({}, queue', ph, runQueue, children)
           /\ \A y \in Jobs : j \notin ToSet(children[y])
           /\ InTurn({}, ph, runQueue) /\ j \notin ToSet(runQueue)
           /\ Requested(ph, pending, fifo)
  <1>1. /\ st[j] # "none" /\ ph[j] \in {"none", "waiting"}
        /\ \A x \in Jobs : x # j => st[x] = status[x]
        /\ \A x \in Jobs : x # j => ph[x] = phase[x]
    BY DEF Given
  <1>2. /\ p \in Jobs \cup {NoParent} /\ p # j /\ queue'[j] = p /\ jobs' = jobs \cup {j}
        /\ \A x \in Jobs : x # j => queue'[x] = queue[x]
        /\ p \in Jobs => status[p] # "none"
    BY EnterForest
  <1>3. /\ phase[j] = "none" /\ j \notin jobs /\ j \notin ToSet(runQueue)
        /\ \A x \in Jobs : queue[x] # j /\ j \notin ToSet(children[x])
        /\ \A d \in Daemons : j \notin ToSet(fifo[d])
    BY NotSubmitted DEF Enter
  <1>4. Submitted(st, jobs', queue', ph)
    BY <1>1, <1>2, <1>3 DEF QInv, Submitted
  <1>5. AfterParent({}, st, jobs', queue', ph, runQueue)
    <2> SUFFICES ASSUME NEW x \in Jobs, queue'[x] \in jobs',
                        ph[x] \in {"asked", "ran"} \/ x \in ToSet(runQueue)
                 PROVE  st[queue'[x]] = "stopped"
      BY DEF AfterParent
    <2>1. x # j
      BY <1>1, <1>3
    <2>2. queue'[x] = queue[x] /\ queue[x] \in jobs /\ queue[x] # j /\ queue[x] \in Jobs
      BY <1>2, <1>3, <2>1, Types
    <2>3. status[queue[x]] = "stopped"
      BY <1>1, <2>1, <2>2 DEF QInv, AfterParent
    <2>4. QED
      BY <1>1, <2>2, <2>3
  <1>6. ChildrenWait({}, queue', ph, runQueue, children)
    <2>1. \A y \in Jobs : \A x \in ToSet(children[y]) : x \in Jobs /\ x # j
      BY <1>3, Types DEF ToSet
    <2>2. QED
      BY <1>1, <1>2, <2>1 DEF QInv, ChildrenWait
  <1>7. InTurn({}, ph, runQueue)
    <2>1. \A i \in DOMAIN runQueue : runQueue[i] \in Jobs /\ runQueue[i] # j
      BY <1>3, Types DEF ToSet
    <2>2. QED
      BY <1>1, <2>1 DEF QInv, InTurn
  <1>8. Requested(ph, pending, fifo)
    <2>1. \A d \in Daemons : \A x \in ToSet(fifo[d]) : x \in Jobs /\ x # j
      BY <1>3, Types DEF ToSet
    <2>2. QED
      BY <1>1, <2>1 DEF QInv, Requested
  <1>9. QED
    BY <1>3, <1>4, <1>5, <1>6, <1>7, <1>8

(* A job that no node supports.                                              *)
LEMMA RunUnsupportedInv ==
    ASSUME QInv, NEW j \in Jobs, NEW p, RunUnsupported(j, p)
    PROVE  QInv' /\ RunsOnce
  <1>1. /\ Enter(j, p) /\ status' = [status EXCEPT ![j] = "stopped"] /\ known' = known \cup {j}
        /\ UNCHANGED <<servers, phase, pending, fifo, answers, runQueue, defQueue, children,
                       conn, losses, crashed>>
    BY DEF RunUnsupported, Enter, runVars
  <1>2. status' \in [Jobs -> Status] /\ status'[j] = "stopped" /\ \A x \in Jobs : x # j => status'[x] = status[x]
    BY <1>1, Types DEF Status
  <1>3. phase[j] = "none"
    BY <1>1, NotSubmitted DEF Enter
  <1>4. /\ Submitted(status', jobs', queue', phase)
        /\ AfterParent({}, status', jobs', queue', phase, runQueue)
        /\ ChildrenWait({}, queue', phase, runQueue, children)
        /\ InTurn({}, phase, runQueue)
        /\ Requested(phase, pending, fifo)
    <2>1. Given(j, status', phase)
      BY <1>2, <1>3 DEF Given
    <2>2. QED
      BY <1>1, <2>1, EnterOthers
  <1>5. TypeOK' /\ Forest(queue')
    <2>1. /\ queue' \in [Jobs -> Jobs \cup {NoParent}] /\ parent' \in [Jobs -> Jobs \cup {NoParent}]
          /\ jobs' \in SUBSET Jobs /\ Forest(queue')
      BY <1>1, EnterForest
    <2>2. QED
      BY <1>1, <1>2, <2>1, Types DEF TypeOK
  <1>6. QED
    BY <1>1, <1>4, <1>5, Types DEF QInv, RunsOnce

(* A job that joins the run queue, and is run when it is alone there.        *)
LEMMA RunNowInv ==
    ASSUME QInv, NEW j \in Jobs, NEW p, RunNow(j, p)
    PROVE  QInv' /\ RunsOnce
  <1> DEFINE S  == IF runQueue = <<>> THEN {j} ELSE {}
             st == Entered(j, p)
             ph == [phase EXCEPT ![j] = "waiting"]
  <1>1. PICK group \in Groups :
          Launch(S, st, [servers EXCEPT ![j] = group], children, ph, pending, fifo, answers)
    BY DEF RunNow
  <1> DEFINE svs == [servers EXCEPT ![j] = group]
  <1>2. /\ Enter(j, p) /\ (p \in jobs => status[p] = "stopped")
        /\ defQueue' = <<j>> \o defQueue /\ runQueue' = Append(runQueue, j)
        /\ UNCHANGED <<known, conn, losses, crashed>>
    BY DEF RunNow, Enter
  <1>3. /\ st \in [Jobs -> Status] /\ st[j] # "none" /\ \A x \in Jobs : x # j => st[x] = status[x]
    BY Types DEF Entered, Status
  <1>4. /\ ph \in [Jobs -> Phase] /\ ph[j] = "waiting" /\ \A x \in Jobs : x # j => ph[x] = phase[x]
    BY Types DEF Phase
  <1>5. svs \in [Jobs -> SUBSET Daemons] /\ Launch(S, st, svs, children, ph, pending, fifo, answers)
    BY <1>1, Types DEF Groups
  <1> HIDE DEF st, ph, svs
  <1>6. /\ Submitted(st, jobs', queue', ph)
        /\ AfterParent({}, st, jobs', queue', ph, runQueue)
        /\ ChildrenWait({}, queue', ph, runQueue, children)
        /\ \A y \in Jobs : j \notin ToSet(children[y])
        /\ InTurn({}, ph, runQueue) /\ j \notin ToSet(runQueue)
        /\ Requested(ph, pending, fifo)
    <2>1. Given(j, st, ph)
      BY <1>3, <1>4 DEF Given
    <2>2. QED
      BY <1>2, <2>1, EnterOthers
  <1>7. /\ runQueue \in Seq(Jobs) /\ runQueue' \in Seq(Jobs) /\ DOMAIN runQueue' = 1..(Len(runQueue) + 1)
        /\ \A i \in DOMAIN runQueue : i \in DOMAIN runQueue' /\ runQueue'[i] = runQueue[i]
        /\ runQueue'[Len(runQueue) + 1] = j
        /\ \A i \in DOMAIN runQueue' : i \in DOMAIN runQueue \/ i = Len(runQueue) + 1
        /\ runQueue = <<>> <=> Len(runQueue) + 1 = 1
    BY <1>2, Types
  <1>8. ToSet(runQueue') = ToSet(runQueue) \cup {j}
    <2>1. Len(runQueue) + 1 \in DOMAIN runQueue'
      BY <1>7
    <2>2. QED
      BY <1>7, <2>1 DEF ToSet
  <1>9. InTurn(S, ph, runQueue')
    <2>1. \A i \in DOMAIN runQueue : runQueue[i] # j /\ runQueue[i] \in ToSet(runQueue)
      BY <1>6 DEF ToSet
    <2>2. IsInjective(runQueue')
      BY <1>6, <1>7, <2>1 DEF InTurn, IsInjective
    <2>3. ASSUME NEW i \in DOMAIN runQueue
          PROVE  IF i = 1 THEN ph[runQueue'[i]] \in {"asked", "ran", "dead"}
                 ELSE ph[runQueue'[i]] = "waiting" /\ runQueue'[i] \notin S
      BY <1>6, <1>7, <2>1, <2>3 DEF InTurn
    <2>4. ASSUME NEW i \in DOMAIN runQueue', i = Len(runQueue) + 1
          PROVE  IF i = 1 THEN runQueue'[i] \in S ELSE ph[runQueue'[i]] = "waiting" /\ runQueue'[i] \notin S
      BY <1>4, <1>7, <2>4
    <2> HIDE DEF S
    <2>5. QED
      BY <1>7, <2>2, <2>3, <2>4 DEF InTurn
  <1>10. ChildrenWait(S, queue', ph, runQueue', children)
    BY <1>6, <1>8 DEF ChildrenWait
  <1>11. AfterParent(S, st, jobs', queue', ph, runQueue')
    <2>1. queue'[j] \in jobs' => st[queue'[j]] = "stopped"
      <3>1. /\ queue'[j] = p /\ p # j /\ jobs' = jobs \cup {j}
        BY <1>2, EnterForest
      <3>2. QED
        BY <1>2, <1>3, <3>1, Types
    <2>2. QED
      BY <1>6, <1>8, <2>1 DEF AfterParent
  <1>12. Ready(S, st, svs, children, ph, pending, fifo, answers)
    <2>1. S \in SUBSET Jobs /\ \A x \in S : ph[x] = "waiting"
      BY <1>4
    <2> HIDE DEF S
    <2>2. QED
      BY <1>3, <1>4, <1>5, <1>6, <1>9, <1>10, <1>11, <2>1, Types DEF Ready
  <1> HIDE DEF S
  <1>13. /\ queue' \in [Jobs -> Jobs \cup {NoParent}] /\ parent' \in [Jobs -> Jobs \cup {NoParent}]
         /\ jobs' \in SUBSET Jobs /\ Forest(queue')
    BY <1>2, EnterForest
  <1>14. defQueue' \in Seq(Jobs) /\ known' \in SUBSET Jobs /\ crashed' \in BOOLEAN
    BY <1>2, Types
  <1>15. QInv' /\ \A x \in Jobs : ph[x] # "waiting" => phase'[x] = ph[x] /\ pending'[x] = pending[x]
    BY <1>2, <1>5, <1>7, <1>12, <1>13, <1>14, LaunchInv, SMTT(60)
  <1>16. RunsOnce
    <2>1. phase[j] = "none"
      BY <1>2, NotSubmitted DEF Enter
    <2>2. \A x \in Jobs : phase[x] # "none" /\ phase[x] # "waiting" => phase'[x] = phase[x] /\ pending'[x] = pending[x]
      BY <1>4, <1>15, <2>1
    <2>3. QED
      BY <2>2, AtRest
  <1>17. QED
    BY <1>15, <1>16

(* A job that waits among the children of its parent.                        *)
LEMMA RunAfterInv ==
    ASSUME QInv, NEW j \in Jobs, NEW p, RunAfter(j, p)
    PROVE  QInv' /\ RunsOnce
  <1>1. /\ Enter(j, p) /\ p \in jobs /\ status[p] # "stopped" /\ status' = Entered(j, p)
        /\ phase' = [phase EXCEPT ![j] = "waiting"]
        /\ children' = [children EXCEPT ![p] = <<j>> \o @]
        /\ defQueue' = (IF Contains(defQueue, p) THEN InsertedAfter(defQueue, p, j) ELSE defQueue)
        /\ known' = (IF defQueue = <<>> THEN known \cup {j} ELSE known)
        /\ UNCHANGED <<pending, fifo, answers, runQueue, conn, losses, crashed>>
    BY DEF RunAfter, Enter
  <1>2. status' \in [Jobs -> Status] /\ status'[j] # "none" /\ \A x \in Jobs : x # j => status'[x] = status[x]
    BY <1>1, Types DEF Entered, Status
  <1>3. phase' \in [Jobs -> Phase] /\ phase'[j] = "waiting" /\ \A x \in Jobs : x # j => phase'[x] = phase[x]
    BY <1>1, Types DEF Phase
  <1>4. /\ Submitted(status', jobs', queue', phase')
        /\ AfterParent({}, status', jobs', queue', phase', runQueue)
        /\ ChildrenWait({}, queue', phase', runQueue, children)
        /\ \A y \in Jobs : j \notin ToSet(children[y])
        /\ InTurn({}, phase', runQueue) /\ j \notin ToSet(runQueue)
        /\ Requested(phase', pending, fifo)
    <2>1. Given(j, status', phase')
      BY <1>2, <1>3 DEF Given
    <2>2. QED
      BY <1>1, <2>1, EnterOthers
  <1>5. /\ p \in Jobs /\ p # j /\ queue'[j] = p
        /\ queue' \in [Jobs -> Jobs \cup {NoParent}] /\ parent' \in [Jobs -> Jobs \cup {NoParent}]
        /\ jobs' \in SUBSET Jobs /\ Forest(queue')
    BY <1>1, EnterForest, Types
  <1>6. /\ children' \in [Jobs -> Seq(Jobs)] /\ children'[p] = <<j>> \o children[p]
        /\ \A y \in Jobs : y # p => children'[y] = children[y]
    <2>1. children \in [Jobs -> Seq(Jobs)] /\ <<j>> \o children[p] \in Seq(Jobs)
      BY <1>5, Types
    <2>2. QED
      BY <1>1, <1>5, <2>1
  <1>7. ChildrenWait({}, queue', phase', runQueue, children')
    <2>1. ToSet(children'[p]) = {j} \cup ToSet(children[p]) /\ IsInjective(children'[p])
      <3>1. children[p] \in Seq(Jobs) /\ IsInjective(children[p]) /\ j \notin ToSet(children[p])
        BY <1>4, <1>5, Types DEF ChildrenWait
      <3>2. QED
        BY <1>6, <3>1, PrependElements
    <2>2. QED
      BY <1>3, <1>4, <1>5, <1>6, <2>1 DEF ChildrenWait
  <1>8. defQueue' \in Seq(Jobs) /\ known' \in SUBSET Jobs
    <2>1. defQueue \in Seq(Jobs) /\ known \in SUBSET Jobs
      BY Types
    <2>2. Contains(defQueue, p) => InsertedAfter(defQueue, p, j) \in Seq(Jobs)
      BY <2>1, InsertElements
    <2>3. QED
      BY <1>1, <2>1, <2>2
  <1>9. servers' \in [Jobs -> SUBSET Daemons]
    BY Types DEF RunAfter, Groups
  <1>10. TypeOK'
    BY <1>1, <1>2, <1>3, <1>5, <1>6, <1>8, <1>9, Types DEF TypeOK
  <1>11. RunsOnce
    <2>1. phase[j] = "none"
      BY <1>1, NotSubmitted DEF Enter
    <2>2. QED
      BY <1>1, <1>3, <2>1, AtRest
  <1>12. QED
    BY <1>1, <1>4, <1>5, <1>7, <1>10, <1>11 DEF QInv

(* A load answer is taken for the first request of the FIFO: the job of that *)
(* request waits for it, and for one less afterwards.                        *)
LEMMA AnswerTaken ==
    ASSUME QInv, NEW d \in Daemons, fifo[d] # <<>>
    PROVE  LET j  == Head(fifo[d])
               ff == [fifo EXCEPT ![d] = Tail(@)]
               pe == [pending EXCEPT ![j] = @ - 1]
           IN /\ j \in Jobs /\ phase[j] = "asked"
              /\ ff \in [Daemons -> Seq(Jobs)] /\ pe \in [Jobs -> Nat]
              /\ \A x \in Jobs : pe[x] <= pending[x]
              /\ \A x \in Jobs : x # j => pe[x] = pending[x]
              /\ Requested(phase, pe, ff)
              /\ pe[j] > 0 \/ \A c \in Daemons : j \notin ToSet(ff[c])
  <1> DEFINE j  == Head(fifo[d])
             ff == [fifo EXCEPT ![d] = Tail(@)]
             pe == [pending EXCEPT ![j] = @ - 1]
  <1>1. fifo[d] \in Seq(Jobs) /\ IsInjective(fifo[d])
    BY Types DEF QInv, Requested
  <1>2. /\ j \in Jobs /\ j \in ToSet(fifo[d]) /\ Tail(fifo[d]) \in Seq(Jobs)
        /\ IsInjective(Tail(fifo[d])) /\ ToSet(Tail(fifo[d])) = ToSet(fifo[d]) \ {j}
    BY <1>1, TailElements
  <1>3. phase[j] = "asked" /\ pending[j] = Cardinality(Askers(j, fifo))
    BY <1>2 DEF QInv, Requested
  <1>4. /\ ff \in [Daemons -> Seq(Jobs)] /\ ff[d] = Tail(fifo[d])
        /\ \A c \in Daemons : c # d => ff[c] = fifo[c]
    BY <1>2, Types
  <1> HIDE DEF ff
  <1>5. /\ Askers(j, ff) = Askers(j, fifo) \ {d} /\ d \in Askers(j, fifo)
        /\ \A x \in Jobs : x # j => Askers(x, ff) = Askers(x, fifo)
    BY <1>2, <1>4 DEF Askers
  <1>6. /\ IsFiniteSet(Askers(j, fifo)) /\ Cardinality(Askers(j, fifo)) \in Nat
        /\ IsFiniteSet(Askers(j, ff)) /\ Cardinality(Askers(j, ff)) \in Nat
    BY NodesFinite DEF Askers
  <1>7. Cardinality(Askers(j, ff)) = Cardinality(Askers(j, fifo)) - 1
    BY <1>5, <1>6, FS_RemoveElement
  <1>8. pending \in [Jobs -> Nat]
    BY Types
  <1>9. pe[j] = Cardinality(Askers(j, ff)) /\ \A x \in Jobs : x # j => pe[x] = pending[x]
    BY <1>2, <1>3, <1>7, <1>8
  <1>10. /\ pe \in [Jobs -> Nat] /\ \A x \in Jobs : pe[x] <= pending[x]
    BY <1>2, <1>3, <1>6, <1>7, <1>8
  <1> HIDE DEF pe
  <1>11. Requested(phase, pe, ff)
    <2>1. \A c \in Daemons : IsInjective(ff[c]) /\ ToSet(ff[c]) \subseteq ToSet(fifo[c])
      BY <1>2, <1>4 DEF QInv, Requested
    <2>2. ASSUME NEW x \in Jobs, phase[x] = "asked" PROVE pe[x] = Cardinality(Askers(x, ff))
      <3>1. CASE x = j
        BY <1>9, <3>1, Zenon
      <3>2. CASE x # j
        <4>1. pending[x] = Cardinality(Askers(x, fifo))
          BY <2>2 DEF QInv, Requested
        <4>2. QED
          BY <1>5, <1>9, <3>2, <4>1, Zenon
      <3>3. QED
        BY <3>1, <3>2
    <2>3. QED
      BY <2>1, <2>2 DEF QInv, Requested
  <1>12. pe[j] > 0 \/ \A c \in Daemons : j \notin ToSet(ff[c])
    <2>1. CASE Cardinality(Askers(j, ff)) = 0
      <3>1. Askers(j, ff) = {}
        BY <1>6, <2>1, FS_EmptySet
      <3>2. QED
        BY <3>1 DEF Askers
    <2>2. CASE Cardinality(Askers(j, ff)) # 0
      BY <1>6, <1>9, <2>2
    <2>3. QED
      BY <2>1, <2>2
  <1>13. QED
    BY <1>2, <1>3, <1>4, <1>9, <1>10, <1>11, <1>12 DEF pe, ff

(* A load answer, the last one of its runner or not.                         *)
LEMMA ResponseInv ==
    ASSUME QInv, NEW d \in Daemons, Response(d)
    PROVE  QInv' /\ RunsOnce
  <1> DEFINE j    == Head(fifo[d])
             ff   == [fifo EXCEPT ![d] = Tail(@)]
             an   == [answers EXCEPT ![d] = @ - 1]
             pe   == [pending EXCEPT ![j] = @ - 1]
             ph   == [phase EXCEPT ![j] = "ran"]
             rq   == Popped(runQueue)
             next == IF rq = <<>> THEN {} ELSE {Head(rq)}
  <1>1. fifo[d] # <<>> /\ answers[d] > 0 /\ UNCHANGED <<jobs, parent, queue, conn, losses>>
    BY DEF Response
  <1>2. /\ j \in Jobs /\ phase[j] = "asked"
        /\ ff \in [Daemons -> Seq(Jobs)] /\ pe \in [Jobs -> Nat]
        /\ \A x \in Jobs : pe[x] <= pending[x]
        /\ \A x \in Jobs : x # j => pe[x] = pending[x]
        /\ Requested(phase, pe, ff)
        /\ pe[j] > 0 \/ \A c \in Daemons : j \notin ToSet(ff[c])
    BY <1>1, AnswerTaken
  <1>3. an \in [Daemons -> Nat]
    BY <1>1, Types
  <1>4. \/ /\ pe[j] > 0 /\ fifo' = ff /\ answers' = an /\ pending' = pe
           /\ UNCHANGED <<status, servers, phase, children, runQueue, defQueue, known, crashed>>
        \/ /\ ~(pe[j] > 0)
           /\ runQueue' = rq /\ defQueue' = Popped(defQueue) /\ known' = known \cup {j}
           /\ Launch(next, status, servers, children, ph, pe, ff, an)
           /\ crashed' = \E x \in next : ~CanRun(x, servers) /\ x \notin jobs
    BY DEF Response
  <1>5. /\ ph \in [Jobs -> Phase] /\ ph[j] = "ran" /\ \A x \in Jobs : x # j => ph[x] = phase[x]
    BY <1>2, Types DEF Phase
  <1> HIDE DEF ff, an, pe, ph, j
  <1>6. CASE /\ fifo' = ff /\ answers' = an /\ pending' = pe
             /\ UNCHANGED <<status, servers, phase, children, runQueue, defQueue, known, crashed>>
    <2>1. TypeOK'
      BY <1>1, <1>2, <1>3, <1>6, Types DEF TypeOK
    <2>2. RunsOnce
      BY <1>2, <1>6 DEF RunsOnce
    <2>3. QED
      BY <1>1, <1>2, <1>6, <2>1, <2>2 DEF QInv
  <1>7. CASE /\ ~(pe[j] > 0)
             /\ runQueue' = rq /\ defQueue' = Popped(defQueue) /\ known' = known \cup {j}
             /\ Launch(next, status, servers, children, ph, pe, ff, an)
             /\ crashed' = \E x \in next : ~CanRun(x, servers) /\ x \notin jobs
    <2>1. runQueue \in Seq(Jobs) /\ IsInjective(runQueue)
      BY Types DEF QInv, InTurn
    <2>2. /\ rq \in Seq(Jobs) /\ IsInjective(rq) /\ ToSet(rq) \subseteq ToSet(runQueue)
          /\ \A i \in DOMAIN rq : i \in Nat /\ i + 1 \in DOMAIN runQueue /\ i + 1 # 1 /\ rq[i] = runQueue[i + 1]
      <3>1. CASE runQueue = <<>>
        BY <2>1, <3>1 DEF Popped
      <3>2. CASE runQueue # <<>>
        BY <2>1, <3>2, TailElements DEF Popped
      <3>3. QED
        BY <3>1, <3>2
    <2> HIDE DEF rq
    <2>3. \A i \in DOMAIN rq : rq[i] \in Jobs /\ phase[rq[i]] = "waiting" /\ rq[i] # j
      <3>1. \A i \in DOMAIN rq : rq[i] \in Jobs /\ phase[rq[i]] = "waiting"
        BY <2>2 DEF QInv, InTurn
      <3>2. QED
        BY <1>2, <3>1
    <2>4. next \subseteq ToSet(rq) /\ \A i \in DOMAIN rq : rq[i] \in next <=> i = 1
      <3>1. CASE rq = <<>>
        BY <2>2, <3>1
      <3>2. CASE rq # <<>>
        <4>1. 1 \in DOMAIN rq /\ Head(rq) = rq[1]
          BY <2>2, <3>2
        <4>2. \A i \in DOMAIN rq : rq[i] = rq[1] <=> i = 1
          BY <2>2, <4>1 DEF IsInjective
        <4>3. QED
          BY <3>2, <4>1, <4>2 DEF ToSet
      <3>3. QED
        BY <3>1, <3>2
    <2> HIDE DEF next
    <2>5. next \in SUBSET Jobs /\ \A x \in next : x # j /\ ph[x] = "waiting" /\ x \in ToSet(runQueue)
      BY <1>5, <2>2, <2>3, <2>4 DEF ToSet
    <2>6. InTurn(next, ph, rq)
      BY <1>5, <2>2, <2>3, <2>4 DEF InTurn
    <2>7. ChildrenWait(next, queue, ph, rq, children)
      <3>1. \A y \in Jobs : \A x \in ToSet(children[y]) : x \in Jobs
        BY Types DEF ToSet
      <3>2. \A y \in Jobs : /\ IsInjective(children[y])
                            /\ \A x \in ToSet(children[y]) :
                                 phase[x] = "waiting" /\ queue[x] = y /\ x \notin ToSet(runQueue)
        BY DEF QInv, ChildrenWait
      <3>3. \A y \in Jobs : \A x \in ToSet(children[y]) : ph[x] = "waiting"
        BY <1>2, <1>5, <3>1, <3>2
      <3>4. QED
        BY <2>2, <2>5, <3>2, <3>3 DEF ChildrenWait
    <2>8. Submitted(status, jobs, queue, ph)
      BY <1>2, <1>5 DEF QInv, Submitted
    <2>9. AfterParent(next, status, jobs, queue, ph, rq)
      <3>1. \A x \in Jobs : ph[x] \in {"asked", "ran"} => phase[x] \in {"asked", "ran"}
        BY <1>2, <1>5
      <3>2. QED
        BY <2>2, <2>5, <3>1 DEF QInv, AfterParent
    <2>10. Requested(ph, pe, ff)
      <3>1. \A c \in Daemons : \A x \in ToSet(ff[c]) : x \in Jobs /\ x # j
        BY <1>2, <1>7 DEF ToSet
      <3>2. QED
        BY <1>2, <1>5, <3>1 DEF Requested
    <2>11. Ready(next, status, servers, children, ph, pe, ff, an)
      BY <1>1, <1>2, <1>3, <1>5, <1>7, <2>5, <2>6, <2>7, <2>8, <2>9, <2>10, Types DEF Ready
    <2>12. defQueue' \in Seq(Jobs) /\ known' \in SUBSET Jobs
      BY <1>2, <1>7, Types DEF Popped
    <2>13. crashed' \in BOOLEAN
      BY <1>7
    <2>14. /\ jobs' \in SUBSET Jobs /\ parent' \in [Jobs -> Jobs \cup {NoParent}]
           /\ queue' \in [Jobs -> Jobs \cup {NoParent}] /\ Forest(queue') /\ runQueue' \in Seq(Jobs)
           /\ UNCHANGED <<conn, losses>>
      BY <1>1, <1>7, <2>2, Types DEF QInv
    <2>15. Launch(next, status, servers, children, ph, pe, ff, an)
      BY <1>7
    <2>16. QInv' /\ \A x \in Jobs : ph[x] # "waiting" => phase'[x] = ph[x] /\ pending'[x] = pe[x]
      BY <2>11, <2>12, <2>13, <2>14, <2>15, LaunchInv, SMTT(60)
    <2>17. RunsOnce
      <3>1. \A x \in Jobs : x # j /\ phase[x] # "waiting" => phase'[x] = phase[x] /\ pending'[x] <= pending[x]
        BY <1>2, <1>5, <2>16
      <3>2. phase[j] = "asked" /\ phase'[j] = "ran"
        BY <1>2, <1>5, <2>16
      <3>3. QED
        BY <3>1, <3>2 DEF RunsOnce
    <2>18. QED
      BY <2>16, <2>17
  <1>8. QED
    BY <1>4, <1>6, <1>7

(* A job starts to run, and some definitions go out.                         *)
LEMMA RunningInv ==
    ASSUME QInv, NEW j \in Jobs,
           status' = [status EXCEPT ![j] = "running"], status[j] \in {"initial", "queued"},
           UNCHANGED <<jobs, parent, queue, servers, phase, pending, fifo, answers, runQueue, children,
                       conn, losses, crashed>>,
           defQueue' \in Seq(Jobs), known' \in SUBSET Jobs
    PROVE  QInv' /\ RunsOnce
  <1>3. /\ status' \in [Jobs -> Status] /\ status'[j] = "running"
        /\ \A x \in Jobs : x # j => status'[x] = status[x]
    BY Types DEF Status
  <1>4. \A x : /\ x \in Jobs /\ status[x] = "stopped" => status'[x] = "stopped"
               /\ x \in Jobs /\ status[x] # "none" => status'[x] # "none"
    BY <1>3
  <1>5. Submitted(status', jobs, queue, phase)
    BY <1>4 DEF QInv, Submitted
  <1>6. AfterParent({}, status', jobs, queue, phase, runQueue)
    <2>1. jobs \in SUBSET Jobs
      BY Types
    <2>2. QED
      BY <1>4, <2>1 DEF QInv, AfterParent
  <1>7. TypeOK'
    BY <1>3, Types DEF TypeOK
  <1>8. RunsOnce
    BY AtRest
  <1>9. QED
    BY <1>5, <1>6, <1>7, <1>8 DEF QInv

LEMMA StartsInv ==
    ASSUME QInv, NEW j \in Jobs, NEW told, Starts(j, told)
    PROVE  QInv' /\ RunsOnce
  <1>1. /\ status' = [status EXCEPT ![j] = "running"] /\ status[j] \in {"initial", "queued"}
        /\ UNCHANGED <<jobs, parent, queue, servers, phase, pending, fifo, answers, runQueue, children,
                       conn, losses, crashed>>
    BY DEF Starts, runVars
  <1>2. defQueue' \in Seq(Jobs) /\ known' \in SUBSET Jobs
    <2>1. defQueue \in Seq(Jobs) /\ known \in SUBSET Jobs /\ ToSet(defQueue) \subseteq Jobs
      BY Types DEF ToSet
    <2>2. \/ known' = known \cup ToSet(defQueue) /\ defQueue' = <<>>
          \/ known' = known /\ defQueue' = defQueue
      BY DEF Starts
    <2>3. <<>> \in Seq(Jobs)
      OBVIOUS
    <2>4. QED
      BY <2>1, <2>2, <2>3, Zenon
  <1>3. QED
    BY <1>1, <1>2, RunningInv

(* A job stops, and its children are run.                                    *)
LEMMA StopsInv ==
    ASSUME QInv, NEW j \in Jobs, Stops(j)
    PROVE  QInv' /\ RunsOnce
  <1> DEFINE S  == ToSet(children[j])
             st == [status EXCEPT ![j] = "stopped"]
             ch == [children EXCEPT ![j] = <<>>]
  <1>1. /\ Launch(S, st, servers, ch, phase, pending, fifo, answers)
        /\ UNCHANGED <<jobs, parent, queue, runQueue, defQueue, known, conn, losses, crashed>>
    BY DEF Stops
  <1>2. /\ st \in [Jobs -> Status] /\ st[j] = "stopped"
        /\ \A x \in Jobs : x # j => st[x] = status[x]
    BY Types DEF Status
  <1>3. /\ ch \in [Jobs -> Seq(Jobs)] /\ ch[j] = <<>>
        /\ \A x \in Jobs : x # j => ch[x] = children[x]
    BY Types
  <1>4. S \in SUBSET Jobs
    BY Types DEF ToSet
  <1> HIDE DEF st, ch
  <1>5. \A x \in S : phase[x] = "waiting" /\ queue[x] = j /\ x \notin ToSet(runQueue)
    BY DEF QInv, ChildrenWait
  <1> HIDE DEF S
  <1>6. InTurn(S, phase, runQueue)
    <2>1. \A i \in DOMAIN runQueue : runQueue[i] \notin S
      BY <1>5 DEF ToSet
    <2>2. QED
      BY <2>1 DEF QInv, InTurn
  <1>7. ChildrenWait(S, queue, phase, runQueue, ch)
    <2>1. IsInjective(ch[j]) /\ ToSet(ch[j]) = {}
      BY <1>3 DEF IsInjective, ToSet
    <2>2. ASSUME NEW y \in Jobs, y # j
          PROVE  /\ IsInjective(ch[y])
                 /\ \A x \in ToSet(ch[y]) : phase[x] = "waiting" /\ queue[x] = y /\ x \notin ToSet(runQueue) /\ x \notin S
      BY <1>3, <1>5, <2>2 DEF QInv, ChildrenWait
    <2>3. QED
      BY <2>1, <2>2 DEF ChildrenWait
  <1>8. Submitted(st, jobs, queue, phase)
    BY <1>2 DEF QInv, Submitted
  <1>9. AfterParent(S, st, jobs, queue, phase, runQueue)
    <2>1. jobs \in SUBSET Jobs
      BY Types
    <2>2. QED
      BY <1>2, <1>5, <2>1 DEF QInv, AfterParent
  <1>10. Ready(S, st, servers, ch, phase, pending, fifo, answers)
    BY <1>1, <1>2, <1>3, <1>4, <1>5, <1>6, <1>7, <1>8, <1>9, Types DEF Ready, QInv
  <1>11. /\ jobs' \in SUBSET Jobs /\ parent' \in [Jobs -> Jobs \cup {NoParent}]
         /\ queue' \in [Jobs -> Jobs \cup {NoParent}] /\ Forest(queue') /\ runQueue' \in Seq(Jobs)
         /\ defQueue' \in Seq(Jobs) /\ known' \in SUBSET Jobs /\ crashed' \in BOOLEAN
         /\ UNCHANGED <<conn, losses>>
    BY <1>1, Types DEF QInv
  <1>12. QInv' /\ \A x \in Jobs : phase[x] # "waiting" => phase'[x] = phase[x] /\ pending'[x] = pending[x]
    BY <1>1, <1>10, <1>11, LaunchInv, SMTT(60)
  <1>13. QED
    BY <1>12, AtRest

(* A queued job is killed: some of its children wait for its parent now, and *)
(* the rest is run.                                                          *)
LEMMA UnqueueInv ==
    ASSUME QInv, NEW j \in Jobs, Unqueue(j)
    PROVE  QInv' /\ RunsOnce
  <1> DEFINE p       == queue[j]
             st      == [status EXCEPT ![j] = "stopped"]
             Part(n) == SubSeq(children[j], 1, n)
             Rest(n) == SubSeq(children[j], n + 1, Len(children[j]))
             Ch(n)   == [x \in Jobs |->
                           IF x = p /\ p \in jobs
                           THEN Reverse(Part(n)) \o RemoveFirst(children[p], j)
                           ELSE IF x = j THEN <<>> ELSE children[x]]
  <1>1. PICK n \in {1, Len(children[j])} :
          /\ n <= Len(children[j])
          /\ queue' = [x \in Jobs |-> IF x \in ToSet(Part(n)) THEN p ELSE queue[x]]
          /\ known' = known \cup ToSet(Part(n))
          /\ Launch(ToSet(Rest(n)), st, servers, Ch(n), phase, pending, fifo, answers)
    BY DEF Unqueue
  <1> DEFINE moved == Part(n)
             rest  == Rest(n)
             S     == ToSet(rest)
             ch    == Ch(n)
             C     == ToSet(children[j])
  <1>2. /\ status[j] = "queued"
        /\ UNCHANGED <<jobs, parent, runQueue, defQueue, conn, losses, crashed>>
    BY DEF Unqueue
  <1>3. /\ moved \in Seq(Jobs) /\ rest \in Seq(Jobs) /\ IsInjective(moved)
        /\ ToSet(moved) \subseteq C /\ S \subseteq C /\ ToSet(moved) \cap S = {} /\ C \subseteq Jobs
    <2>1. children[j] \in Seq(Jobs) /\ IsInjective(children[j]) /\ C \subseteq Jobs
      BY Types DEF QInv, ChildrenWait, ToSet
    <2>2. n \in 0..Len(children[j])
      BY <1>1, <2>1
    <2>3. QED
      BY <2>1, <2>2, CutElements
  <1>4. /\ queue' = [x \in Jobs |-> IF x \in ToSet(moved) THEN p ELSE queue[x]]
        /\ known' = known \cup ToSet(moved)
        /\ Launch(S, st, servers, ch, phase, pending, fifo, answers)
    BY <1>1
  <1>5. /\ p \in jobs => ch[p] = Reverse(moved) \o RemoveFirst(children[p], j)
        /\ ~(p \in jobs /\ p = j) => ch[j] = <<>>
        /\ \A x \in Jobs : x # j /\ ~(x = p /\ p \in jobs) => ch[x] = children[x]
        /\ ch = [x \in Jobs |-> ch[x]]
    BY Types
  <1> HIDE DEF Part, Rest, Ch, moved, rest, ch
  <1>6. \A x \in C : phase[x] = "waiting" /\ queue[x] = j /\ x \notin ToSet(runQueue)
    BY DEF QInv, ChildrenWait
  <1> HIDE DEF C, S
  <1>7. /\ queue' \in [Jobs -> Jobs \cup {NoParent}]
        /\ \A x \in ToSet(moved) : queue'[x] = p
        /\ \A x \in Jobs : x \notin ToSet(moved) => queue'[x] = queue[x]
    BY <1>3, <1>4, Types
  <1>8. Forest(queue') /\ p # j
    <2>1. PICK rank \in [Jobs -> Nat] : \A x \in Jobs : queue[x] \in Jobs => rank[queue[x]] < rank[x]
      BY DEF QInv, Forest
    <2>2. p # j
      BY <2>1
    <2>3. ASSUME NEW x \in Jobs, queue'[x] \in Jobs PROVE rank[queue'[x]] < rank[x]
      <3>1. CASE x \in ToSet(moved)
        <4>1. queue'[x] = p /\ p \in Jobs /\ queue[x] = j
          BY <1>3, <1>6, <1>7, <2>3, <3>1
        <4>2. rank[p] < rank[j] /\ rank[j] < rank[x]
          BY <2>1, <4>1
        <4>3. rank[p] \in Nat /\ rank[j] \in Nat /\ rank[x] \in Nat
          BY <2>1, <4>1
        <4>4. QED
          BY <4>1, <4>2, <4>3
      <3>2. CASE x \notin ToSet(moved)
        BY <1>7, <2>1, <2>3, <3>2
      <3>3. QED
        BY <3>1, <3>2
    <2>4. QED
      BY <2>2, <2>3 DEF Forest
  <1>9. /\ st \in [Jobs -> Status] /\ st[j] = "stopped" /\ \A x \in Jobs : x # j => st[x] = status[x]
    BY Types DEF Status
  <1> HIDE DEF st
  <1>10. \A y \in Jobs : \A x \in ToSet(children[y]) :
           x \in Jobs /\ phase[x] = "waiting" /\ queue[x] = y /\ x \notin ToSet(runQueue)
    <2>1. \A y \in Jobs : \A x \in ToSet(children[y]) : x \in Jobs
      BY Types DEF ToSet
    <2>2. QED
      BY <2>1 DEF QInv, ChildrenWait
  <1>11. \A y \in Jobs : y # j => \A x \in ToSet(children[y]) : x \notin C
    BY <1>6, <1>10
  <1>12. ASSUME p \in jobs
         PROVE  /\ ch[p] \in Seq(Jobs) /\ IsInjective(ch[p])
                /\ ToSet(ch[p]) \subseteq ToSet(moved) \cup ToSet(children[p])
    <2> DEFINE left == RemoveFirst(children[p], j)
               back == Reverse(moved)
    <2>1. p \in Jobs /\ children[p] \in Seq(Jobs) /\ IsInjective(children[p])
      BY <1>12, Types DEF QInv, ChildrenWait
    <2>2. left \in Seq(Jobs) /\ ToSet(left) \subseteq ToSet(children[p]) /\ IsInjective(left)
      BY <2>1, RemoveElements
    <2>3. back \in Seq(Jobs) /\ ToSet(back) = ToSet(moved) /\ IsInjective(back)
      BY <1>3, ReverseElements
    <2>4. ch[p] = back \o left
      BY <1>5, <1>12
    <2> HIDE DEF left, back
    <2>5. ToSet(back) \cap ToSet(left) = {}
      BY <1>3, <1>8, <1>11, <2>1, <2>2, <2>3
    <2>6. back \o left \in Seq(Jobs) /\ ToSet(back \o left) = ToSet(back) \cup ToSet(left) /\ IsInjective(back \o left)
      BY <2>2, <2>3, <2>5, ConcatElements
    <2>7. QED
      BY <2>2, <2>3, <2>4, <2>6
  <1>13. ch[j] = <<>> /\ ch[j] \in Seq(Jobs) /\ IsInjective(ch[j]) /\ ToSet(ch[j]) = {}
    <2>1. ch[j] = <<>>
      BY <1>5, <1>8
    <2>2. QED
      BY <2>1 DEF IsInjective, ToSet
  <1>14. ch \in [Jobs -> Seq(Jobs)]
    <2>1. \A x \in Jobs : ch[x] \in Seq(Jobs)
      BY <1>5, <1>12, <1>13, Types
    <2>2. QED
      BY <1>5, <2>1
  <1>15. InTurn(S, phase, runQueue)
    <2>1. \A i \in DOMAIN runQueue : runQueue[i] \notin S
      BY <1>3, <1>6 DEF ToSet
    <2>2. QED
      BY <2>1 DEF QInv, InTurn
  <1>16. ChildrenWait(S, queue', phase, runQueue, ch)
    <2> SUFFICES ASSUME NEW y \in Jobs
                 PROVE  /\ IsInjective(ch[y])
                        /\ \A x \in ToSet(ch[y]) :
                             phase[x] = "waiting" /\ queue'[x] = y /\ x \notin ToSet(runQueue) /\ x \notin S
      BY DEF ChildrenWait
    <2>1. \A x \in ToSet(moved) : phase[x] = "waiting" /\ queue'[x] = p /\ x \notin ToSet(runQueue) /\ x \notin S
      BY <1>3, <1>6, <1>7
    <2>2. y # j => \A x \in ToSet(children[y]) :
                     phase[x] = "waiting" /\ queue'[x] = y /\ x \notin ToSet(runQueue) /\ x \notin S
      BY <1>3, <1>7, <1>10, <1>11
    <2>3. CASE y = p /\ p \in jobs
      BY <1>8, <1>12, <2>1, <2>2, <2>3
    <2>4. CASE y = j
      BY <1>13, <2>4
    <2>5. CASE y # j /\ ~(y = p /\ p \in jobs)
      BY <1>5, <2>2, <2>5 DEF QInv, ChildrenWait
    <2>6. QED
      BY <2>3, <2>4, <2>5
  <1>17. Submitted(st, jobs, queue', phase)
    <2>1. \A x \in Jobs : status[x] # "none" => st[x] # "none"
      BY <1>9
    <2>2. p \in Jobs => status[p] # "none"
      BY DEF QInv, Submitted
    <2>3. \A x \in Jobs : queue'[x] = p \/ queue'[x] = queue[x]
      BY <1>7
    <2>4. QED
      BY <2>1, <2>2, <2>3 DEF QInv, Submitted
  <1>18. AfterParent(S, st, jobs, queue', phase, runQueue)
    <2> SUFFICES ASSUME NEW x \in Jobs, queue'[x] \in jobs,
                        phase[x] \in {"asked", "ran"} \/ x \in ToSet(runQueue) \/ x \in S
                 PROVE  st[queue'[x]] = "stopped"
      BY DEF AfterParent
    <2>1. x \notin ToSet(moved)
      BY <1>3, <1>6
    <2>2. queue'[x] = queue[x]
      BY <1>7, <2>1
    <2>3. CASE x \in S
      BY <1>3, <1>6, <1>9, <2>2, <2>3
    <2>4. CASE x \notin S
      <3>1. queue[x] \in Jobs /\ status[queue[x]] = "stopped"
        BY <2>2, <2>4, Types DEF QInv, AfterParent
      <3>2. QED
        BY <1>9, <2>2, <3>1
    <2>5. QED
      BY <2>3, <2>4
  <1>19. Ready(S, st, servers, ch, phase, pending, fifo, answers)
    <2>1. S \in SUBSET Jobs /\ \A x \in S : phase[x] = "waiting"
      BY <1>3, <1>6
    <2>2. Requested(phase, pending, fifo)
      BY DEF QInv
    <2>3. QED
      BY <1>2, <1>9, <1>14, <1>15, <1>16, <1>17, <1>18, <2>1, <2>2, Types DEF Ready
  <1>20. /\ jobs' \in SUBSET Jobs /\ parent' \in [Jobs -> Jobs \cup {NoParent}]
         /\ runQueue' \in Seq(Jobs) /\ defQueue' \in Seq(Jobs) /\ known' \in SUBSET Jobs
         /\ crashed' \in BOOLEAN /\ UNCHANGED <<conn, losses>>
    BY <1>2, <1>3, <1>4, Types
  <1>21. Launch(S, st, servers, ch, phase, pending, fifo, answers)
    BY <1>4
  <1>22. QInv' /\ \A x \in Jobs : phase[x] # "waiting" => phase'[x] = phase[x] /\ pending'[x] = pending[x]
    BY <1>7, <1>8, <1>19, <1>20, <1>21, LaunchInv, SMTT(60)
  <1>23. QED
    BY <1>22, AtRest

(* A job leaves the table.                                                   *)
LEMMA ForgetInv ==
    ASSUME QInv, NEW j \in Jobs, Forget(j)
    PROVE  QInv' /\ RunsOnce
  <1>1. /\ jobs' = jobs \ {j}
        /\ UNCHANGED <<status, parent, queue, servers, phase, pending, fifo, answers,
                       runQueue, defQueue, children, known, conn, losses, crashed>>
    BY DEF Forget, runVars, listVars
  <1>2. TypeOK'
    BY <1>1, Types DEF TypeOK
  <1>3. Submitted(status, jobs', queue, phase) /\ AfterParent({}, status, jobs', queue, phase, runQueue)
    BY <1>1 DEF QInv, Submitted, AfterParent
  <1>4. RunsOnce
    BY <1>1, AtRest
  <1>5. QED
    BY <1>1, <1>2, <1>3, <1>4 DEF QInv

(* The steps that leave the jobs and the lists of them alone: a client or a  *)
(* node comes, a node goes, or nothing happens.                              *)
LEMMA OtherInv ==
    ASSUME QInv,
           ClientConnects \/ (\E d \in Daemons : Lose(d) \/ Connect(d)) \/ UNCHANGED vars
    PROVE  QInv' /\ RunsOnce
  <1>1. UNCHANGED <<status, jobs, parent, queue, servers, phase, pending, fifo, runQueue, defQueue,
                    children, crashed>>
    BY DEF ClientConnects, Lose, Connect, vars, jobVars, runVars, listVars
  <1>2. answers' \in [Daemons -> Nat] /\ conn' \in [Daemons -> BOOLEAN] /\ losses' \in Nat
    <2>1. answers \in [Daemons -> Nat] /\ conn \in [Daemons -> BOOLEAN] /\ losses \in Nat
      BY Types
    <2>2. CASE UNCHANGED <<answers, conn, losses>>
      BY <2>1, <2>2
    <2>3. ASSUME NEW d \in Daemons, Lose(d) PROVE answers' \in [Daemons -> Nat] /\ losses' \in Nat
      BY <2>1, <2>3 DEF Lose
    <2>4. ASSUME NEW d \in Daemons, Lose(d) PROVE conn' \in [Daemons -> BOOLEAN]
      BY <2>1, <2>4 DEF Lose
    <2>5. ASSUME NEW d \in Daemons, Connect(d)
          PROVE  conn' \in [Daemons -> BOOLEAN] /\ UNCHANGED <<answers, losses>>
      BY <2>1, <2>5 DEF Connect, runVars
    <2>6. QED
      BY <2>1, <2>2, <2>3, <2>4, <2>5 DEF ClientConnects, vars, runVars
  <1>3. known' \in SUBSET Jobs
    BY Types DEF ClientConnects, Lose, Connect, vars, listVars
  <1>4. TypeOK'
    BY <1>1, <1>2, <1>3, Types DEF TypeOK
  <1>5. RunsOnce
    BY <1>1, AtRest
  <1>6. QED
    BY <1>1, <1>4, <1>5 DEF QInv

-----------------------------------------------------------------------------
(* The results.                                                              *)

(* The maestro starts with nothing submitted.                                *)
LEMMA InitQInv == Init => QInv
  <1> SUFFICES ASSUME Init PROVE QInv
    OBVIOUS
  <1>1. TypeOK
    <2>1. /\ status \in [Jobs -> Status] /\ phase \in [Jobs -> Phase] /\ pending \in [Jobs -> Nat]
          /\ parent \in [Jobs -> Jobs \cup {NoParent}] /\ queue \in [Jobs -> Jobs \cup {NoParent}]
          /\ servers \in [Jobs -> SUBSET Daemons]
      BY DEF Init, Status, Phase
    <2>2. /\ runQueue \in Seq(Jobs) /\ defQueue \in Seq(Jobs) /\ children \in [Jobs -> Seq(Jobs)]
          /\ fifo \in [Daemons -> Seq(Jobs)] /\ answers \in [Daemons -> Nat] /\ losses \in Nat
      BY DEF Init
    <2>3. jobs \in SUBSET Jobs /\ known \in SUBSET Jobs /\ conn \in [Daemons -> BOOLEAN] /\ crashed \in BOOLEAN
      BY DEF Init
    <2>4. QED
      BY <2>1, <2>2, <2>3 DEF TypeOK
  <1>2. InTurn({}, phase, runQueue)
    BY DEF Init, InTurn, IsInjective
  <1>3. ChildrenWait({}, queue, phase, runQueue, children)
    BY DEF Init, ChildrenWait, IsInjective, ToSet
  <1>4. Submitted(status, jobs, queue, phase) /\ Forest(queue)
    <2>1. \A x \in Jobs : queue[x] \notin Jobs /\ phase[x] = "none" /\ x \notin jobs
      BY QueueAssumption DEF Init
    <2>2. [x \in Jobs |-> 0] \in [Jobs -> Nat]
      OBVIOUS
    <2>3. QED
      BY <2>1, <2>2 DEF Submitted, Forest
  <1>5. AfterParent({}, status, jobs, queue, phase, runQueue)
    BY DEF Init, AfterParent
  <1>6. Requested(phase, pending, fifo)
    BY DEF Init, Requested, IsInjective, ToSet
  <1>7. QED
    BY <1>1, <1>2, <1>3, <1>4, <1>5, <1>6 DEF QInv

(* Every step keeps the invariant and RunsOnce.                              *)
LEMMA NextQInv ==
    ASSUME QInv, [Next]_vars
    PROVE  QInv' /\ RunsOnce
  <1>1. ASSUME NEW j \in Jobs, NEW p \in Jobs \cup {NoParent},
               RunUnsupported(j, p) \/ RunNow(j, p) \/ RunAfter(j, p)
        PROVE  QInv' /\ RunsOnce
    BY <1>1, RunUnsupportedInv, RunNowInv, RunAfterInv
  <1>2. ASSUME NEW j \in Jobs, (\E told \in BOOLEAN : Starts(j, told)) \/ Stops(j) \/ KillQueued(j) \/ Close(j)
        PROVE  QInv' /\ RunsOnce
    BY <1>2, StartsInv, StopsInv, UnqueueInv, ForgetInv DEF KillQueued, Close
  <1>3. ASSUME NEW d \in Daemons, Response(d)
        PROVE  QInv' /\ RunsOnce
    BY <1>3, ResponseInv
  <1>4. CASE ClientConnects \/ (\E d \in Daemons : Lose(d) \/ Connect(d)) \/ UNCHANGED vars
    BY <1>4, OtherInv
  <1>5. QED
    BY <1>1, <1>2, <1>3, <1>4 DEF Next, Work

(* The inductive invariant of the queues of the maestro.                     *)
THEOREM QueueInvariant == Spec => []QInv
  <1>1. QInv /\ [Next]_vars => QInv'
    BY NextQInv
  <1>2. QED
    BY <1>1, InitQInv, PTL DEF Spec

(* The run queue never rests, whatever pops an entry of it                   *)
(* (on_execution_response, gebrm_app_handle_run): HeadLaunched for every set *)
(* of jobs and nodes.                                                        *)
THEOREM QueueNeverRests == Spec => []HeadLaunched
  <1>1. QInv => HeadLaunched
    <2> SUFFICES ASSUME QInv, runQueue # <<>> PROVE phase[Head(runQueue)] # "waiting"
      BY DEF HeadLaunched
    <2>1. 1 \in DOMAIN runQueue /\ Head(runQueue) = runQueue[1]
      BY Types
    <2>2. QED
      BY <2>1 DEF QInv, InTurn
  <1>2. QED
    BY <1>1, QueueInvariant, PTL

(* No job is run before the job it waits for has stopped, also after a kill  *)
(* mended the queue (gebrm_app_handle_run, gebrm_app_job_controller_on_      *)
(* status_change and the /kill handler): OrderKept.                          *)
THEOREM ParentFirst == Spec => []OrderKept
  <1>1. QInv => OrderKept
    BY DEF QInv, AfterParent, OrderKept, Asked
  <1>2. QED
    BY <1>1, QueueInvariant, PTL

(* No runner is run a second time (gebr_comm_runner_run_async): RunOnce.     *)
THEOREM RunnersRunOnce == Spec => RunOnce
  <1>1. QInv /\ [Next]_vars => RunsOnce
    BY NextQInv
  <1>2. Spec => [][RunsOnce]_vars
    BY <1>1, QueueInvariant, PTL DEF Spec
  <1>3. QED
    BY <1>2 DEF RunOnce, RunsOnce

(* Every runner that waits has as many requests in the FIFOs of the nodes as *)
(* it counts (gebr_comm_runner_run_async, on_response_received), also after  *)
(* nodes went and came back: RequestsCounted.                                *)
THEOREM NoRequestForgotten == Spec => []RequestsCounted
  <1>1. ASSUME QInv, NEW j \in Jobs, phase[j] = "asked"
        PROVE  pending[j] = Cardinality({r \in Daemons \X (1..Cardinality(Jobs)) :
                                           r[2] \in DOMAIN fifo[r[1]] /\ fifo[r[1]][r[2]] = j})
    <2> DEFINE I == 1..Cardinality(Jobs)
               P == {r \in Daemons \X I : r[2] \in DOMAIN fifo[r[1]] /\ fifo[r[1]][r[2]] = j}
               A == Askers(j, fifo)
               f == [r \in P |-> r[1]]
    <2>1. pending[j] = Cardinality(A)
      BY <1>1 DEF QInv, Requested
    <2>2. \A d \in Daemons : fifo[d] \in Seq(Jobs) /\ IsInjective(fifo[d])
      BY <1>1, Types DEF QInv, Requested
    <2>3. ASSUME NEW d \in Daemons, NEW i \in DOMAIN fifo[d] PROVE i \in I
      <3> DEFINE n == Len(fifo[d])
      <3>1. n \in Nat /\ DOMAIN fifo[d] = 1..n /\ fifo[d] \in [1..n -> Jobs]
        BY <2>2
      <3>2. fifo[d] \in Injection(1..n, Jobs)
        BY <2>2, <3>1 DEF Injection, IsInjective
      <3>3. Cardinality(1..n) <= Cardinality(Jobs) /\ Cardinality(Jobs) \in Nat
        BY <3>2, FS_Injection, FS_CardinalityType, QueueAssumption
      <3>4. Cardinality(1..n) = n
        BY <3>1, FS_Interval
      <3> HIDE DEF n
      <3>5. QED
        BY <2>3, <3>1, <3>3, <3>4
    <2>4. IsFiniteSet(P)
      <3>1. Cardinality(Jobs) \in Nat
        BY FS_CardinalityType, QueueAssumption
      <3>2. IsFiniteSet(I)
        BY <3>1, FS_Interval
      <3> HIDE DEF I
      <3>3. IsFiniteSet(Daemons \X I)
        BY <3>2, FS_Product, QueueAssumption
      <3>4. P \subseteq Daemons \X I
        OBVIOUS
      <3>5. QED
        BY <3>3, <3>4, FS_Subset
    <2> HIDE DEF I
    <2>5. f \in Surjection(P, A)
      <3>1. ASSUME NEW r \in P PROVE r[1] \in A
        BY <3>1 DEF Askers, ToSet
      <3>2. ASSUME NEW d \in A PROVE \E r \in P : r[1] = d
        <4>1. PICK i \in DOMAIN fifo[d] : fifo[d][i] = j
          BY <3>2 DEF Askers, ToSet
        <4>2. <<d, i>> \in P
          BY <2>3, <3>2, <4>1 DEF Askers
        <4>3. QED
          BY <4>2
      <3> HIDE DEF P, A
      <3>3. QED
        BY <3>1, <3>2 DEF Surjection
    <2>6. f \in Injection(P, A)
      <3>1. ASSUME NEW r \in P, NEW t \in P, r[1] = t[1] PROVE r = t
        <4>1. r \in Daemons \X I /\ t \in Daemons \X I /\ r[2] = t[2]
          BY <2>2, <3>1 DEF IsInjective
        <4>2. QED
          BY <3>1, <4>1
      <3>2. f \in [P -> A]
        BY <2>5 DEF Surjection
      <3> HIDE DEF P, A
      <3>3. QED
        BY <3>1, <3>2 DEF Injection, IsInjective
    <2> HIDE DEF P, A, f
    <2>7. Cardinality(A) = Cardinality(P)
      BY <2>4, <2>5, <2>6, FS_Surjection
    <2>8. QED
      BY <2>1, <2>7 DEF P, I
  <1>2. QInv => RequestsCounted
    BY <1>1 DEF RequestsCounted
  <1>3. QED
    BY <1>2, QueueInvariant, PTL

(* What gebrm-app.c keeps about the jobs has its types.                      *)
THEOREM QueueTypes == Spec => []TypeOK
  <1>1. QInv => TypeOK
    BY DEF QInv
  <1>2. QED
    BY <1>1, QueueInvariant, PTL

=============================================================================
