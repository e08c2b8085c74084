---------------------------- MODULE Mirror_proofs ---------------------------
(***************************************************************************)
(* Proofs about the client's picture of the jobs, for every set of jobs and  *)
(* of nodes, any number of losses and of messages and requests on their way. *)
(***************************************************************************)
EXTENDS Mirror, JobQueue_proofs

-----------------------------------------------------------------------------
(* What is on its way, w: a message of K; no message of A before one of B;   *)
(* each one of A has one of B behind it, or in front of it; one of B and then *)
(* one of C, and each one of A has these behind it.                          *)
Has(w, K)          == \E i \in DOMAIN w : w[i] \in K
Behind(w, A, B)    == \A i, k \in DOMAIN w : w[i] \in A /\ w[k] \in B => k <= i
Followed(w, A, B)  == \A i \in DOMAIN w : w[i] \in A => \E k \in DOMAIN w : i < k /\ w[k] \in B
Preceded(w, A, B)  == \A i \in DOMAIN w : w[i] \in A => \E k \in DOMAIN w : k < i /\ w[k] \in B
Then(w, B, C)      == \E i, k \in DOMAIN w : i < k /\ w[i] \in B /\ w[k] \in C
ThenFollowed(w, A, B, C) ==
    \A i \in DOMAIN w : w[i] \in A =>
        \E k, n \in DOMAIN w : i < k /\ k < n /\ w[k] \in B /\ w[n] \in C

-----------------------------------------------------------------------------
(* The messages about a job.                                                 *)
Of(j)       == {m \in Message : m.job = j}
Told(j)     == {m \in Of(j) : m.type # "JCL"}
Closing(j)  == {m \in Of(j) : m.type = "JCL"}
Def(j)      == {m \in Of(j) : m.type = "JOB"}
Sta(j)      == {m \in Of(j) : m.type = "STA"}
Right(j)    == {m \in Told(j) : m.status = status[j]}
Wrong(j)    == Told(j) \ Right(j)
Placed(j)   == {m \in Def(j) : m.queue = queue[j]}
Stray(j)    == Def(j) \ Placed(j)
Initial(j)  == {m \in Told(j) : m.status = "initial"}
Later(j)    == Told(j) \ Initial(j)

Fresh == {"initial", "queued"}

(* No message says that a job is of no status.                               *)
Proper == {m \in Message : m.type # "JCL" => m.status # "none"}

AskedRun(j) == \E i \in DOMAIN asks : asks[i].op = "run" /\ asks[i].job = j
Due(j)      == j \in jobs /\ phase[j] \in {"waiting", "asked"} /\ status[j] # "stopped"

(* The status and the queue the client has of a job are right, or the right  *)
(* ones are the last on their way.                                           *)
StatusTold(j) ==
    /\ Followed(wire, Wrong(j), Right(j))
    /\ gui.table[j] \notin {"none", status[j]} => Has(wire, Right(j))
QueueTold(j) ==
    /\ Followed(wire, Stray(j), Placed(j))
    /\ gui.table[j] # "none" /\ gui.queueOf[j] # queue[j] => Has(wire, Placed(j))

(* What the client has of the jobs of the table.                             *)
JobShown(j) ==
    j \in jobs =>
        /\ phase[j] \in {"ran", "none"} => gui.table[j] # "none" \/ Has(wire, Def(j))
        /\ gui.table[j] # "none" => j \in gui.rows
        /\ ~Has(wire, Closing(j))
        /\ phase[j] # "dead" /\ gui.table[j] = "none" => Preceded(wire, Sta(j), Def(j))

(* A job that has not begun was never said to have; one that has is not said *)
(* to be INITIAL again.                                                      *)
NotAhead(j) ==
    /\ status[j] \in Fresh => gui.table[j] \in {"none", status[j]} /\ ~Has(wire, Wrong(j))
    /\ Has(wire, Initial(j)) => gui.table[j] \in {"none", "initial"}
    /\ Behind(wire, Later(j), Initial(j))
    /\ status[j] = "none" => gui.table[j] = "none" /\ ~Has(wire, Of(j))

QueueOffered(j) == j \in gui.queues <=> gui.table[j] \in {"queued", "running"}

FakeDue(j) == j \in gui.temp => AskedRun(j) \/ Due(j) \/ Has(wire, Told(j))

(* A job that was cleared before the client's eyes.                          *)
Cleared(j) ==
    returns = 0 /\ j \notin jobs /\ status[j] # "none" =>
        /\ gui.table[j] # "none" /\ status[j] # "queued"
        /\ j \in gui.rows => Has(wire, Closing(j))
        /\ ThenFollowed(wire, Stray(j), Placed(j), Closing(j))
        /\ gui.queueOf[j] # queue[j] => Then(wire, Placed(j), Closing(j))

(* The client kills and closes what it knows, and never closes a QUEUED job. *)
AsksKnown ==
    \A i \in DOMAIN asks : asks[i].op # "run" =>
        /\ gui.table[asks[i].job] # "none"
        /\ asks[i].op = "close" => status[asks[i].job] # "queued"

Informed ==
    /\ AsksKnown
    /\ \A j \in Jobs : /\ StatusTold(j) /\ QueueTold(j) /\ JobShown(j) /\ NotAhead(j)
                       /\ QueueOffered(j) /\ FakeDue(j) /\ Cleared(j)

(* The definitions that are held back are of jobs that were submitted.       *)
DefsSubmitted == \A i \in DOMAIN defQueue : status[defQueue[i]] # "none"

(* The children of a job of the table are QUEUED.                            *)
ChildrenQueued ==
    \A y \in jobs : \A i \in DOMAIN children[y] : status[children[y][i]] = "queued"

(* Nothing is under way to or from a client that is not there.               *)
Away ==
    ~gui.on => /\ gui = [NewClient EXCEPT !.on = FALSE]
               /\ wire = <<>> /\ asks = <<>> /\ returns > 0

MInv ==
    /\ QInv /\ MirrorTypeOK
    /\ wire \in Seq(Proper)
    /\ DefsSubmitted /\ ChildrenQueued /\ Away
    /\ gui.on /\ ~gui.dead => Informed

-----------------------------------------------------------------------------
(* Messages are added behind the others.                                     *)

LEMMA ConcatIndex ==
    ASSUME NEW M, NEW w \in Seq(M), NEW q \in Seq(M)
    PROVE  /\ w \o q \in Seq(M)
           /\ \A i \in DOMAIN w : i \in DOMAIN (w \o q) /\ (w \o q)[i] = w[i]
           /\ \A i \in DOMAIN q : Len(w) + i \in DOMAIN (w \o q) /\ (w \o q)[Len(w) + i] = q[i]
           /\ \A i \in DOMAIN (w \o q) :
                i \in DOMAIN w \/ \E k \in DOMAIN q : i = Len(w) + k
           /\ \A i \in DOMAIN w, k \in DOMAIN q : i < Len(w) + k
           /\ \A i, k \in DOMAIN q : i < k <=> Len(w) + i < Len(w) + k
           /\ DOMAIN w \subseteq Nat /\ DOMAIN q \subseteq Nat /\ Len(w) \in Nat
  <1>1. /\ w \o q \in Seq(M) /\ Len(w \o q) = Len(w) + Len(q)
        /\ Len(w) \in Nat /\ Len(q) \in Nat /\ Len(w \o q) \in Nat
    OBVIOUS
  <1>2. /\ DOMAIN w = 1..Len(w) /\ DOMAIN q = 1..Len(q) /\ DOMAIN (w \o q) = 1..Len(w \o q)
    OBVIOUS
  <1>3. \A i \in DOMAIN (w \o q) : (w \o q)[i] = IF i <= Len(w) THEN w[i] ELSE q[i - Len(w)]
    BY <1>1, <1>2
  <1>4. \A i \in DOMAIN w : i \in DOMAIN (w \o q) /\ (w \o q)[i] = w[i]
    BY <1>1, <1>2, <1>3
  <1>5. ASSUME NEW i \in DOMAIN q
        PROVE  Len(w) + i \in DOMAIN (w \o q) /\ (w \o q)[Len(w) + i] = q[i]
    <2>1. Len(w) + i \in 1..Len(w \o q) /\ ~(Len(w) + i <= Len(w)) /\ (Len(w) + i) - Len(w) = i
      BY <1>1, <1>2
    <2>2. QED
      BY <1>2, <1>3, <2>1
  <1>6. ASSUME NEW i \in DOMAIN (w \o q), i \notin DOMAIN w
        PROVE  \E k \in DOMAIN q : i = Len(w) + k
    <2>1. i - Len(w) \in 1..Len(q) /\ i = Len(w) + (i - Len(w))
      BY <1>1, <1>2, <1>6
    <2>2. QED
      BY <1>2, <2>1
  <1>7. /\ \A i \in DOMAIN w, k \in DOMAIN q : i < Len(w) + k
        /\ \A i, k \in DOMAIN q : i < k <=> Len(w) + i < Len(w) + k
        /\ DOMAIN w \subseteq Nat /\ DOMAIN q \subseteq Nat
    BY <1>1, <1>2
  <1>8. QED
    BY <1>1, <1>4, <1>5, <1>6, <1>7

(* A message is on its way if it was, or was added.                          *)
LEMMA HasConcat ==
    ASSUME NEW M, NEW w \in Seq(M), NEW q \in Seq(M), NEW K
    PROVE  Has(w \o q, K) <=> Has(w, K) \/ Has(q, K)
  <1> DEFINE n == w \o q
  <1>1. /\ \A i \in DOMAIN w : i \in DOMAIN n /\ n[i] = w[i]
        /\ \A i \in DOMAIN q : Len(w) + i \in DOMAIN n /\ n[Len(w) + i] = q[i]
        /\ \A i \in DOMAIN n : i \in DOMAIN w \/ \E k \in DOMAIN q : i = Len(w) + k
    BY ConcatIndex
  <1> HIDE DEF n
  <1>2. Has(n, K) <=> Has(w, K) \/ Has(q, K)
    BY <1>1 DEF Has
  <1>3. QED
    BY <1>2 DEF n

(* What is added is a B, or all that was there had one behind it.            *)
LEMMA FollowedConcat ==
    ASSUME NEW M, NEW w \in Seq(M), NEW q \in Seq(M), NEW A, NEW B,
           Followed(w, A, B) \/ Has(q, B), Followed(q, A, B)
    PROVE  Followed(w \o q, A, B)
  <1> DEFINE n == w \o q
  <1>1. /\ \A i \in DOMAIN w : i \in DOMAIN n /\ n[i] = w[i]
        /\ \A i \in DOMAIN q : Len(w) + i \in DOMAIN n /\ n[Len(w) + i] = q[i]
        /\ \A i \in DOMAIN n : i \in DOMAIN w \/ \E k \in DOMAIN q : i = Len(w) + k
        /\ \A i \in DOMAIN w, k \in DOMAIN q : i < Len(w) + k
        /\ \A i, k \in DOMAIN q : i < k <=> Len(w) + i < Len(w) + k
    BY ConcatIndex
  <1> HIDE DEF n
  <1>2. ASSUME NEW i \in DOMAIN w, n[i] \in A PROVE \E k \in DOMAIN n : i < k /\ n[k] \in B
    BY <1>1, <1>2 DEF Followed, Has
  <1>3. ASSUME NEW i \in DOMAIN q, n[Len(w) + i] \in A
        PROVE  \E k \in DOMAIN n : Len(w) + i < k /\ n[k] \in B
    BY <1>1, <1>3 DEF Followed
  <1>4. Followed(n, A, B)
    BY <1>1, <1>2, <1>3 DEF Followed
  <1>5. QED
    BY <1>4 DEF n

(* What is added may be an A only behind a B.                                *)
LEMMA PrecededConcat ==
    ASSUME NEW M, NEW w \in Seq(M), NEW q \in Seq(M), NEW A, NEW B,
           Preceded(w, A, B), Has(w, B) \/ Preceded(q, A, B)
    PROVE  Preceded(w \o q, A, B)
  <1> DEFINE n == w \o q
  <1>1. /\ \A i \in DOMAIN w : i \in DOMAIN n /\ n[i] = w[i]
        /\ \A i \in DOMAIN q : Len(w) + i \in DOMAIN n /\ n[Len(w) + i] = q[i]
        /\ \A i \in DOMAIN n : i \in DOMAIN w \/ \E k \in DOMAIN q : i = Len(w) + k
        /\ \A i \in DOMAIN w, k \in DOMAIN q : i < Len(w) + k
        /\ \A i, k \in DOMAIN q : i < k <=> Len(w) + i < Len(w) + k
    BY ConcatIndex
  <1> HIDE DEF n
  <1>2. ASSUME NEW i \in DOMAIN w, n[i] \in A PROVE \E k \in DOMAIN n : k < i /\ n[k] \in B
    BY <1>1, <1>2 DEF Preceded
  <1>3. ASSUME NEW i \in DOMAIN q, n[Len(w) + i] \in A
        PROVE  \E k \in DOMAIN n : k < Len(w) + i /\ n[k] \in B
    BY <1>1, <1>3 DEF Preceded, Has
  <1>4. Preceded(n, A, B)
    BY <1>1, <1>2, <1>3 DEF Preceded
  <1>5. QED
    BY <1>4 DEF n

(* Nothing of B is added behind something of A.                              *)
LEMMA BehindConcat ==
    ASSUME NEW M, NEW w \in Seq(M), NEW q \in Seq(M), NEW A, NEW B,
           Behind(w, A, B), Behind(q, A, B), ~Has(w, A) \/ ~Has(q, B)
    PROVE  Behind(w \o q, A, B)
  <1> DEFINE n == w \o q
  <1>1. /\ \A i \in DOMAIN w : i \in DOMAIN n /\ n[i] = w[i]
        /\ \A i \in DOMAIN q : Len(w) + i \in DOMAIN n /\ n[Len(w) + i] = q[i]
        /\ \A i \in DOMAIN n : i \in DOMAIN w \/ \E k \in DOMAIN q : i = Len(w) + k
        /\ \A i \in DOMAIN w, k \in DOMAIN q : i < Len(w) + k
        /\ \A i, k \in DOMAIN q : i < k <=> Len(w) + i < Len(w) + k
        /\ DOMAIN w \subseteq Nat /\ DOMAIN q \subseteq Nat /\ Len(w) \in Nat
    BY ConcatIndex
  <1> HIDE DEF n
  <1>2. ASSUME NEW i \in DOMAIN w, NEW k \in DOMAIN n, n[i] \in A, n[k] \in B PROVE k <= i
    BY <1>1, <1>2 DEF Behind, Has
  <1>3. ASSUME NEW i \in DOMAIN q, NEW k \in DOMAIN w PROVE k <= Len(w) + i
    BY <1>1
  <1>4. ASSUME NEW i \in DOMAIN q, NEW k \in DOMAIN q, q[i] \in A, q[k] \in B
        PROVE  Len(w) + k <= Len(w) + i
    <2>1. k <= i
      BY <1>4 DEF Behind
    <2>2. QED
      BY <1>1, <2>1
  <1>5. Behind(n, A, B)
    BY <1>1, <1>2, <1>3, <1>4 DEF Behind
  <1>6. QED
    BY <1>5 DEF n

(* A B and a C behind it: there, added, or one of each.                      *)
LEMMA ThenConcat ==
    ASSUME NEW M, NEW w \in Seq(M), NEW q \in Seq(M), NEW B, NEW C,
           Then(w, B, C) \/ (Has(w, B) /\ Has(q, C))
    PROVE  Then(w \o q, B, C)
  <1> DEFINE n == w \o q
  <1>1. /\ \A i \in DOMAIN w : i \in DOMAIN n /\ n[i] = w[i]
        /\ \A i \in DOMAIN q : Len(w) + i \in DOMAIN n /\ n[Len(w) + i] = q[i]
        /\ \A i \in DOMAIN w, k \in DOMAIN q : i < Len(w) + k
    BY ConcatIndex
  <1> HIDE DEF n
  <1>2. Then(n, B, C)
    BY <1>1 DEF Then, Has
  <1>3. QED
    BY <1>2 DEF n

(* No A is added; each had a B and a C behind it, or a B and then a C is.    *)
LEMMA ThenFollowedConcat ==
    ASSUME NEW M, NEW w \in Seq(M), NEW q \in Seq(M), NEW A, NEW B, NEW C, ~Has(q, A),
           ThenFollowed(w, A, B, C) \/ (Followed(w, A, B) /\ Has(q, C))
    PROVE  ThenFollowed(w \o q, A, B, C)
  <1> DEFINE n == w \o q
  <1>1. /\ \A i \in DOMAIN w : i \in DOMAIN n /\ n[i] = w[i]
        /\ \A i \in DOMAIN q : Len(w) + i \in DOMAIN n /\ n[Len(w) + i] = q[i]
        /\ \A i \in DOMAIN n : i \in DOMAIN w \/ \E k \in DOMAIN q : i = Len(w) + k
        /\ \A i \in DOMAIN w, k \in DOMAIN q : i < Len(w) + k
    BY ConcatIndex
  <1> HIDE DEF n
  <1>2. ASSUME NEW i \in DOMAIN w, w[i] \in A
        PROVE  \E k, m \in DOMAIN n : i < k /\ k < m /\ n[k] \in B /\ n[m] \in C
    <2>1. CASE ThenFollowed(w, A, B, C)
      BY <1>1, <1>2, <2>1 DEF ThenFollowed
    <2>2. CASE Followed(w, A, B) /\ Has(q, C)
      BY <1>1, <1>2, <2>2 DEF Followed, Has
    <2>3. QED
      BY <2>1, <2>2
  <1>3. ASSUME NEW i \in DOMAIN q, n[Len(w) + i] \in A PROVE FALSE
    BY <1>1, <1>3 DEF Has
  <1>4. ThenFollowed(n, A, B, C)
    BY <1>1, <1>2, <1>3 DEF ThenFollowed
  <1>5. QED
    BY <1>4 DEF n

-----------------------------------------------------------------------------
(* The first message is read.                                                *)

LEMMA TailIndex ==
    ASSUME NEW M, NEW w \in Seq(M), w # <<>>
    PROVE  /\ Tail(w) \in Seq(M) /\ Head(w) = w[1] /\ 1 \in DOMAIN w /\ Head(w) \in M
           /\ \A i \in DOMAIN Tail(w) : i + 1 \in DOMAIN w /\ w[i + 1] = Tail(w)[i] /\ 1 < i + 1
           /\ \A i \in DOMAIN w : i = 1 \/ \E k \in DOMAIN Tail(w) : i = k + 1
           /\ \A i, k \in DOMAIN Tail(w) : i < k <=> i + 1 < k + 1
           /\ DOMAIN w \subseteq Nat /\ DOMAIN Tail(w) \subseteq Nat
           /\ \A i \in DOMAIN w : ~(i < 1)
  <1>1. /\ Tail(w) \in Seq(M) /\ Len(Tail(w)) = Len(w) - 1 /\ Len(w) \in Nat /\ Len(w) >= 1
        /\ DOMAIN w = 1..Len(w) /\ DOMAIN Tail(w) = 1..Len(Tail(w)) /\ Head(w) = w[1]
    OBVIOUS
  <1>2. \A i \in DOMAIN Tail(w) : Tail(w)[i] = w[i + 1]
    OBVIOUS
  <1>3. ASSUME NEW i \in DOMAIN w, i # 1 PROVE \E k \in DOMAIN Tail(w) : i = k + 1
    <2>1. i - 1 \in 1..Len(Tail(w)) /\ i = (i - 1) + 1
      BY <1>1, <1>3
    <2>2. QED
      BY <1>1, <2>1
  <1>4. QED
    BY <1>1, <1>2, <1>3

(* What holds of the rest when the first message is read.                    *)
LEMMA TailReads ==
    ASSUME NEW M, NEW w \in Seq(M), w # <<>>, NEW A, NEW B
    PROVE  /\ Has(w, A) <=> Head(w) \in A \/ Has(Tail(w), A)
           /\ Followed(w, A, B) => /\ Followed(Tail(w), A, B)
                                   /\ Head(w) \in A => Has(Tail(w), B)
           /\ Preceded(w, A, B) => /\ Head(w) \notin A
                                   /\ Head(w) \notin B => Preceded(Tail(w), A, B)
           /\ Behind(w, A, B) => /\ Behind(Tail(w), A, B)
                                 /\ Head(w) \in A => ~Has(Tail(w), B)
           /\ Then(w, A, B) => /\ Has(Tail(w), B)
                               /\ Head(w) \notin A => Then(Tail(w), A, B)
  <1> DEFINE n == Tail(w)
  <1>1. /\ Head(w) = w[1] /\ 1 \in DOMAIN w
        /\ \A i \in DOMAIN n : i + 1 \in DOMAIN w /\ w[i + 1] = n[i] /\ 1 < i + 1
        /\ \A i \in DOMAIN w : i = 1 \/ \E k \in DOMAIN n : i = k + 1
        /\ \A i, k \in DOMAIN n : i < k <=> i + 1 < k + 1
        /\ DOMAIN w \subseteq Nat /\ DOMAIN n \subseteq Nat
        /\ \A i \in DOMAIN w : ~(i < 1)
    BY TailIndex
  <1> HIDE DEF n
  <1>2. Has(w, A) <=> Head(w) \in A \/ Has(n, A)
    BY <1>1 DEF Has
  <1>3. ASSUME Followed(w, A, B)
        PROVE  Followed(n, A, B) /\ (Head(w) \in A => Has(n, B))
    <2>1. ASSUME NEW i \in DOMAIN n, n[i] \in A PROVE \E k \in DOMAIN n : i < k /\ n[k] \in B
      <3>1. PICK m \in DOMAIN w : i + 1 < m /\ w[m] \in B
        BY <1>1, <1>3, <2>1 DEF Followed
      <3>2. m # 1
        BY <1>1, <3>1
      <3>3. QED
        BY <1>1, <3>1, <3>2
    <2>2. ASSUME Head(w) \in A PROVE Has(n, B)
      <3>1. PICK m \in DOMAIN w : 1 < m /\ w[m] \in B
        BY <1>1, <1>3, <2>2 DEF Followed
      <3>2. QED
        BY <1>1, <3>1 DEF Has
    <2>3. QED
      BY <2>1, <2>2 DEF Followed
  <1>4. ASSUME Preceded(w, A, B)
        PROVE  Head(w) \notin A /\ (Head(w) \notin B => Preceded(n, A, B))
    <2>1. Head(w) \notin A
      BY <1>1, <1>4 DEF Preceded
    <2>2. ASSUME Head(w) \notin B, NEW i \in DOMAIN n, n[i] \in A
          PROVE  \E k \in DOMAIN n : k < i /\ n[k] \in B
      <3>1. PICK m \in DOMAIN w : m < i + 1 /\ w[m] \in B
        BY <1>1, <1>4, <2>2 DEF Preceded
      <3>2. m # 1
        BY <1>1, <2>2, <3>1
      <3>3. QED
        BY <1>1, <3>1, <3>2
    <2>3. QED
      BY <2>1, <2>2 DEF Preceded
  <1>5. ASSUME Behind(w, A, B)
        PROVE  Behind(n, A, B) /\ (Head(w) \in A => ~Has(n, B))
    <2>1. ASSUME NEW i \in DOMAIN n, NEW k \in DOMAIN n, n[i] \in A, n[k] \in B PROVE k <= i
      <3>1. k + 1 <= i + 1
        BY <1>1, <1>5, <2>1 DEF Behind
      <3>2. QED
        BY <1>1, <3>1
    <2>2. ASSUME Head(w) \in A, NEW k \in DOMAIN n, n[k] \in B PROVE FALSE
      <3>1. k + 1 <= 1
        BY <1>1, <1>5, <2>2 DEF Behind
      <3>2. QED
        BY <1>1, <3>1
    <2>3. QED
      BY <2>1, <2>2 DEF Behind, Has
  <1>6. ASSUME Then(w, A, B)
        PROVE  Has(n, B) /\ (Head(w) \notin A => Then(n, A, B))
    <2>1. PICK i \in DOMAIN w, k \in DOMAIN w : i < k /\ w[i] \in A /\ w[k] \in B
      BY <1>6 DEF Then
    <2>2. PICK m \in DOMAIN n : k = m + 1
      BY <1>1, <2>1
    <2>3. n[m] \in B
      BY <1>1, <2>1, <2>2
    <2>4. ASSUME Head(w) \notin A PROVE Then(n, A, B)
      <3>1. PICK h \in DOMAIN n : i = h + 1
        BY <1>1, <2>1, <2>4
      <3>2. h < m /\ n[h] \in A
        BY <1>1, <2>1, <2>2, <3>1
      <3>3. QED
        BY <2>3, <3>2 DEF Then
    <2>5. QED
      BY <2>3, <2>4 DEF Has
  <1>7. QED
    BY <1>2, <1>3, <1>4, <1>5, <1>6 DEF n

(* The same of ThenFollowed.                                                 *)
LEMMA ThenFollowedTail ==
    ASSUME NEW M, NEW w \in Seq(M), w # <<>>, NEW A, NEW B, NEW C, ThenFollowed(w, A, B, C)
    PROVE  ThenFollowed(Tail(w), A, B, C) /\ (Head(w) \in A => Then(Tail(w), B, C))
  <1> DEFINE n == Tail(w)
  <1>1. /\ Head(w) = w[1] /\ 1 \in DOMAIN w
        /\ \A i \in DOMAIN n : i + 1 \in DOMAIN w /\ w[i + 1] = n[i] /\ 1 < i + 1
        /\ \A i \in DOMAIN w : i = 1 \/ \E k \in DOMAIN n : i = k + 1
        /\ \A i, k \in DOMAIN n : i < k <=> i + 1 < k + 1
        /\ DOMAIN w \subseteq Nat /\ DOMAIN n \subseteq Nat
        /\ \A i \in DOMAIN w : ~(i < 1)
    BY TailIndex
  <1> HIDE DEF n
  <1>2. ASSUME NEW i \in DOMAIN w, w[i] \in A
        PROVE  \E k, m \in DOMAIN n : i < k + 1 /\ k < m /\ n[k] \in B /\ n[m] \in C
    <2>1. PICK h \in DOMAIN w, o \in DOMAIN w : i < h /\ h < o /\ w[h] \in B /\ w[o] \in C
      BY <1>2 DEF ThenFollowed
    <2>2. h # 1 /\ o # 1
      BY <1>1, <2>1
    <2>3. PICK k \in DOMAIN n, m \in DOMAIN n : h = k + 1 /\ o = m + 1
      BY <1>1, <2>2
    <2>4. QED
      BY <1>1, <2>1, <2>3
  <1>3. ASSUME NEW i \in DOMAIN n, n[i] \in A
        PROVE  \E k, m \in DOMAIN n : i < k /\ k < m /\ n[k] \in B /\ n[m] \in C
    <2>1. PICK k \in DOMAIN n, m \in DOMAIN n : i + 1 < k + 1 /\ k < m /\ n[k] \in B /\ n[m] \in C
      BY <1>1, <1>2, <1>3
    <2>2. QED
      BY <1>1, <2>1
  <1>4. ASSUME Head(w) \in A PROVE Then(n, B, C)
    BY <1>1, <1>2, <1>4 DEF Then
  <1>5. QED
    BY <1>3, <1>4 DEF n, ThenFollowed

(* What holds of a list that has none of A, and of smaller sets.             *)
LEMMA NoneThere ==
    ASSUME NEW w, NEW A, NEW B, ~Has(w, A)
    PROVE  Followed(w, A, B) /\ Preceded(w, A, B) /\ Behind(w, A, B) /\ Behind(w, B, A)
  BY DEF Has, Followed, Preceded, Behind

(* What is of a set is of a larger one.                                      *)
LEMMA HasMore ==
    ASSUME NEW w, NEW A, NEW B, A \subseteq B
    PROVE  Has(w, A) => Has(w, B)
  BY DEF Has

(* The sets of messages about a job, and what they have in common.           *)
LEMMA MessageSets ==
    ASSUME NEW j
    PROVE  /\ Told(j) \subseteq Of(j) /\ Closing(j) \subseteq Of(j)
           /\ Def(j) \subseteq Told(j) /\ Sta(j) \subseteq Told(j)
           /\ Right(j) \subseteq Told(j) /\ Wrong(j) \subseteq Told(j)
           /\ Placed(j) \subseteq Def(j) /\ Stray(j) \subseteq Def(j)
           /\ Initial(j) \subseteq Told(j) /\ Later(j) \subseteq Told(j)
           /\ Told(j) = Right(j) \cup Wrong(j) /\ Def(j) = Placed(j) \cup Stray(j)
           /\ Told(j)' = Told(j) /\ Def(j)' = Def(j) /\ Sta(j)' = Sta(j) /\ Of(j)' = Of(j)
           /\ Closing(j)' = Closing(j) /\ Initial(j)' = Initial(j) /\ Later(j)' = Later(j)
           /\ Told(j) = Right(j)' \cup Wrong(j)' /\ Def(j) = Placed(j)' \cup Stray(j)'
           /\ Right(j)' \subseteq Told(j) /\ Wrong(j)' \subseteq Told(j)
           /\ Placed(j)' \subseteq Def(j) /\ Stray(j)' \subseteq Def(j)
           /\ status'[j] = status[j] => Right(j)' = Right(j) /\ Wrong(j)' = Wrong(j)
           /\ queue'[j] = queue[j] => Placed(j)' = Placed(j) /\ Stray(j)' = Stray(j)
  <1>1. /\ Told(j) \subseteq Of(j) /\ Closing(j) \subseteq Of(j)
        /\ Initial(j) \subseteq Told(j) /\ Later(j) \subseteq Told(j)
        /\ Told(j)' = Told(j) /\ Def(j)' = Def(j) /\ Sta(j)' = Sta(j) /\ Of(j)' = Of(j)
        /\ Closing(j)' = Closing(j) /\ Initial(j)' = Initial(j) /\ Later(j)' = Later(j)
    BY DEF Told, Closing, Def, Sta, Initial, Later, Of
  <1>2. Def(j) \subseteq Told(j) /\ Sta(j) \subseteq Told(j)
    BY DEF Told, Def, Sta
  <1>3. /\ Right(j) \subseteq Told(j) /\ Wrong(j) \subseteq Told(j) /\ Told(j) = Right(j) \cup Wrong(j)
        /\ Placed(j) \subseteq Def(j) /\ Stray(j) \subseteq Def(j) /\ Def(j) = Placed(j) \cup Stray(j)
    BY DEF Right, Wrong, Placed, Stray
  <1>4. /\ Right(j)' = {m \in Told(j) : m.status = status'[j]} /\ Wrong(j)' = Told(j) \ Right(j)'
        /\ Placed(j)' = {m \in Def(j) : m.queue = queue'[j]} /\ Stray(j)' = Def(j) \ Placed(j)'
    BY <1>1 DEF Right, Wrong, Placed, Stray
  <1>5. /\ status'[j] = status[j] => Right(j)' = Right(j) /\ Wrong(j)' = Wrong(j)
        /\ queue'[j] = queue[j] => Placed(j)' = Placed(j) /\ Stray(j)' = Stray(j)
    BY <1>4 DEF Right, Wrong, Placed, Stray
  <1>6. /\ Told(j) = Right(j)' \cup Wrong(j)' /\ Def(j) = Placed(j)' \cup Stray(j)'
        /\ Right(j)' \subseteq Told(j) /\ Wrong(j)' \subseteq Told(j)
        /\ Placed(j)' \subseteq Def(j) /\ Stray(j)' \subseteq Def(j)
    BY <1>4
  <1>7. QED
    BY <1>1, <1>2, <1>3, <1>5, <1>6

-----------------------------------------------------------------------------
(* A step of the maestro, and what it says of it, q.                         *)

(* It says what is so; every status and queue that changes, and every job    *)
(* that is handed out or refused, is said.                                   *)
Says(j, q) ==
    /\ ~Has(q, Wrong(j)') /\ ~Has(q, Stray(j)')
    /\ status[j] # "none" /\ status'[j] # status[j] => Has(q, Told(j))
    /\ status[j] # "none" /\ queue'[j] # queue[j] => Has(q, Def(j))
    /\ j \in jobs' /\ phase'[j] \in {"ran", "none"} =>
         (j \in jobs /\ phase[j] \in {"ran", "none"}) \/ Has(q, Def(j))
    /\ j \in jobs' => ~Has(q, Closing(j))
    /\ status'[j] = "none" => ~Has(q, Of(j))
    /\ j \in jobs' /\ phase'[j] # "dead" /\ Has(q, Sta(j)) =>
         gui.table[j] # "none" \/ Has(wire, Def(j))
    /\ Due(j) => Due(j)' \/ Has(q, Told(j)) \/ gui.table[j] # "none"

(* What the step may do to a job.                                            *)
Goes(j, q) ==
    /\ j \in jobs' \ jobs => status[j] = "none"
    /\ status'[j] \in Fresh => status[j] \in {"none", status'[j]}
    /\ status'[j] = "none" => status[j] = "none"
    /\ status[j] = "none" /\ status'[j] # "none" => j \in jobs'
    /\ phase[j] = "dead" => phase'[j] = "dead"
    /\ j \in jobs \ jobs' => /\ gui.table[j] # "none" /\ status[j] # "queued"
                             /\ status'[j] = status[j] /\ queue'[j] = queue[j]
                             /\ Has(q, Closing(j))
    /\ returns = 0 /\ j \notin jobs /\ status[j] # "none" => queue'[j] = queue[j]

(* What becomes of the requests.                                             *)
Takes(q) ==
    /\ \A i \in DOMAIN asks' : \E k \in DOMAIN asks : asks'[i] = asks[k]
    /\ \A j \in gui.temp : AskedRun(j) => AskedRun(j)' \/ Due(j)' \/ Has(q, Told(j))

Speaks(q) ==
    /\ q \in Seq(Proper) /\ wire' = wire \o q
    /\ gui' = gui /\ returns' = returns
    /\ Takes(q)
    /\ \A j \in Jobs : Says(j, q) /\ Goes(j, q)

(* The client is informed of such a step.                                    *)
LEMMA SpokenOf ==
    ASSUME MInv, gui.on, ~gui.dead, NEW q, Speaks(q), NEW j \in Jobs
    PROVE  /\ StatusTold(j)' /\ QueueTold(j)' /\ JobShown(j)' /\ NotAhead(j)'
           /\ QueueOffered(j)' /\ FakeDue(j)' /\ Cleared(j)'
  <1>1. /\ StatusTold(j) /\ QueueTold(j) /\ JobShown(j) /\ NotAhead(j)
        /\ QueueOffered(j) /\ FakeDue(j) /\ Cleared(j)
    BY DEF MInv, Informed
  <1>2. wire \in Seq(Proper) /\ q \in Seq(Proper) /\ gui' = gui /\ returns' = returns
    BY DEF MInv, Speaks
  <1>3. Says(j, q) /\ Goes(j, q)
    BY DEF Speaks
  <1> DEFINE u == wire \o q
  <1>4. wire' = u
    BY DEF Speaks
  <1>5. \A K : Has(u, K) <=> Has(wire, K) \/ Has(q, K)
    BY <1>2, HasConcat
  <1>6. \A A, B : (Followed(wire, A, B) \/ Has(q, B)) /\ ~Has(q, A) => Followed(u, A, B)
    BY <1>2, FollowedConcat, NoneThere
  <1>7. \A A, B : Preceded(wire, A, B) /\ (Has(wire, B) \/ ~Has(q, A)) => Preceded(u, A, B)
    BY <1>2, PrecededConcat, NoneThere
  <1>8. \A A, B : Behind(wire, A, B) /\ ((~Has(wire, A) /\ ~Has(q, A)) \/ ~Has(q, B)) => Behind(u, A, B)
    BY <1>2, BehindConcat, NoneThere
  <1>9. \A A, B : Then(wire, A, B) \/ (Has(wire, A) /\ Has(q, B)) => Then(u, A, B)
    BY <1>2, ThenConcat
  <1>10. \A A, B, C : ~Has(q, A) /\ (ThenFollowed(wire, A, B, C) \/ (Followed(wire, A, B) /\ Has(q, C)))
                        => ThenFollowed(u, A, B, C)
    BY <1>2, ThenFollowedConcat
  <1>11. \A w, A, B : ~Has(w, A) => Followed(w, A, B) /\ Preceded(w, A, B) /\ Behind(w, A, B) /\ Behind(w, B, A)
    BY NoneThere
  <1>12. \A w, A, B : A \subseteq B => (Has(w, A) => Has(w, B))
    BY HasMore
  <1>13. \A w, A, B, C : C = A \cup B => (Has(w, C) <=> Has(w, A) \/ Has(w, B))
    BY DEF Has
  <1> HIDE DEF u
  <1>14. status[j] = "none" => gui.table[j] = "none" /\ \A K : K \subseteq Of(j) => ~Has(wire, K)
    BY <1>1, <1>12 DEF NotAhead
  <1>15. Has(q, Told(j)) => Has(q, Right(j)')
    BY <1>3, <1>13, MessageSets DEF Says
  <1>16. Has(q, Def(j)) => Has(q, Placed(j)')
    BY <1>3, <1>13, MessageSets DEF Says
  <1>17. StatusTold(j)'
    <2>1. CASE status[j] = "none"
      <3>1. ~Has(wire, Wrong(j)') /\ gui.table[j] = "none"
        BY <1>14, <2>1, MessageSets
      <3>2. Followed(wire, Wrong(j)', Right(j)') /\ ~Has(q, Wrong(j)')
        BY <1>3, <1>11, <3>1 DEF Says
      <3>3. Followed(u, Wrong(j)', Right(j)')
        BY <1>6, <3>2
      <3>4. QED
        BY <1>2, <1>4, <3>1, <3>3 DEF StatusTold
    <2>2. CASE status[j] # "none" /\ status'[j] = status[j]
      <3>1. Right(j)' = Right(j) /\ Wrong(j)' = Wrong(j)
        BY <2>2, MessageSets
      <3>2. ~Has(q, Wrong(j)) /\ Followed(wire, Wrong(j), Right(j))
        BY <1>1, <1>3, <3>1 DEF Says, StatusTold
      <3>3. Followed(u, Wrong(j), Right(j))
        BY <1>6, <3>2
      <3>4. gui.table[j] \notin {"none", status[j]} => Has(u, Right(j))
        BY <1>1, <1>5 DEF StatusTold
      <3>5. QED
        BY <1>2, <1>4, <2>2, <3>1, <3>3, <3>4 DEF StatusTold
    <2>3. CASE status[j] # "none" /\ status'[j] # status[j]
      <3>1. Has(q, Right(j)') /\ ~Has(q, Wrong(j)')
        BY <1>3, <1>15, <2>3 DEF Says
      <3>2. Followed(u, Wrong(j)', Right(j)') /\ Has(u, Right(j)')
        BY <1>5, <1>6, <3>1
      <3>3. QED
        BY <1>4, <3>2 DEF StatusTold
    <2>4. QED
      BY <2>1, <2>2, <2>3
  <1>18. QueueTold(j)'
    <2>1. CASE status[j] = "none"
      <3>1. ~Has(wire, Stray(j)') /\ gui.table[j] = "none"
        BY <1>14, <2>1, MessageSets
      <3>2. Followed(wire, Stray(j)', Placed(j)') /\ ~Has(q, Stray(j)')
        BY <1>3, <1>11, <3>1 DEF Says
      <3>3. Followed(u, Stray(j)', Placed(j)')
        BY <1>6, <3>2
      <3>4. QED
        BY <1>2, <1>4, <3>1, <3>3 DEF QueueTold
    <2>2. CASE status[j] # "none" /\ queue'[j] = queue[j]
      <3>1. Placed(j)' = Placed(j) /\ Stray(j)' = Stray(j)
        BY <2>2, MessageSets
      <3>2. ~Has(q, Stray(j)) /\ Followed(wire, Stray(j), Placed(j))
        BY <1>1, <1>3, <3>1 DEF Says, QueueTold
      <3>3. Followed(u, Stray(j), Placed(j))
        BY <1>6, <3>2
      <3>4. gui.table[j] # "none" /\ gui.queueOf[j] # queue[j] => Has(u, Placed(j))
        BY <1>1, <1>5 DEF QueueTold
      <3>5. QED
        BY <1>2, <1>4, <2>2, <3>1, <3>3, <3>4 DEF QueueTold
    <2>3. CASE status[j] # "none" /\ queue'[j] # queue[j]
      <3>1. Has(q, Placed(j)') /\ ~Has(q, Stray(j)')
        BY <1>3, <1>16, <2>3 DEF Says
      <3>2. Followed(u, Stray(j)', Placed(j)') /\ Has(u, Placed(j)')
        BY <1>5, <1>6, <3>1
      <3>3. QED
        BY <1>4, <3>2 DEF QueueTold
    <2>4. QED
      BY <2>1, <2>2, <2>3
  <1>19. JobShown(j)'
    <2> SUFFICES ASSUME j \in jobs'
                 PROVE  /\ phase'[j] \in {"ran", "none"} => gui.table[j] # "none" \/ Has(u, Def(j))
                        /\ gui.table[j] # "none" => j \in gui.rows
                        /\ ~Has(u, Closing(j))
                        /\ phase'[j] # "dead" /\ gui.table[j] = "none" => Preceded(u, Sta(j), Def(j))
      BY <1>2, <1>4, MessageSets DEF JobShown
    <2>1. phase'[j] \in {"ran", "none"} => gui.table[j] # "none" \/ Has(u, Def(j))
      BY <1>1, <1>3, <1>5 DEF JobShown, Says
    <2>2. status[j] = "none" \/ j \in jobs
      BY <1>3 DEF Goes
    <2>3. gui.table[j] # "none" => j \in gui.rows
      BY <1>1, <1>14, <2>2 DEF JobShown
    <2>4. ~Has(wire, Closing(j))
      BY <1>1, <1>14, <2>2, MessageSets DEF JobShown
    <2>5. ~Has(u, Closing(j))
      BY <1>3, <1>5, <2>4 DEF Says
    <2>6. ASSUME phase'[j] # "dead", gui.table[j] = "none" PROVE Preceded(u, Sta(j), Def(j))
      <3>1. Preceded(wire, Sta(j), Def(j))
        <4>1. CASE status[j] = "none"
          <5>1. Sta(j) \subseteq Of(j)
            BY MessageSets
          <5>2. ~Has(wire, Sta(j))
            BY <1>14, <4>1, <5>1
          <5>3. QED
            BY <1>11, <5>2
        <4>2. CASE status[j] # "none"
          BY <1>1, <1>3, <2>2, <2>6, <4>2 DEF JobShown, Goes
        <4>3. QED
          BY <4>1, <4>2
      <3>2. Has(wire, Def(j)) \/ ~Has(q, Sta(j))
        BY <1>3, <2>6 DEF Says
      <3>3. QED
        BY <1>7, <3>1, <3>2
    <2>7. QED
      BY <2>1, <2>3, <2>5, <2>6
  <1>20. NotAhead(j)'
    <2> SUFFICES /\ status'[j] \in Fresh => gui.table[j] \in {"none", status'[j]} /\ ~Has(u, Wrong(j)')
                 /\ Has(u, Initial(j)) => gui.table[j] \in {"none", "initial"}
                 /\ Behind(u, Later(j), Initial(j))
                 /\ status'[j] = "none" => gui.table[j] = "none" /\ ~Has(u, Of(j))
      BY <1>2, <1>4, MessageSets DEF NotAhead, Fresh
    <2>1. ASSUME status'[j] \in Fresh
          PROVE  gui.table[j] \in {"none", status'[j]} /\ ~Has(u, Wrong(j)')
      <3>1. status[j] \in {"none", status'[j]}
        BY <1>3, <2>1 DEF Goes
      <3>2. gui.table[j] \in {"none", status'[j]} /\ ~Has(wire, Wrong(j)')
        <4>1. CASE status[j] = "none"
          BY <1>14, <4>1, MessageSets
        <4>2. CASE status[j] = status'[j]
          BY <1>1, <2>1, <4>2, MessageSets DEF NotAhead
        <4>3. QED
          BY <3>1, <4>1, <4>2
      <3>3. QED
        BY <1>3, <1>5, <3>2 DEF Says
    <2>2. Initial(j) \subseteq Told(j) /\ Later(j) \subseteq Told(j)
      BY MessageSets
    <2>3. Has(q, Initial(j)) => status'[j] = "initial"
      <3>1. \A m \in Initial(j) : m \in Right(j)' => status'[j] = "initial"
        BY DEF Initial, Right
      <3>2. \A m \in Initial(j) : m \in Right(j)' \/ m \in Wrong(j)'
        BY MessageSets
      <3>3. QED
        BY <1>3, <3>1, <3>2 DEF Says, Has
    <2>4. status'[j] = "initial" => Later(j) \subseteq Wrong(j)'
      BY <2>2 DEF Later, Wrong, Right, Initial, Told, Of
    <2>5. Has(q, Initial(j)) => ~Has(u, Later(j)) /\ gui.table[j] \in {"none", "initial"}
      BY <1>12, <2>1, <2>3, <2>4 DEF Fresh
    <2>6. Behind(u, Later(j), Initial(j))
      BY <1>1, <1>5, <1>8, <2>5 DEF NotAhead
    <2>7. Has(u, Initial(j)) => gui.table[j] \in {"none", "initial"}
      BY <1>1, <1>5, <2>5 DEF NotAhead
    <2>8. status'[j] = "none" => gui.table[j] = "none" /\ ~Has(u, Of(j))
      BY <1>1, <1>3, <1>5 DEF NotAhead, Says, Goes
    <2>9. QED
      BY <2>1, <2>6, <2>7, <2>8
  <1>21. QueueOffered(j)'
    BY <1>1, <1>2 DEF QueueOffered
  <1>22. FakeDue(j)'
    <2> SUFFICES ASSUME j \in gui.temp PROVE AskedRun(j)' \/ Due(j)' \/ Has(u, Told(j))
      BY <1>2, <1>4, MessageSets DEF FakeDue
    <2>1. gui.table[j] = "none"
      BY DEF MInv, MirrorTypeOK
    <2>2. AskedRun(j) \/ Due(j) \/ Has(wire, Told(j))
      BY <1>1 DEF FakeDue
    <2>3. AskedRun(j) => AskedRun(j)' \/ Due(j)' \/ Has(q, Told(j))
      BY DEF Speaks, Takes
    <2>4. Due(j) => Due(j)' \/ Has(q, Told(j))
      BY <1>3, <2>1 DEF Says
    <2>5. QED
      BY <1>5, <2>2, <2>3, <2>4
  <1>23. Cleared(j)'
    <2> SUFFICES ASSUME returns = 0, j \notin jobs', status'[j] # "none"
                 PROVE  /\ gui.table[j] # "none" /\ status'[j] # "queued"
                        /\ j \in gui.rows => Has(u, Closing(j))
                        /\ ThenFollowed(u, Stray(j)', Placed(j)', Closing(j))
                        /\ gui.queueOf[j] # queue'[j] => Then(u, Placed(j)', Closing(j))
      BY <1>2, <1>4, MessageSets DEF Cleared
    <2>1. CASE j \in jobs
      <3>1. /\ gui.table[j] # "none" /\ status'[j] # "queued" /\ Has(q, Closing(j))
            /\ queue'[j] = queue[j]
        BY <1>3, <2>1 DEF Goes
      <3>2. Placed(j)' = Placed(j) /\ Stray(j)' = Stray(j)
        BY <3>1, MessageSets
      <3>3. ~Has(q, Stray(j)) /\ Followed(wire, Stray(j), Placed(j))
        BY <1>1, <1>3, <3>2 DEF Says, QueueTold
      <3>4. ThenFollowed(u, Stray(j), Placed(j), Closing(j))
        BY <1>10, <3>1, <3>3
      <3>5. gui.queueOf[j] # queue[j] => Then(u, Placed(j), Closing(j))
        BY <1>1, <1>9, <3>1 DEF QueueTold
      <3>6. Has(u, Closing(j))
        BY <1>5, <3>1
      <3>7. QED
        BY <3>1, <3>2, <3>4, <3>5, <3>6
    <2>2. CASE j \notin jobs
      <3>1. status[j] # "none" /\ queue'[j] = queue[j]
        BY <1>3, <2>2 DEF Goes
      <3>2. /\ gui.table[j] # "none" /\ status[j] # "queued"
            /\ j \in gui.rows => Has(wire, Closing(j))
            /\ ThenFollowed(wire, Stray(j), Placed(j), Closing(j))
            /\ gui.queueOf[j] # queue[j] => Then(wire, Placed(j), Closing(j))
        BY <1>1, <2>2, <3>1 DEF Cleared
      <3>3. Placed(j)' = Placed(j) /\ Stray(j)' = Stray(j)
        BY <3>1, MessageSets
      <3>4. ThenFollowed(u, Stray(j), Placed(j), Closing(j))
        BY <1>3, <1>10, <3>2, <3>3 DEF Says
      <3>5. status'[j] # "queued"
        BY <1>3, <3>1, <3>2 DEF Goes, Fresh
      <3>6. QED
        BY <1>5, <1>9, <3>1, <3>2, <3>3, <3>4, <3>5
    <2>3. QED
      BY <2>1, <2>2
  <1>24. QED
    BY <1>17, <1>18, <1>19, <1>20, <1>21, <1>22, <1>23

(* The requests were made from what the client still has.                    *)
LEMMA SpokenInformed ==
    ASSUME MInv, gui.on, ~gui.dead, NEW q, Speaks(q)
    PROVE  Informed'
  <1>1. AsksKnown'
    <2> SUFFICES ASSUME NEW i \in DOMAIN asks', asks'[i].op # "run"
                 PROVE  /\ gui.table[asks'[i].job] # "none"
                        /\ asks'[i].op = "close" => status'[asks'[i].job] # "queued"
      BY DEF AsksKnown, Speaks
    <2>1. PICK k \in DOMAIN asks : asks'[i] = asks[k]
      BY DEF Speaks, Takes
    <2>2. asks[k].job \in Jobs
      <3>1. asks \in Seq(Request)
        BY DEF MInv, MirrorTypeOK
      <3>2. asks[k] \in Request
        BY <3>1
      <3>3. QED
        BY <3>2 DEF Request
    <2> DEFINE j == asks[k].job
    <2>3. /\ gui.table[j] # "none"
          /\ asks[k].op = "close" => status[j] # "queued"
      BY <2>1 DEF MInv, Informed, AsksKnown
    <2>4. NotAhead(j) /\ Goes(j, q)
      BY <2>2 DEF MInv, Informed, Speaks
    <2> HIDE DEF j
    <2>5. status[j] # "none" /\ (status'[j] = "queued" => status[j] = "queued")
      BY <2>3, <2>4 DEF NotAhead, Goes, Fresh
    <2>6. QED
      BY <2>1, <2>3, <2>5 DEF j
  <1>2. QED
    BY <1>1, SpokenOf DEF Informed

-----------------------------------------------------------------------------
(* What is said in a step: the definitions of the jobs of D and the statuses *)
(* of the jobs of E.                                                         *)
Spoken(q, D, E) ==
    /\ q \in Seq(Proper)
    /\ \A x \in Jobs :
         /\ ~Has(q, Wrong(x)') /\ ~Has(q, Stray(x)') /\ ~Has(q, Closing(x))
         /\ Has(q, Def(x)) <=> x \in D
         /\ Has(q, Sta(x)) <=> x \in E
         /\ Has(q, Of(x)) => x \in D \cup E

(* What the step does to a job of which that much is said.                   *)
Law(x, D, E) ==
    /\ x \in jobs' \ jobs => status[x] = "none"
    /\ x \in jobs => x \in jobs'
    /\ status'[x] \in Fresh => status[x] \in {"none", status'[x]}
    /\ status'[x] = "none" => status[x] = "none" /\ x \notin D \cup E
    /\ status[x] = "none" /\ status'[x] # "none" => x \in jobs'
    /\ phase[x] = "dead" => phase'[x] = "dead"
    /\ status[x] # "none" /\ status'[x] # status[x] => x \in D \cup E
    /\ status[x] # "none" /\ queue'[x] # queue[x] => x \in D /\ (returns = 0 => x \in jobs)
    /\ x \in jobs' /\ phase'[x] \in {"ran", "none"} =>
         (x \in jobs /\ phase[x] \in {"ran", "none"}) \/ x \in D
    /\ x \in jobs' /\ phase'[x] # "dead" /\ x \in E => gui.table[x] # "none" \/ Has(wire, Def(x))
    /\ Due(x) => Due(x)' \/ x \in D \cup E

(* Messages that keep the law say enough.                                    *)
LEMMA LawSpeaks ==
    ASSUME NEW q, NEW D, NEW E, Spoken(q, D, E), \A x \in Jobs : Law(x, D, E),
           wire' = wire \o q, gui' = gui, returns' = returns, Takes(q)
    PROVE  Speaks(q)
  <1> SUFFICES ASSUME NEW x \in Jobs PROVE Says(x, q) /\ Goes(x, q)
    BY DEF Speaks, Spoken
  <1>1. /\ ~Has(q, Wrong(x)') /\ ~Has(q, Stray(x)') /\ ~Has(q, Closing(x))
        /\ Has(q, Def(x)) <=> x \in D
        /\ Has(q, Sta(x)) <=> x \in E
        /\ Has(q, Of(x)) => x \in D \cup E
    BY DEF Spoken
  <1>2. Law(x, D, E)
    OBVIOUS
  <1>3. x \in D \cup E => Has(q, Told(x))
    <2>1. Def(x) \subseteq Told(x) /\ Sta(x) \subseteq Told(x)
      BY MessageSets
    <2>2. QED
      BY <1>1, <2>1, HasMore
  <1>4. Says(x, q)
    BY <1>1, <1>2, <1>3 DEF Says, Law
  <1>5. Goes(x, q)
    BY <1>2 DEF Goes, Law
  <1>6. QED
    BY <1>4, <1>5

(* One message.                                                              *)
LEMMA DefSaid ==
    ASSUME NEW y \in Jobs, status' \in [Jobs -> Status], queue' \in [Jobs -> Jobs \cup {NoParent}],
           status'[y] # "none"
    PROVE  /\ JobDef(y) \in Proper
           /\ \A x \in Jobs : /\ JobDef(y) \notin Wrong(x)' /\ JobDef(y) \notin Stray(x)'
                              /\ JobDef(y) \notin Closing(x) /\ JobDef(y) \notin Sta(x)
                              /\ JobDef(y) \in Def(x) <=> x = y
                              /\ JobDef(y) \in Of(x) <=> x = y
  <1> DEFINE m == JobDef(y)
  <1>1. m.type = "JOB" /\ m.job = y /\ m.status = status'[y] /\ m.queue = queue'[y]
    BY DEF JobDef
  <1>2. m \in Message
    BY DEF JobDef, Message
  <1> HIDE DEF m
  <1>3. m \in Proper
    BY <1>1, <1>2 DEF Proper
  <1>4. ASSUME NEW x \in Jobs
        PROVE  /\ m \notin Wrong(x)' /\ m \notin Stray(x)'
               /\ m \notin Closing(x) /\ m \notin Sta(x)
               /\ m \in Def(x) <=> x = y
               /\ m \in Of(x) <=> x = y
    <2>1. m \in Of(x) <=> x = y
      BY <1>1, <1>2 DEF Of
    <2>2. m \notin Closing(x) /\ m \notin Sta(x) /\ (m \in Def(x) <=> x = y) /\ (m \in Told(x) <=> x = y)
      BY <1>1, <2>1 DEF Closing, Sta, Def, Told
    <2>3. /\ Wrong(x)' = Told(x) \ {z \in Told(x) : z.status = status'[x]}
          /\ Stray(x)' = Def(x) \ {z \in Def(x) : z.queue = queue'[x]}
      BY MessageSets DEF Wrong, Right, Stray, Placed
    <2>4. QED
      BY <1>1, <2>1, <2>2, <2>3
  <1>5. QED
    BY <1>3, <1>4 DEF m

(* The message of a status is about that job, and right.                     *)
LEMMA StatusSaid ==
    ASSUME NEW y \in Jobs, status' \in [Jobs -> Status], status'[y] # "none"
    PROVE  /\ JobStatus(y) \in Proper
           /\ \A x \in Jobs : /\ JobStatus(y) \notin Wrong(x)' /\ JobStatus(y) \notin Stray(x)'
                              /\ JobStatus(y) \notin Closing(x) /\ JobStatus(y) \notin Def(x)
                              /\ JobStatus(y) \in Sta(x) <=> x = y
                              /\ JobStatus(y) \in Of(x) <=> x = y
  <1> DEFINE m == JobStatus(y)
  <1>1. m.type = "STA" /\ m.job = y /\ m.status = status'[y]
    BY DEF JobStatus
  <1>2. m \in Message
    BY DEF JobStatus, Message
  <1> HIDE DEF m
  <1>3. m \in Proper
    BY <1>1, <1>2 DEF Proper
  <1>4. ASSUME NEW x \in Jobs
        PROVE  /\ m \notin Wrong(x)' /\ m \notin Stray(x)'
               /\ m \notin Closing(x) /\ m \notin Def(x)
               /\ m \in Sta(x) <=> x = y
               /\ m \in Of(x) <=> x = y
    <2>1. m \in Of(x) <=> x = y
      BY <1>1, <1>2 DEF Of
    <2>2. m \notin Closing(x) /\ m \notin Def(x) /\ (m \in Sta(x) <=> x = y) /\ (m \in Told(x) <=> x = y)
      BY <1>1, <2>1 DEF Closing, Sta, Def, Told
    <2>3. /\ Wrong(x)' = Told(x) \ {z \in Told(x) : z.status = status'[x]}
          /\ Stray(x)' \subseteq Def(x)
      BY MessageSets DEF Wrong, Right
    <2>4. QED
      BY <1>1, <2>1, <2>2, <2>3
  <1>5. QED
    BY <1>3, <1>4 DEF m

(* The definitions of the jobs of a list, and the statuses.                  *)
LEMMA DefsSaid ==
    ASSUME NEW s \in Seq(Jobs), status' \in [Jobs -> Status],
           queue' \in [Jobs -> Jobs \cup {NoParent}], \A i \in DOMAIN s : status'[s[i]] # "none"
    PROVE  Spoken(JobDefs(s), ToSet(s), {})
  <1> DEFINE q == JobDefs(s)
  <1>1. DOMAIN q = DOMAIN s /\ \A i \in DOMAIN s : q[i] = JobDef(s[i])
    BY DEF JobDefs
  <1>2. \A i \in DOMAIN s : s[i] \in Jobs /\ s[i] \in ToSet(s)
    BY DEF ToSet
  <1>3. \A i \in DOMAIN s : q[i] \in Proper
    BY <1>1, <1>2, DefSaid
  <1>4. q \in Seq(Proper)
    <2>1. Len(s) \in Nat /\ DOMAIN s = 1..Len(s)
      OBVIOUS
    <2>2. q = [i \in 1..Len(s) |-> JobDef(s[i])]
      BY <2>1 DEF JobDefs
    <2>3. \A i \in 1..Len(s) : JobDef(s[i]) \in Proper
      BY <1>1, <1>3, <2>1
    <2> HIDE DEF q
    <2>4. q \in [1..Len(s) -> Proper]
      BY <2>2, <2>3
    <2>5. QED
      BY <2>1, <2>4
  <1>5. ASSUME NEW x \in Jobs
        PROVE  /\ ~Has(q, Wrong(x)') /\ ~Has(q, Stray(x)') /\ ~Has(q, Closing(x)) /\ ~Has(q, Sta(x))
               /\ Has(q, Def(x)) <=> x \in ToSet(s)
               /\ Has(q, Of(x)) => x \in ToSet(s)
    <2>1. x \in ToSet(s) <=> \E i \in DOMAIN s : s[i] = x
      BY DEF ToSet
    <2>2. \A i \in DOMAIN s : /\ q[i] \notin Wrong(x)' /\ q[i] \notin Stray(x)'
                              /\ q[i] \notin Closing(x) /\ q[i] \notin Sta(x)
                              /\ q[i] \in Def(x) <=> x = s[i]
                              /\ q[i] \in Of(x) <=> x = s[i]
      BY <1>1, <1>2, DefSaid
    <2> HIDE DEF q
    <2>3. QED
      BY <1>1, <2>1, <2>2 DEF Has
  <1> HIDE DEF q
  <1>6. Spoken(q, ToSet(s), {})
    BY <1>4, <1>5 DEF Spoken
  <1>7. QED
    BY <1>6 DEF q

(* So are the messages of the statuses of several jobs.                      *)
LEMMA StatusesSaid ==
    ASSUME NEW s \in Seq(Jobs), status' \in [Jobs -> Status],
           \A i \in DOMAIN s : status'[s[i]] # "none"
    PROVE  Spoken([i \in DOMAIN s |-> JobStatus(s[i])], {}, ToSet(s))
  <1> DEFINE q == [i \in DOMAIN s |-> JobStatus(s[i])]
  <1>1. DOMAIN q = DOMAIN s /\ \A i \in DOMAIN s : q[i] = JobStatus(s[i])
    OBVIOUS
  <1>2. \A i \in DOMAIN s : s[i] \in Jobs /\ s[i] \in ToSet(s)
    BY DEF ToSet
  <1>3. \A i \in DOMAIN s : q[i] \in Proper
    BY <1>1, <1>2, StatusSaid
  <1>4. q \in Seq(Proper)
    <2>1. Len(s) \in Nat /\ DOMAIN s = 1..Len(s)
      OBVIOUS
    <2>2. q = [i \in 1..Len(s) |-> JobStatus(s[i])]
      BY <2>1
    <2>3. \A i \in 1..Len(s) : JobStatus(s[i]) \in Proper
      BY <1>1, <1>3, <2>1
    <2> HIDE DEF q
    <2>4. q \in [1..Len(s) -> Proper]
      BY <2>2, <2>3
    <2>5. QED
      BY <2>1, <2>4
  <1>5. ASSUME NEW x \in Jobs
        PROVE  /\ ~Has(q, Wrong(x)') /\ ~Has(q, Stray(x)') /\ ~Has(q, Closing(x)) /\ ~Has(q, Def(x))
               /\ Has(q, Sta(x)) <=> x \in ToSet(s)
               /\ Has(q, Of(x)) => x \in ToSet(s)
    <2>1. x \in ToSet(s) <=> \E i \in DOMAIN s : s[i] = x
      BY DEF ToSet
    <2>2. \A i \in DOMAIN s : /\ q[i] \notin Wrong(x)' /\ q[i] \notin Stray(x)'
                              /\ q[i] \notin Closing(x) /\ q[i] \notin Def(x)
                              /\ q[i] \in Sta(x) <=> x = s[i]
                              /\ q[i] \in Of(x) <=> x = s[i]
      BY <1>1, <1>2, StatusSaid
    <2> HIDE DEF q
    <2>3. QED
      BY <1>1, <2>1, <2>2 DEF Has
  <1> HIDE DEF q
  <1>6. Spoken(q, {}, ToSet(s))
    BY <1>4, <1>5 DEF Spoken
  <1>7. QED
    BY <1>6 DEF q

(* What two lists of messages say, one behind the other.                     *)
LEMMA BothSaid ==
    ASSUME NEW p, NEW D, NEW E, Spoken(p, D, E), NEW q, NEW F, NEW G, Spoken(q, F, G)
    PROVE  Spoken(p \o q, D \cup F, E \cup G)
  <1>1. p \in Seq(Proper) /\ q \in Seq(Proper)
    BY DEF Spoken
  <1>2. \A K : Has(p \o q, K) <=> Has(p, K) \/ Has(q, K)
    BY <1>1, HasConcat
  <1> DEFINE u == p \o q
  <1>3. u \in Seq(Proper)
    BY <1>1
  <1> HIDE DEF u
  <1>4. Spoken(u, D \cup F, E \cup G)
    BY <1>2, <1>3 DEF Spoken, u
  <1>5. QED
    BY <1>4 DEF u

(* The jobs that a step stops.                                               *)
Ends == {x \in Jobs : status[x] # "stopped" /\ status'[x] = "stopped"}

(* The jobs that end are all told of, in some order.                         *)
LEMMA EndsSaid ==
    ASSUME gui.on, NEW q, NEW D, Spoken(q, D, {}), status' \in [Jobs -> Status], TellsEnds(q)
    PROVE  \E u : Spoken(u, D, Ends) /\ wire' = wire \o u
  <1>1. PICK order \in SetToSeqs(Ends) :
               Tells(q \o [i \in DOMAIN order |-> JobStatus(order[i])])
    BY DEF TellsEnds, Ends
  <1>2. order \in Seq(Jobs) /\ ToSet(order) = Ends
    <2>1. Ends \in SUBSET Jobs
      BY DEF Ends
    <2> HIDE DEF Ends
    <2>2. QED
      BY <1>1, <2>1, OrderElements
  <1>3. \A i \in DOMAIN order : status'[order[i]] # "none"
    <2>1. \A i \in DOMAIN order : order[i] \in Ends
      BY <1>2 DEF ToSet
    <2>2. QED
      BY <2>1 DEF Ends
  <1> DEFINE e == [i \in DOMAIN order |-> JobStatus(order[i])]
             none == {}
  <1>4. Spoken(e, {}, ToSet(order))
    BY <1>2, <1>3, StatusesSaid
  <1> HIDE DEF e, Ends
  <1>5. Spoken(e, none, Ends) /\ Spoken(q, D, none)
    BY <1>2, <1>4
  <1> HIDE DEF none
  <1>6. Spoken(q \o e, D \cup none, none \cup Ends)
    BY <1>5, BothSaid
  <1>7. D \cup none = D /\ none \cup Ends = Ends
    BY DEF none
  <1>8. wire' = wire \o (q \o e)
    BY <1>1 DEF Tells, e
  <1>9. QED
    BY <1>6, <1>7, <1>8

-----------------------------------------------------------------------------
(* What a step of the maestro leaves to be shown, when it says q.            *)
LEMMA MaestroStep ==
    ASSUME MInv, QInv', DefsSubmitted', ChildrenQueued', gui' = gui, returns' = returns,
           asks' = asks \/ (asks # <<>> /\ asks' = Tail(asks)),
           ~gui.on => wire' = wire,
           gui.on => \E q \in Seq(Proper) : wire' = wire \o q /\ (~gui.dead => Speaks(q))
    PROVE  MInv'
  <1>1. gui \in Client /\ wire \in Seq(Proper) /\ asks \in Seq(Request)
    BY DEF MInv, MirrorTypeOK
  <1>2. wire' \in Seq(Proper)
    <2>1. CASE ~gui.on
      BY <1>1, <2>1
    <2>2. CASE gui.on
      <3>1. PICK q \in Seq(Proper) : wire' = wire \o q
        BY <2>2
      <3>2. \A w, v \in Seq(Proper) : w \o v \in Seq(Proper)
        OBVIOUS
      <3>3. QED
        BY <1>1, <3>1, <3>2
    <2>3. QED
      BY <2>1, <2>2
  <1>3. wire' \in Seq(Message)
    <2>1. Proper \subseteq Message
      BY DEF Proper
    <2>2. \A w \in Seq(Proper) : w \in Seq(Message)
      BY <2>1
    <2>3. QED
      BY <1>2, <2>2
  <1>4. asks' \in Seq(Request)
    BY <1>1
  <1>5. MirrorTypeOK'
    BY <1>3, <1>4 DEF MInv, MirrorTypeOK
  <1>6. Away'
    <2> SUFFICES ASSUME ~gui.on
                 PROVE  /\ gui = [NewClient EXCEPT !.on = FALSE]
                        /\ wire = <<>> /\ asks' = <<>> /\ returns > 0
      BY DEF Away, NewClient
    <2>1. QED
      BY DEF MInv, Away
  <1>7. ASSUME gui.on, ~gui.dead PROVE Informed'
    BY <1>7, SpokenInformed
  <1>8. QED
    BY <1>2, <1>5, <1>6, <1>7 DEF MInv

(* A request is read, or none.                                               *)
LEMMA AsksLeft ==
    ASSUME MInv, asks' = asks \/ (asks # <<>> /\ asks' = Tail(asks))
    PROVE  /\ \A i \in DOMAIN asks' : \E k \in DOMAIN asks : asks'[i] = asks[k]
           /\ \A x : AskedRun(x) => AskedRun(x)' \/ ( /\ asks # <<>> /\ asks' = Tail(asks)
                                                      /\ Head(asks).op = "run" /\ Head(asks).job = x )
  <1>1. CASE asks' = asks
    BY <1>1 DEF AskedRun
  <1>2. CASE asks # <<>> /\ asks' = Tail(asks)
    <2>1. asks \in Seq(Request)
      BY DEF MInv, MirrorTypeOK
    <2>2. /\ Head(asks) = asks[1]
          /\ \A i \in DOMAIN Tail(asks) : i + 1 \in DOMAIN asks /\ asks[i + 1] = Tail(asks)[i]
          /\ \A i \in DOMAIN asks : i = 1 \/ \E k \in DOMAIN Tail(asks) : i = k + 1
      BY <1>2, <2>1, TailIndex
    <2>3. \A i \in DOMAIN asks : asks[i] = Head(asks) \/ \E k \in DOMAIN asks' : asks'[k] = asks[i]
      BY <1>2, <2>2
    <2>4. QED
      BY <1>2, <2>2, <2>3 DEF AskedRun
  <1>3. QED
    BY <1>1, <1>2

(* Reading a request leaves fewer of them.                                   *)
LEMMA AsksShorter ==
    ASSUME MInv, asks # <<>>
    PROVE  Tail(asks) # asks
  <1>1. asks \in Seq(Request)
    BY DEF MInv, MirrorTypeOK
  <1> DEFINE t == Tail(asks)
             n == Len(asks)
  <1>2. Len(t) = n - 1 /\ n \in Nat
    BY <1>1
  <1> HIDE DEF t
  <1>3. t = asks => Len(t) = n
    OBVIOUS
  <1> HIDE DEF n
  <1>4. t # asks
    BY <1>2, <1>3
  <1>5. QED
    BY <1>4 DEF t

(* What a launch does to a job, whatever was prepared.                       *)
LEMMA LaunchEffect ==
    ASSUME NEW S \in SUBSET Jobs, NEW st, NEW svs, NEW ch \in [Jobs -> Seq(Jobs)],
           NEW ph, NEW pe, NEW ff, NEW an, Launch(S, st, svs, ch, ph, pe, ff, an)
    PROVE  \A x \in Jobs :
             /\ \/ status'[x] = st[x] /\ phase'[x] = ph[x]
                \/ status'[x] = st[x] /\ phase'[x] = "asked"
                \/ status'[x] = "stopped" /\ phase'[x] = "dead"
             /\ (status'[x] = st[x] /\ phase'[x] = ph[x])
                  \/ x \in S \/ \E y \in Jobs : x \in ToSet(ch[y])
             /\ children'[x] = ch[x] \/ children'[x] = <<>>
  <1> DEFINE all == Cascade(S, svs, ch)
  <1>1. /\ all \subseteq Jobs
        /\ \A x \in all : x \in S \/ \E y \in all : ~CanRun(y, svs) /\ x \in ToSet(ch[y])
    BY CascadeLeast
  <1>2. /\ status' = [x \in Jobs |-> IF x \in all /\ ~CanRun(x, svs) THEN "stopped" ELSE st[x]]
        /\ phase' = [x \in Jobs |-> IF x \in all /\ ~CanRun(x, svs) THEN "dead"
                                    ELSE IF x \in all THEN "asked" ELSE ph[x]]
        /\ children' = [x \in Jobs |-> IF x \in all /\ ~CanRun(x, svs) THEN <<>> ELSE ch[x]]
    BY DEF Launch
  <1> HIDE DEF all
  <1>3. QED
    BY <1>1, <1>2

(* The definitions that are held back are of jobs that were submitted, also  *)
(* when one has left or all of them.                                         *)
LEMMA DefsKept ==
    ASSUME QInv, DefsSubmitted, \A x \in Jobs : status'[x] = "none" => status[x] = "none",
           defQueue' = defQueue \/ defQueue' = Popped(defQueue) \/ defQueue' = <<>>
    PROVE  DefsSubmitted'
  <1>1. defQueue \in Seq(Jobs)
    BY Types
  <1>2. CASE defQueue' = defQueue
    BY <1>1, <1>2 DEF DefsSubmitted
  <1>3. CASE defQueue' = <<>>
    BY <1>3 DEF DefsSubmitted
  <1>4. CASE defQueue' = Popped(defQueue) /\ defQueue # <<>>
    <2>1. defQueue' = Tail(defQueue)
      BY <1>4 DEF Popped
    <2>2. \A i \in DOMAIN defQueue' : i + 1 \in DOMAIN defQueue /\ defQueue'[i] = defQueue[i + 1]
      BY <1>1, <1>4, <2>1, TailIndex
    <2>3. \A i \in DOMAIN defQueue : defQueue[i] \in Jobs /\ status[defQueue[i]] # "none"
      BY <1>1 DEF DefsSubmitted
    <2>4. \A i \in DOMAIN defQueue' : defQueue'[i] \in Jobs /\ status[defQueue'[i]] # "none"
      BY <2>2, <2>3
    <2>5. \A i \in DOMAIN defQueue' : status'[defQueue'[i]] # "none"
      BY <2>4
    <2>6. QED
      BY <2>5 DEF DefsSubmitted
  <1>5. QED
    BY <1>2, <1>3, <1>4 DEF Popped

(* A child that waits after the step is looked at.                           *)
LEMMA ChildrenKept ==
    ASSUME QInv',
           \A y \in jobs' : \A x \in Jobs :
             x \in ToSet(children'[y]) /\ phase'[x] = "waiting" => status'[x] = "queued"
    PROVE  ChildrenQueued'
  <1>1. /\ jobs' \in SUBSET Jobs /\ children' \in [Jobs -> Seq(Jobs)]
        /\ \A y \in Jobs : \A x \in ToSet(children'[y]) : phase'[x] = "waiting"
    BY DEF QInv, TypeOK, ChildrenWait
  <1>2. \A y \in Jobs : \A i \in DOMAIN children'[y] :
          children'[y][i] \in Jobs /\ children'[y][i] \in ToSet(children'[y])
    BY <1>1 DEF ToSet
  <1>3. QED
    BY <1>1, <1>2 DEF ChildrenQueued

(* A job that was not submitted has no children.                             *)
LEMMA NoChildren ==
    ASSUME QInv, NEW j \in Jobs, status[j] = "none"
    PROVE  \A x : x \notin ToSet(children[j])
  <1>1. children \in [Jobs -> Seq(Jobs)]
    BY Types
  <1>2. \A x \in ToSet(children[j]) : x \in Jobs /\ queue[x] = j
    BY <1>1 DEF QInv, ChildrenWait, ToSet
  <1>3. QED
    BY <1>2, NotSubmitted

(* A step that says D and E.                                                 *)
LEMMA LawStep ==
    ASSUME MInv, QInv', DefsSubmitted', ChildrenQueued', gui' = gui, returns' = returns,
           asks' = asks \/ (asks # <<>> /\ asks' = Tail(asks)),
           NEW D, NEW E,
           ~gui.on => wire' = wire,
           gui.on => \E q : Spoken(q, D, E) /\ wire' = wire \o q,
           gui.on /\ ~gui.dead => \A x \in Jobs : Law(x, D, E),
           \A x \in gui.temp :
             asks # <<>> /\ asks' = Tail(asks) /\ Head(asks).op = "run" /\ Head(asks).job = x
                => Due(x)' \/ x \in D \cup E
    PROVE  MInv'
  <1>1. ASSUME gui.on PROVE \E q \in Seq(Proper) : wire' = wire \o q /\ (~gui.dead => Speaks(q))
    <2>1. PICK q : Spoken(q, D, E) /\ wire' = wire \o q
      BY <1>1
    <2>2. q \in Seq(Proper)
      BY <2>1 DEF Spoken
    <2>3. ASSUME ~gui.dead PROVE Speaks(q)
      <3>1. gui.temp \subseteq Jobs
        BY DEF MInv, MirrorTypeOK, Client
      <3>2. \A x \in Jobs : x \in D \cup E => Has(q, Told(x))
        <4>1. \A x : Def(x) \subseteq Told(x) /\ Sta(x) \subseteq Told(x)
          BY MessageSets
        <4>2. \A x \in Jobs : x \in D \cup E => Has(q, Def(x)) \/ Has(q, Sta(x))
          BY <2>1 DEF Spoken
        <4>3. QED
          BY <4>1, <4>2, HasMore
      <3>3. Takes(q)
        BY <3>1, <3>2, AsksLeft DEF Takes
      <3>4. \A x \in Jobs : Law(x, D, E)
        BY <1>1, <2>3
      <3>5. QED
        BY <2>1, <3>3, <3>4, LawSpeaks
    <2>4. QED
      BY <2>1, <2>2, <2>3
  <1>2. QED
    BY <1>1, MaestroStep

(* The definitions are said, with the statuses of what the step stops.       *)
LEMMA TellsSaid ==
    ASSUME NEW s \in Seq(Jobs), status' \in [Jobs -> Status],
           queue' \in [Jobs -> Jobs \cup {NoParent}], \A i \in DOMAIN s : status'[s[i]] # "none"
    PROVE  /\ TellsEnds(JobDefs(s)) =>
                /\ ~gui.on => wire' = wire
                /\ gui.on => \E q : Spoken(q, ToSet(s), Ends) /\ wire' = wire \o q
           /\ Tells(JobDefs(s)) =>
                /\ ~gui.on => wire' = wire
                /\ gui.on => \E q : Spoken(q, ToSet(s), {}) /\ wire' = wire \o q
  <1> DEFINE D == ToSet(s)
             q0 == JobDefs(s)
  <1>1. Spoken(q0, D, {})
    BY DefsSaid
  <1> HIDE DEF D, q0
  <1>2. ASSUME gui.on, TellsEnds(q0) PROVE \E q : Spoken(q, D, Ends) /\ wire' = wire \o q
    BY <1>1, <1>2, EndsSaid
  <1>3. ASSUME ~gui.on, TellsEnds(q0) PROVE wire' = wire
    BY <1>3 DEF TellsEnds, Tells
  <1>4. ASSUME Tells(q0)
        PROVE  /\ ~gui.on => wire' = wire
               /\ gui.on => \E q : Spoken(q, D, {}) /\ wire' = wire \o q
    BY <1>1, <1>4 DEF Tells
  <1>5. QED
    BY <1>2, <1>3, <1>4 DEF D, q0

(* A list of one definition.                                                 *)
LEMMA OneDef ==
    ASSUME NEW j \in Jobs
    PROVE  /\ <<j>> \in Seq(Jobs) /\ ToSet(<<j>>) = {j} /\ JobDefs(<<j>>) = <<JobDef(j)>>
           /\ \A i \in DOMAIN <<j>> : <<j>>[i] = j
  BY DEF ToSet, JobDefs

(* A list of none.                                                           *)
LEMMA NoDef == <<>> \in Seq(Jobs) /\ ToSet(<<>>) = {} /\ JobDefs(<<>>) = <<>> /\ DOMAIN <<>> = {}
  BY DEF ToSet, JobDefs

-----------------------------------------------------------------------------
(* gebrm_app_handle_run.                                                     *)

(* The flow is not supported: the job is stopped at once, and said to be.    *)
LEMMA UnsupportedStep ==
    ASSUME MInv, NEW j \in Jobs, NEW p \in Jobs \cup {NoParent},
           asks # <<>>, Head(asks) = [op |-> "run", job |-> j, after |-> p], asks' = Tail(asks),
           RunUnsupported(j, p), Tells(<<JobDef(j)>>), gui' = gui, returns' = returns
    PROVE  MInv'
  <1>1. QInv /\ DefsSubmitted /\ ChildrenQueued
    BY DEF MInv
  <1>2. QInv' /\ RunsOnce
    BY <1>1, RunUnsupportedInv
  <1>3. /\ status \in [Jobs -> Status] /\ status' \in [Jobs -> Status] /\ jobs \in SUBSET Jobs
        /\ queue' \in [Jobs -> Jobs \cup {NoParent}] /\ queue \in [Jobs -> Jobs \cup {NoParent}]
    BY <1>1, <1>2, Types DEF QInv, TypeOK
  <1>4. /\ status[j] = "none" /\ jobs' = jobs \cup {j} /\ status'[j] = "stopped"
        /\ \A x \in Jobs : x # j => status'[x] = status[x] /\ queue'[x] = queue[x]
        /\ phase' = phase /\ children' = children /\ defQueue' = defQueue
    BY <1>3 DEF RunUnsupported, Enter, runVars
  <1>5. phase[j] = "none" /\ j \notin jobs
    BY <1>1, <1>4, NotSubmitted
  <1>6. DefsSubmitted'
    BY <1>1, <1>4, DefsKept
  <1>7. ChildrenQueued'
    <2>1. ASSUME NEW y \in jobs', NEW x \in Jobs, x \in ToSet(children'[y]) PROVE status'[x] = "queued"
      <3>1. y # j /\ y \in jobs
        BY <1>1, <1>4, <2>1, NoChildren
      <3>2. status[x] = "queued"
        BY <1>1, <1>4, <2>1, <3>1 DEF ChildrenQueued, ToSet
      <3>3. QED
        BY <1>4, <3>2
    <2>2. QED
      BY <1>2, <2>1, ChildrenKept
  <1> DEFINE D == {j}
             E == {}
  <1>8. /\ ~gui.on => wire' = wire
        /\ gui.on => \E q : Spoken(q, D, E) /\ wire' = wire \o q
    <2>1. /\ <<j>> \in Seq(Jobs) /\ ToSet(<<j>>) = {j} /\ JobDefs(<<j>>) = <<JobDef(j)>>
          /\ \A i \in DOMAIN <<j>> : <<j>>[i] = j
      BY OneDef
    <2> DEFINE s == <<j>>
    <2> HIDE DEF s
    <2>2. s \in Seq(Jobs) /\ ToSet(s) = {j} /\ JobDefs(s) = <<JobDef(j)>> /\ \A i \in DOMAIN s : s[i] = j
      BY <2>1 DEF s
    <2>3. QED
      BY <1>3, <1>4, <2>2, TellsSaid
  <1>9. ASSUME NEW x \in Jobs PROVE Law(x, D, E)
    <2>1. CASE x = j
      BY <1>4, <1>5, <2>1 DEF Law, Fresh, Due
    <2>2. CASE x # j
      BY <1>1, <1>4, <2>2 DEF Law, Due
    <2>3. QED
      BY <2>1, <2>2
  <1>10. QED
    <2> HIDE DEF E
    <2>1. \A x \in gui.temp : Head(asks).op = "run" /\ Head(asks).job = x => x \in D
      OBVIOUS
    <2> HIDE DEF D
    <2>2. QED
      BY <1>2, <1>6, <1>7, <1>8, <1>9, <2>1, LawStep

(* The job joins the run queue, and may be run.                              *)
LEMMA RunNowStep ==
    ASSUME MInv, NEW j \in Jobs, NEW p \in Jobs \cup {NoParent},
           asks # <<>>, Head(asks) = [op |-> "run", job |-> j, after |-> p], asks' = Tail(asks),
           RunNow(j, p), TellsEnds(<<>>), gui' = gui, returns' = returns
    PROVE  MInv'
  <1>1. QInv /\ DefsSubmitted /\ ChildrenQueued
    BY DEF MInv
  <1>2. QInv' /\ RunsOnce
    BY <1>1, RunNowInv
  <1>3. /\ status \in [Jobs -> Status] /\ status' \in [Jobs -> Status] /\ jobs \in SUBSET Jobs
        /\ queue' \in [Jobs -> Jobs \cup {NoParent}] /\ queue \in [Jobs -> Jobs \cup {NoParent}]
        /\ children \in [Jobs -> Seq(Jobs)] /\ phase \in [Jobs -> Phase] /\ defQueue \in Seq(Jobs)
    BY <1>1, <1>2, Types DEF QInv, TypeOK
  <1>4. /\ status[j] = "none" /\ jobs' = jobs \cup {j} /\ defQueue' = <<j>> \o defQueue
        /\ \A x \in Jobs : x # j => queue'[x] = queue[x]
    BY <1>3 DEF RunNow, Enter
  <1>5. phase[j] = "none" /\ j \notin jobs /\ \A y \in Jobs : j \notin ToSet(children[y])
    BY <1>1, <1>4, NotSubmitted
  <1>6. \A x \in Jobs : status[x] = "none" => \A y \in Jobs : x \notin ToSet(children[y])
    BY <1>1, NotSubmitted
  <1> DEFINE S  == IF runQueue = <<>> THEN {j} ELSE {}
             st == Entered(j, p)
             ph == [phase EXCEPT ![j] = "waiting"]
  <1>7. PICK svs : Launch(S, st, svs, children, ph, pending, fifo, answers)
    BY DEF RunNow
  <1>8. /\ st[j] \in {"initial", "queued"} /\ \A x \in Jobs : x # j => st[x] = status[x]
        /\ ph[j] = "waiting" /\ \A x \in Jobs : x # j => ph[x] = phase[x]
    BY <1>3 DEF Entered
  <1>9. S \in SUBSET Jobs /\ \A x \in S : x = j
    OBVIOUS
  <1> HIDE DEF S, st, ph
  <1>10. \A x \in Jobs :
           /\ \/ status'[x] = st[x] /\ phase'[x] = ph[x]
              \/ status'[x] = st[x] /\ phase'[x] = "asked"
              \/ status'[x] = "stopped" /\ phase'[x] = "dead"
           /\ (status'[x] = st[x] /\ phase'[x] = ph[x])
                \/ x \in S \/ \E y \in Jobs : x \in ToSet(children[y])
           /\ children'[x] = children[x] \/ children'[x] = <<>>
    BY <1>3, <1>7, <1>9, LaunchEffect
  <1>11. \A x \in Jobs : status[x] = "none" /\ x # j => status'[x] = "none"
    BY <1>6, <1>8, <1>9, <1>10
  <1>12. /\ status'[j] \in {"initial", "queued", "stopped"}
         /\ phase'[j] \in {"waiting", "asked", "dead"}
         /\ phase'[j] = "dead" <=> status'[j] = "stopped"
    BY <1>8, <1>10
  <1>13. \A x \in Jobs : x # j =>
           \/ status'[x] = status[x] /\ phase'[x] = phase[x]
           \/ status'[x] = status[x] /\ phase'[x] = "asked"
           \/ status'[x] = "stopped" /\ phase'[x] = "dead" /\ status[x] # "none"
    BY <1>8, <1>10, <1>11
  <1>14. DefsSubmitted'
    <2>1. \A i \in DOMAIN defQueue : defQueue[i] \in Jobs /\ status[defQueue[i]] # "none"
      BY <1>1, <1>3 DEF DefsSubmitted
    <2>2. \A i \in DOMAIN defQueue : status'[defQueue[i]] # "none"
      BY <1>4, <1>12, <1>13, <2>1
    <2>3. \A i \in DOMAIN defQueue' : defQueue'[i] = j \/ \E k \in DOMAIN defQueue : defQueue'[i] = defQueue[k]
      <3>1. <<j>> \in Seq(Jobs) /\ \A i \in DOMAIN <<j>> : <<j>>[i] = j
        OBVIOUS
      <3> DEFINE w == <<j>>
      <3> HIDE DEF w
      <3>2. w \in Seq(Jobs) /\ \A i \in DOMAIN w : w[i] = j
        BY <3>1 DEF w
      <3> DEFINE n == w \o defQueue
      <3>3. /\ \A i \in DOMAIN w : i \in DOMAIN n /\ n[i] = w[i]
            /\ \A i \in DOMAIN defQueue : Len(w) + i \in DOMAIN n /\ n[Len(w) + i] = defQueue[i]
            /\ \A i \in DOMAIN n : i \in DOMAIN w \/ \E k \in DOMAIN defQueue : i = Len(w) + k
        <4>1. w \in Seq(Jobs) /\ defQueue \in Seq(Jobs)
          BY <1>3, <3>2
        <4>2. QED
          BY <4>1, ConcatIndex
      <3>4. defQueue' = n
        BY <1>4 DEF w
      <3> HIDE DEF n
      <3>5. QED
        BY <3>2, <3>3, <3>4
    <2>4. QED
      BY <1>12, <2>2, <2>3 DEF DefsSubmitted
  <1>15. ChildrenQueued'
    <2>1. ASSUME NEW y \in jobs', NEW x \in Jobs, x \in ToSet(children'[y]), phase'[x] = "waiting"
          PROVE  status'[x] = "queued"
      <3>1. y \in Jobs
        BY <1>3, <1>4
      <3>2. children'[y] # <<>>
        BY <2>1 DEF ToSet
      <3>3. x \in ToSet(children[y])
        BY <1>10, <2>1, <3>1, <3>2
      <3>4. y # j /\ y \in jobs
        BY <1>1, <1>4, <2>1, <3>3, NoChildren
      <3>5. status[x] = "queued"
        BY <1>1, <3>3, <3>4 DEF ChildrenQueued, ToSet
      <3>6. QED
        BY <1>4, <1>13, <2>1, <3>5
    <2>2. QED
      BY <1>2, <2>1, ChildrenKept
  <1>16. /\ ~gui.on => wire' = wire
         /\ gui.on => \E q : Spoken(q, {}, Ends) /\ wire' = wire \o q
    <2> DEFINE s == <<>>
    <2>1. s \in Seq(Jobs) /\ ToSet(s) = {} /\ JobDefs(s) = <<>> /\ DOMAIN s = {}
      BY NoDef
    <2> HIDE DEF s
    <2>2. TellsEnds(JobDefs(s)) /\ \A i \in DOMAIN s : status'[s[i]] # "none"
      BY <2>1
    <2>3. /\ ~gui.on => wire' = wire
          /\ gui.on => \E q : Spoken(q, ToSet(s), Ends) /\ wire' = wire \o q
      BY <1>3, <2>1, <2>2, TellsSaid
    <2>4. QED
      BY <2>1, <2>3
  <1> DEFINE D == {}
             E == Ends
  <1>17. \A x \in Jobs : (x \in E <=> status[x] # "stopped" /\ status'[x] = "stopped") /\ x \notin D
    BY DEF Ends
  <1> HIDE DEF D, E
  <1>18. ASSUME NEW x \in Jobs PROVE Law(x, D, E)
    <2>1. CASE x = j
      BY <1>4, <1>5, <1>12, <1>17, <2>1 DEF Law, Fresh, Due
    <2>2. CASE x # j
      <3>1. phase[x] = "dead" => phase'[x] = "dead"
        BY <1>2 DEF RunsOnce
      <3>2. /\ x \in jobs' <=> x \in jobs
            /\ queue'[x] = queue[x]
        BY <1>4, <2>2
      <3>3. status[x] # "none" \/ x \notin jobs
        BY <1>1, NotSubmitted
      <3>4. status'[x] = "none" => status[x] = "none" /\ x \notin D \cup E
        BY <1>13, <1>17, <2>2
      <3>5. Due(x) => Due(x)' \/ x \in E
        BY <1>13, <1>17, <2>2, <3>2 DEF Due
      <3>6. x \in jobs' /\ phase'[x] \in {"ran", "none"} => x \in jobs /\ phase[x] \in {"ran", "none"}
        BY <1>13, <2>2, <3>2
      <3>7. phase'[x] # "dead" => x \notin E
        BY <1>13, <1>17, <2>2
      <3>8. status'[x] \in Fresh => status[x] \in {"none", status'[x]}
        BY <1>13, <2>2 DEF Fresh
      <3>9. status[x] = "none" => status'[x] = "none"
        BY <1>11, <2>2
      <3>10. status'[x] # status[x] => x \in E
        BY <1>13, <1>17, <2>2
      <3>11. QED
        BY <3>1, <3>2, <3>3, <3>4, <3>5, <3>6, <3>7, <3>8, <3>9, <3>10 DEF Law
    <2>3. QED
      BY <2>1, <2>2
  <1>19. Due(j)' \/ j \in E
    BY <1>4, <1>12, <1>17 DEF Due
  <1>20. /\ ~gui.on => wire' = wire
         /\ gui.on => \E q : Spoken(q, D, E) /\ wire' = wire \o q
    BY <1>16 DEF D, E
  <1>21. \A x \in gui.temp : Head(asks).op = "run" /\ Head(asks).job = x => Due(x)' \/ x \in E
    BY <1>19
  <1>22. QED
    BY <1>2, <1>14, <1>15, <1>18, <1>20, <1>21, LawStep

(* The job waits among the children of its parent.                           *)
LEMMA RunAfterStep ==
    ASSUME MInv, NEW j \in Jobs, NEW p \in Jobs \cup {NoParent},
           asks # <<>>, Head(asks) = [op |-> "run", job |-> j, after |-> p], asks' = Tail(asks),
           RunAfter(j, p), Tells(IF defQueue = <<>> THEN <<JobDef(j)>> ELSE <<>>),
           gui' = gui, returns' = returns
    PROVE  MInv'
  <1>1. QInv /\ DefsSubmitted /\ ChildrenQueued
    BY DEF MInv
  <1>2. QInv' /\ RunsOnce
    BY <1>1, RunAfterInv
  <1>3. /\ status \in [Jobs -> Status] /\ status' \in [Jobs -> Status] /\ jobs \in SUBSET Jobs
        /\ queue' \in [Jobs -> Jobs \cup {NoParent}] /\ queue \in [Jobs -> Jobs \cup {NoParent}]
        /\ children \in [Jobs -> Seq(Jobs)] /\ phase \in [Jobs -> Phase] /\ defQueue \in Seq(Jobs)
        /\ defQueue' \in Seq(Jobs)
    BY <1>1, <1>2, Types DEF QInv, TypeOK
  <1>4. /\ p \in jobs /\ p # NoParent
    BY <1>3, QueueAssumption DEF RunAfter
  <1>5. /\ status[j] = "none" /\ jobs' = jobs \cup {j} /\ status'[j] = "queued" /\ phase'[j] = "waiting"
        /\ \A x \in Jobs : x # j => status'[x] = status[x] /\ queue'[x] = queue[x] /\ phase'[x] = phase[x]
    BY <1>3, <1>4 DEF RunAfter, Enter, Entered
  <1>6. phase[j] = "none" /\ j \notin jobs
    BY <1>1, <1>5, NotSubmitted
  <1>7. p # j /\ p \in Jobs
    BY <1>3, <1>4, <1>6
  <1>8. DefsSubmitted'
    <2> DEFINE M == {x \in Jobs : status'[x] # "none"}
    <2>1. j \in M
      BY <1>5
    <2>2. \A i \in DOMAIN defQueue : defQueue[i] \in M
      BY <1>1, <1>3, <1>5 DEF DefsSubmitted
    <2>3. \A i \in DOMAIN defQueue' : defQueue'[i] \in M
      <3>1. CASE defQueue' = defQueue
        BY <2>2, <3>1
      <3>2. CASE Contains(defQueue, p) /\ defQueue' = InsertedAfter(defQueue, p, j)
        <4>1. defQueue \in Seq(M)
          <5>1. Len(defQueue) \in Nat /\ DOMAIN defQueue = 1..Len(defQueue)
                /\ defQueue = [i \in 1..Len(defQueue) |-> defQueue[i]]
            BY <1>3
          <5>2. defQueue \in [1..Len(defQueue) -> M]
            BY <2>2, <5>1
          <5> HIDE DEF M
          <5>3. QED
            BY <5>1, <5>2
        <4> HIDE DEF M
        <4>2. defQueue' \in Seq(M)
          BY <2>1, <3>2, <4>1, InsertElements
        <4>3. QED
          BY <4>2
      <3>3. QED
        BY <3>1, <3>2 DEF RunAfter
    <2>4. QED
      BY <2>3 DEF DefsSubmitted
  <1>9. ChildrenQueued'
    <2>1. children' = [children EXCEPT ![p] = <<j>> \o @]
      BY DEF RunAfter
    <2>2. ToSet(<<j>> \o children[p]) = {j} \cup ToSet(children[p])
      BY <1>3, <1>7, PrependElements
    <2> DEFINE c == <<j>> \o children[p]
    <2>3. children'[p] = c
      BY <1>3, <1>7, <2>1
    <2>4. \A y \in Jobs : y # p => children'[y] = children[y]
      BY <1>3, <2>1
    <2> HIDE DEF c
    <2>5. ToSet(children'[p]) = {j} \cup ToSet(children[p])
      BY <2>2, <2>3 DEF c
    <2>6. ASSUME NEW y \in jobs', NEW x \in Jobs, x \in ToSet(children'[y]) PROVE status'[x] = "queued"
      <3>1. x = j \/ x \in ToSet(children[y])
        BY <1>3, <1>5, <2>4, <2>5, <2>6
      <3>2. ASSUME x \in ToSet(children[y]) PROVE status[x] = "queued"
        <4>1. y \in jobs
          BY <1>1, <1>5, <2>6, <3>2, NoChildren
        <4>2. QED
          BY <1>1, <3>2, <4>1 DEF ChildrenQueued, ToSet
      <3>3. QED
        BY <1>5, <3>1, <3>2
    <2>7. QED
      BY <1>2, <2>6, ChildrenKept
  <1> DEFINE D == IF defQueue = <<>> THEN {j} ELSE {}
             E == {}
  <1>10. /\ ~gui.on => wire' = wire
         /\ gui.on => \E q : Spoken(q, D, E) /\ wire' = wire \o q
    <2> DEFINE s == IF defQueue = <<>> THEN <<j>> ELSE <<>>
    <2>1. /\ s \in Seq(Jobs) /\ ToSet(s) = D /\ \A i \in DOMAIN s : s[i] = j
          /\ JobDefs(s) = IF defQueue = <<>> THEN <<JobDef(j)>> ELSE <<>>
      BY OneDef, NoDef
    <2> HIDE DEF s, D
    <2>2. Tells(JobDefs(s))
      BY <2>1
    <2>3. QED
      BY <1>3, <1>5, <2>1, <2>2, TellsSaid
  <1>11. \A x \in D : x = j
    OBVIOUS
  <1>12. \A x : x \notin E
    OBVIOUS
  <1> HIDE DEF D, E
  <1>13. ASSUME NEW x \in Jobs PROVE Law(x, D, E)
    <2>1. CASE x = j
      BY <1>5, <1>6, <1>12, <2>1 DEF Law, Fresh, Due
    <2>2. CASE x # j
      BY <1>1, <1>5, <1>11, <1>12, <2>2 DEF Law, Due
    <2>3. QED
      BY <2>1, <2>2
  <1>14. Due(j)'
    BY <1>5 DEF Due
  <1>15. \A x \in gui.temp : Head(asks).op = "run" /\ Head(asks).job = x => Due(x)'
    BY <1>14
  <1>16. QED
    BY <1>2, <1>8, <1>9, <1>10, <1>13, <1>15, LawStep

-----------------------------------------------------------------------------
(* The steps that submit no job.                                             *)

(* Nothing that the client is told of changes.                               *)
LEMMA StillStep ==
    ASSUME MInv, QInv', UNCHANGED <<status, jobs, queue, phase, children, defQueue>>,
           gui' = gui, returns' = returns,
           asks' = asks \/ (asks # <<>> /\ asks' = Tail(asks) /\ Head(asks).op # "run"),
           wire' = wire \/ TellsEnds(<<>>)
    PROVE  MInv'
  <1>1. QInv /\ DefsSubmitted /\ ChildrenQueued /\ wire \in Seq(Proper)
    BY DEF MInv
  <1>2. DefsSubmitted' /\ ChildrenQueued'
    BY <1>1 DEF DefsSubmitted, ChildrenQueued
  <1>3. /\ status' \in [Jobs -> Status] /\ queue' \in [Jobs -> Jobs \cup {NoParent}]
    BY <1>1, Types
  <1> DEFINE D == {}
             E == {}
  <1>4. /\ ~gui.on => wire' = wire
        /\ gui.on => \E q : Spoken(q, D, E) /\ wire' = wire \o q
    <2> DEFINE s == <<>>
    <2>1. s \in Seq(Jobs) /\ ToSet(s) = {} /\ JobDefs(s) = s /\ DOMAIN s = {} /\ wire \o s = wire
      BY <1>1, NoDef
    <2> HIDE DEF s
    <2>2. Spoken(s, {}, {})
      BY <1>3, <2>1, DefsSaid
    <2>3. CASE wire' = wire
      BY <2>1, <2>2, <2>3
    <2>4. CASE TellsEnds(s)
      <3>1. Ends = {}
        BY DEF Ends
      <3>2. \A i \in DOMAIN s : status'[s[i]] # "none"
        BY <2>1
      <3>3. /\ ~gui.on => wire' = wire
            /\ gui.on => \E q : Spoken(q, ToSet(s), Ends) /\ wire' = wire \o q
        BY <1>3, <2>1, <2>4, <3>2, TellsSaid
      <3>4. QED
        BY <2>1, <3>1, <3>3
    <2>5. QED
      BY <2>3, <2>4 DEF s
  <1>5. ASSUME NEW x \in Jobs PROVE Law(x, D, E)
    BY DEF Law, Due, Fresh
  <1> HIDE DEF D, E
  <1>6. ASSUME asks # <<>>, asks' = Tail(asks), Head(asks).op = "run" PROVE FALSE
    BY <1>6, AsksShorter
  <1>7. QED
    BY <1>1, <1>2, <1>4, <1>5, <1>6, LawStep

(* Runners are launched, after some jobs of the statuses st have stopped and *)
(* the definitions of D are said.                                            *)
LEMMA LaunchStep ==
    ASSUME MInv, QInv', RunsOnce, jobs' = jobs, gui' = gui, returns' = returns,
           asks' = asks \/ (asks # <<>> /\ asks' = Tail(asks) /\ Head(asks).op # "run"),
           NEW S \in SUBSET Jobs, NEW st, NEW svs, NEW ch \in [Jobs -> Seq(Jobs)],
           NEW ph, NEW pe, NEW ff, NEW an, Launch(S, st, svs, ch, ph, pe, ff, an),
           \A x \in S : status[x] # "none",
           \A y \in Jobs : \A x \in ToSet(ch[y]) : status[x] # "none",
           \A y \in jobs : \A x \in ToSet(ch[y]) : st[x] = "queued",
           NEW D, NEW s \in Seq(Jobs), ToSet(s) = D,
           \A x \in Jobs : x \in D => status[x] # "none",
           \A x \in Jobs : ph[x] = phase[x] \/ x \in D,
           \A x \in Jobs : st[x] = status[x] \/ (st[x] = "stopped" /\ status[x] # "none"),
           gui.on /\ ~gui.dead => \A x \in jobs : st[x] # status[x] =>
                                     gui.table[x] # "none" \/ Has(wire, Def(x)),
           \A x \in Jobs : queue'[x] # queue[x] => x \in D,
           gui.on /\ ~gui.dead /\ returns = 0 =>
              \A x \in Jobs : queue'[x] # queue[x] => x \in jobs,
           defQueue' = defQueue \/ defQueue' = Popped(defQueue),
           TellsEnds(JobDefs(s))
    PROVE  MInv'
  <1>1. QInv /\ DefsSubmitted /\ ChildrenQueued
    BY DEF MInv
  <1>2. /\ status \in [Jobs -> Status] /\ status' \in [Jobs -> Status] /\ jobs \in SUBSET Jobs
        /\ queue' \in [Jobs -> Jobs \cup {NoParent}] /\ queue \in [Jobs -> Jobs \cup {NoParent}]
    BY <1>1, Types DEF QInv, TypeOK
  <1>3. \A x \in Jobs :
          /\ \/ status'[x] = st[x] /\ phase'[x] = ph[x]
             \/ status'[x] = st[x] /\ phase'[x] = "asked"
             \/ status'[x] = "stopped" /\ phase'[x] = "dead"
          /\ (status'[x] = st[x] /\ phase'[x] = ph[x])
               \/ x \in S \/ \E y \in Jobs : x \in ToSet(ch[y])
          /\ children'[x] = ch[x] \/ children'[x] = <<>>
    BY LaunchEffect
  <1>4. \A x \in Jobs : status[x] = "none" => status'[x] = "none"
    BY <1>3
  <1>5. \A x \in Jobs : status[x] # "none" =>
          /\ status'[x] = status[x] \/ status'[x] = "stopped"
          /\ phase'[x] \in {phase[x], "asked"} \/ x \in D \/ (phase'[x] = "dead" /\ status'[x] = "stopped")
    BY <1>3
  <1>6. DefsSubmitted'
    <2>1. \A x \in Jobs : status'[x] = "none" => status[x] = "none"
      BY <1>5
    <2>2. QED
      BY <1>1, <2>1, DefsKept
  <1>7. ChildrenQueued'
    <2>1. ASSUME NEW y \in jobs', NEW x \in Jobs, x \in ToSet(children'[y]), phase'[x] = "waiting"
          PROVE  status'[x] = "queued"
      <3>1. y \in Jobs /\ y \in jobs
        BY <1>2
      <3>2. children'[y] # <<>>
        BY <2>1 DEF ToSet
      <3>3. x \in ToSet(ch[y])
        BY <1>3, <2>1, <3>1, <3>2
      <3>4. st[x] = "queued"
        BY <3>1, <3>3
      <3>5. QED
        BY <1>3, <2>1, <3>4
    <2>2. QED
      BY <1>2, <2>1, ChildrenKept
  <1>8. /\ ~gui.on => wire' = wire
        /\ gui.on => \E q : Spoken(q, D, Ends) /\ wire' = wire \o q
    <2>1. \A i \in DOMAIN s : status'[s[i]] # "none"
      <3>1. \A i \in DOMAIN s : s[i] \in Jobs /\ s[i] \in ToSet(s)
        BY DEF ToSet
      <3>2. \A i \in DOMAIN s : status[s[i]] # "none"
        BY <3>1
      <3>3. QED
        BY <1>5, <3>1, <3>2
    <2>2. QED
      BY <1>2, <2>1, TellsSaid
  <1> DEFINE E == Ends
  <1>9. \A x \in Jobs : x \in E <=> status[x] # "stopped" /\ status'[x] = "stopped"
    BY DEF Ends
  <1> HIDE DEF E
  <1>10. ASSUME gui.on, ~gui.dead, NEW x \in Jobs PROVE Law(x, D, E)
    <2>1. CASE status[x] = "none"
      <3>1. x \notin jobs /\ status'[x] = "none" /\ x \notin D /\ x \notin E /\ queue'[x] = queue[x]
        BY <1>1, <1>4, <1>9, <2>1, NotSubmitted
      <3>2. phase[x] = "dead" => phase'[x] = "dead"
        BY DEF RunsOnce
      <3>3. QED
        BY <2>1, <3>1, <3>2 DEF Law, Fresh, Due
    <2>2. CASE status[x] # "none"
      <3>1. phase[x] = "dead" => phase'[x] = "dead"
        BY DEF RunsOnce
      <3>2. status'[x] = status[x] \/ status'[x] = "stopped"
        BY <1>5, <2>2
      <3>3. queue'[x] # queue[x] => x \in D /\ (returns = 0 => x \in jobs)
        BY <1>10
      <3>4. x \in jobs' /\ phase'[x] \in {"ran", "none"} => phase[x] \in {"ran", "none"} \/ x \in D
        BY <1>5, <2>2
      <3>5. x \in jobs' /\ phase'[x] # "dead" /\ x \in E => gui.table[x] # "none" \/ Has(wire, Def(x))
        <4>1. x \in E /\ phase'[x] # "dead" => st[x] # status[x]
          BY <1>3, <1>9
        <4>2. QED
          BY <1>10, <4>1
      <3>6. Due(x) => Due(x)' \/ x \in D \cup E
        BY <1>5, <1>9, <2>2 DEF Due
      <3>7. status'[x] # status[x] => x \in E
        BY <1>9, <3>2
      <3>8. status'[x] # "none" /\ (status'[x] \in Fresh => status[x] = status'[x])
        BY <2>2, <3>2 DEF Fresh
      <3>9. QED
        BY <2>2, <3>1, <3>3, <3>4, <3>5, <3>6, <3>7, <3>8 DEF Law
    <2>3. QED
      BY <2>1, <2>2
  <1>11. ASSUME asks # <<>>, asks' = Tail(asks), Head(asks).op = "run" PROVE FALSE
    BY <1>11, AsksShorter
  <1>12. asks' = asks \/ (asks # <<>> /\ asks' = Tail(asks))
    OBVIOUS
  <1>13. /\ ~gui.on => wire' = wire
         /\ gui.on => \E q : Spoken(q, D, E) /\ wire' = wire \o q
    BY <1>8 DEF E
  <1>14. QED
    BY <1>6, <1>7, <1>10, <1>11, <1>12, <1>13, LawStep

(* A job that stops, and its children are run.                               *)
LEMMA EndedStep ==
    ASSUME MInv, NEW j \in Jobs, Ended(j)
    PROVE  MInv'
  <1>1. QInv /\ DefsSubmitted /\ ChildrenQueued
    BY DEF MInv
  <1>2. Stops(j) /\ TellsEnds(<<>>) /\ gui' = gui /\ asks' = asks /\ returns' = returns
    BY DEF Ended
  <1>3. QInv' /\ RunsOnce
    BY <1>1, <1>2, StopsInv
  <1> DEFINE S  == ToSet(children[j])
             st == [status EXCEPT ![j] = "stopped"]
             ch == [children EXCEPT ![j] = <<>>]
  <1>4. /\ phase[j] = "ran" /\ status[j] \in {"initial", "queued", "running"}
        /\ Launch(S, st, servers, ch, phase, pending, fifo, answers)
        /\ UNCHANGED <<jobs, queue, defQueue>>
    BY <1>2 DEF Stops
  <1>5. /\ children \in [Jobs -> Seq(Jobs)] /\ status \in [Jobs -> Status] /\ jobs \in SUBSET Jobs
        /\ \A y \in Jobs : \A x \in ToSet(children[y]) : x \in Jobs
    BY <1>1, Types DEF ToSet
  <1>6. \A y \in Jobs : \A x \in ToSet(children[y]) : status[x] # "none" /\ x # j
    <2>1. \A y \in Jobs : \A x \in ToSet(children[y]) : phase[x] = "waiting"
      BY <1>1 DEF QInv, ChildrenWait
    <2>2. QED
      BY <1>1, <1>4, <1>5, <2>1, NotSubmitted
  <1>7. S \in SUBSET Jobs /\ \A x \in S : status[x] # "none"
    BY <1>5, <1>6
  <1>8. /\ ch \in [Jobs -> Seq(Jobs)]
        /\ \A y \in Jobs : ToSet(ch[y]) \subseteq ToSet(children[y])
    <2>1. /\ <<>> \in Seq(Jobs) /\ ToSet(<<>>) = {}
      BY NoDef
    <2> DEFINE none == <<>>
    <2>2. ch = [children EXCEPT ![j] = none] /\ none \in Seq(Jobs) /\ ToSet(none) = {}
      BY <2>1
    <2> HIDE DEF none, ch
    <2>3. QED
      BY <1>5, <2>2
  <1>9. /\ st[j] = "stopped" /\ \A x \in Jobs : x # j => st[x] = status[x]
    BY <1>5
  <1> HIDE DEF S, st, ch
  <1>10. \A y \in jobs : \A x \in ToSet(ch[y]) : st[x] = "queued"
    <2>1. ASSUME NEW y \in jobs, NEW x \in ToSet(ch[y]) PROVE st[x] = "queued"
      <3>1. y \in Jobs /\ x \in ToSet(children[y]) /\ x \in Jobs /\ x # j
        BY <1>5, <1>6, <1>8
      <3>2. status[x] = "queued"
        BY <1>1, <3>1 DEF ChildrenQueued, ToSet
      <3>3. QED
        BY <1>9, <3>1, <3>2
    <2>2. QED
      BY <2>1
  <1>11. \A x \in Jobs : st[x] = status[x] \/ (st[x] = "stopped" /\ status[x] # "none")
    BY <1>4, <1>9
  <1>12. ASSUME gui.on, ~gui.dead, NEW x \in jobs, st[x] # status[x]
         PROVE  gui.table[x] # "none" \/ Has(wire, Def(x))
    <2>1. x = j
      BY <1>5, <1>9, <1>12
    <2>2. JobShown(j)
      BY <1>12 DEF MInv, Informed
    <2>3. QED
      BY <1>4, <1>12, <2>1, <2>2 DEF JobShown
  <1>13. \A y \in Jobs : \A x \in ToSet(ch[y]) : status[x] # "none"
    BY <1>6, <1>8
  <1> DEFINE s == <<>>
             D == {}
  <1>14. s \in Seq(Jobs) /\ ToSet(s) = D /\ TellsEnds(JobDefs(s)) /\ \A x \in Jobs : x \notin D
    BY <1>2, NoDef
  <1> HIDE DEF s, D
  <1>15. jobs' = jobs /\ queue' = queue /\ defQueue' = defQueue
    BY <1>4
  <1>16. Launch(S, st, servers, ch, phase, pending, fifo, answers)
    BY <1>4
  <1>17. QED
    BY <1>2, <1>3, <1>7, <1>8, <1>10, <1>11, <1>12, <1>13, <1>14, <1>15, <1>16, LaunchStep, SMTT(60)

(* ch is the lists of children once j has been taken from the queue: those of *)
(* its parent, in the table, are joined by the children that move.           *)
Mended(j, p, moved, ch) ==
    /\ p = queue[j] /\ moved \in Seq(Jobs)
    /\ ToSet(moved) \subseteq ToSet(children[j])
    /\ ch = [x \in Jobs |-> ch[x]]
    /\ p \in jobs => ch[p] = Reverse(moved) \o RemoveFirst(children[p], j)
    /\ ~(p \in jobs /\ p = j) => ch[j] = <<>>
    /\ \A x \in Jobs : x # j /\ ~(x = p /\ p \in jobs) => ch[x] = children[x]

(* Whose children these are: of the same job as before, or of j's parent.    *)
LEMMA UnqueuedChildren ==
    ASSUME QInv, NEW j \in Jobs, NEW p, NEW moved, NEW ch, Mended(j, p, moved, ch)
    PROVE  /\ ch \in [Jobs -> Seq(Jobs)]
           /\ \A y \in Jobs : \A x \in ToSet(ch[y]) :
                \E z \in Jobs : x \in ToSet(children[z]) /\ (z = j \/ z = y)
           /\ \A y \in jobs : j \notin ToSet(ch[y])
  <1>1. /\ children \in [Jobs -> Seq(Jobs)] /\ jobs \in SUBSET Jobs /\ queue \in [Jobs -> Jobs \cup {NoParent}]
    BY Types
  <1>0. /\ p = queue[j] /\ moved \in Seq(Jobs)
        /\ ToSet(moved) \subseteq ToSet(children[j])
    BY DEF Mended
  <1>2. \A y \in Jobs : IsInjective(children[y]) /\ \A x \in ToSet(children[y]) : queue[x] = y
    BY DEF QInv, ChildrenWait
  <1>3. p # j
    <2>1. PICK rank \in [Jobs -> Nat] : \A x \in Jobs : queue[x] \in Jobs => rank[queue[x]] < rank[x]
      BY DEF QInv, Forest
    <2>2. rank[j] \in Nat
      BY <2>1
    <2>3. QED
      BY <1>0, <2>1, <2>2
  <1>4. j \notin ToSet(children[j])
    BY <1>0, <1>2, <1>3
  <1> DEFINE back == Reverse(moved)
             left == RemoveFirst(children[p], j)
             none == <<>>
  <1>5. none \in Seq(Jobs) /\ ToSet(none) = {}
    BY NoDef
  <1>6. back \in Seq(Jobs) /\ ToSet(back) = ToSet(moved)
    BY <1>0, ReverseElements
  <1>7. p \in jobs => /\ left \in Seq(Jobs) /\ ToSet(left) \subseteq ToSet(children[p])
                      /\ j \notin ToSet(left)
    BY <1>1, <1>2, RemoveElements
  <1>8. /\ ch = [x \in Jobs |-> ch[x]]
        /\ p \in jobs => ch[p] = back \o left
        /\ ch[j] = none
        /\ \A x \in Jobs : x # j /\ ~(x = p /\ p \in jobs) => ch[x] = children[x]
    BY <1>1, <1>3 DEF Mended
  <1> HIDE DEF back, left, none
  <1>9. ASSUME p \in jobs
        PROVE  ch[p] \in Seq(Jobs) /\ ToSet(ch[p]) = ToSet(back) \cup ToSet(left)
    <2>1. back \in Seq(Jobs) /\ left \in Seq(Jobs)
      BY <1>6, <1>7, <1>9
    <2>2. back \o left \in Seq(Jobs) /\ ToSet(back \o left) = ToSet(back) \cup ToSet(left)
      BY <2>1, ConcatElements
    <2>3. ch[p] = back \o left
      BY <1>8, <1>9
    <2>4. QED
      BY <2>2, <2>3
  <1>10. \A y \in Jobs : ch[y] \in Seq(Jobs)
    BY <1>1, <1>5, <1>8, <1>9
  <1>11. ASSUME NEW y \in Jobs, NEW x \in ToSet(ch[y])
         PROVE  \E z \in Jobs : x \in ToSet(children[z]) /\ (z = j \/ z = y)
    <2>1. CASE y = p /\ p \in jobs
      BY <1>0, <1>6, <1>7, <1>9, <1>11, <2>1
    <2>2. CASE ~(y = p /\ p \in jobs)
      BY <1>5, <1>8, <1>11, <2>2
    <2>3. QED
      BY <2>1, <2>2
  <1>12. ASSUME NEW y \in jobs, j \in ToSet(ch[y]) PROVE FALSE
    <2>1. CASE y = p
      BY <1>0, <1>4, <1>6, <1>7, <1>9, <1>12, <2>1
    <2>2. CASE y # p
      <3>1. y \in Jobs
        BY <1>1
      <3>2. j \in ToSet(children[y])
        BY <1>5, <1>8, <1>12, <2>2, <3>1
      <3>3. QED
        BY <1>0, <1>2, <2>2, <3>1, <3>2
    <2>3. QED
      BY <2>1, <2>2
  <1>13. ch \in [Jobs -> Seq(Jobs)]
    BY <1>8, <1>10
  <1>14. QED
    BY <1>11, <1>12, <1>13

(* /kill of a job that is QUEUED: the children that move are sent again.     *)
LEMMA UnqueueStep ==
    ASSUME MInv, NEW j \in Jobs, j \in jobs, status[j] = "queued", Unqueue(j),
           asks # <<>>, Head(asks) = [op |-> "kill", job |-> j, after |-> NoParent],
           asks' = Tail(asks), gui' = gui, returns' = returns,
           NEW D, \A x \in Jobs : x \in D <=> queue'[x] # queue[x],
           NEW s \in Seq(Jobs), ToSet(s) = D, TellsEnds(JobDefs(s))
    PROVE  MInv'
  <1>1. QInv /\ DefsSubmitted /\ ChildrenQueued
    BY DEF MInv
  <1>2. QInv' /\ RunsOnce
    BY <1>1, UnqueueInv
  <1>3. /\ children \in [Jobs -> Seq(Jobs)] /\ status \in [Jobs -> Status] /\ jobs \in SUBSET Jobs
        /\ queue \in [Jobs -> Jobs \cup {NoParent}]
    BY <1>1, Types
  <1> DEFINE p       == queue[j]
             st      == [status EXCEPT ![j] = "stopped"]
             Part(n) == SubSeq(children[j], 1, n)
             Rest(n) == SubSeq(children[j], n + 1, Len(children[j]))
             Ch(n)   == [x \in Jobs |->
                           IF x = p /\ p \in jobs
                           THEN Reverse(Part(n)) \o RemoveFirst(children[p], j)
                           ELSE IF x = j THEN <<>> ELSE children[x]]
  <1>4. PICK n \in {1, Len(children[j])} :
          /\ n <= Len(children[j])
          /\ queue' = [x \in Jobs |-> IF x \in ToSet(Part(n)) THEN p ELSE queue[x]]
          /\ Launch(ToSet(Rest(n)), st, servers, Ch(n), phase, pending, fifo, answers)
    BY DEF Unqueue
  <1> DEFINE moved == Part(n)
             rest  == Rest(n)
             S     == ToSet(rest)
             ch    == Ch(n)
  <1>5. /\ moved \in Seq(Jobs) /\ ToSet(moved) \subseteq ToSet(children[j])
        /\ S \subseteq ToSet(children[j])
    <2>1. children[j] \in Seq(Jobs) /\ IsInjective(children[j])
      BY <1>1, <1>3 DEF QInv, ChildrenWait
    <2>2. n \in 0..Len(children[j])
      BY <1>4, <2>1
    <2>3. QED
      BY <2>1, <2>2, CutElements
  <1>6. /\ Launch(S, st, servers, ch, phase, pending, fifo, answers)
        /\ queue' = [x \in Jobs |-> IF x \in ToSet(moved) THEN p ELSE queue[x]]
    BY <1>4
  <1>7. /\ p \in jobs => ch[p] = Reverse(moved) \o RemoveFirst(children[p], j)
        /\ ~(p \in jobs /\ p = j) => ch[j] = <<>>
        /\ \A x \in Jobs : x # j /\ ~(x = p /\ p \in jobs) => ch[x] = children[x]
        /\ ch = [x \in Jobs |-> ch[x]]
    BY <1>3
  <1>8. st[j] = "stopped" /\ \A x \in Jobs : x # j => st[x] = status[x]
    BY <1>3
  <1> HIDE DEF p, Part, Rest, Ch, moved, rest, ch, S, st
  <1>9. /\ ch \in [Jobs -> Seq(Jobs)]
        /\ \A y \in Jobs : \A x \in ToSet(ch[y]) :
             \E z \in Jobs : x \in ToSet(children[z]) /\ (z = j \/ z = y)
        /\ \A y \in jobs : j \notin ToSet(ch[y])
    <2>1. Mended(j, p, moved, ch)
      BY <1>5, <1>7 DEF Mended, p
    <2>2. QED
      BY <1>1, <2>1, UnqueuedChildren
  <1>10. \A z \in Jobs : \A x \in ToSet(children[z]) : x \in Jobs /\ status[x] # "none"
    <2>1. \A z \in Jobs : \A x \in ToSet(children[z]) : x \in Jobs /\ phase[x] = "waiting"
      BY <1>1, <1>3 DEF QInv, ChildrenWait, ToSet
    <2>2. QED
      BY <1>1, <2>1, NotSubmitted
  <1>11. \A z \in jobs : \A x \in ToSet(children[z]) : status[x] = "queued"
    BY <1>1 DEF ChildrenQueued, ToSet
  <1>12. S \in SUBSET Jobs /\ \A x \in S : status[x] # "none"
    BY <1>5, <1>10
  <1>13. \A y \in Jobs : \A x \in ToSet(ch[y]) : status[x] # "none"
    BY <1>9, <1>10
  <1>14. \A y \in jobs : \A x \in ToSet(ch[y]) : st[x] = "queued"
    <2>1. ASSUME NEW y \in jobs, NEW x \in ToSet(ch[y]) PROVE st[x] = "queued"
      <3>1. PICK z \in Jobs : x \in ToSet(children[z]) /\ (z = j \/ z = y)
        BY <1>3, <1>9
      <3>2. x # j /\ status[x] = "queued" /\ x \in Jobs
        BY <1>9, <1>10, <1>11, <3>1
      <3>3. QED
        BY <1>8, <3>2
    <2>2. QED
      BY <2>1
  <1>18. \A x \in Jobs : x \in D => x \in ToSet(moved)
    BY <1>3, <1>6
  <1>19. \A x \in Jobs : x \in D => status[x] = "queued"
    BY <1>5, <1>11, <1>18
  <1>20. ASSUME gui.on, ~gui.dead, returns = 0, NEW x \in Jobs, queue'[x] # queue[x] PROVE x \in jobs
    <2>1. Cleared(x)
      BY <1>20 DEF MInv, Informed
    <2>2. status[x] = "queued"
      BY <1>19, <1>20
    <2>3. QED
      BY <1>20, <2>1, <2>2 DEF Cleared
  <1>21. ASSUME gui.on, ~gui.dead, NEW x \in jobs, st[x] # status[x]
         PROVE  gui.table[x] # "none" \/ Has(wire, Def(x))
    <2>1. x = j
      BY <1>3, <1>8, <1>21
    <2>2. asks \in Seq(Request)
      BY DEF MInv, MirrorTypeOK
    <2>3. 1 \in DOMAIN asks /\ Head(asks) = asks[1]
      BY <2>2
    <2>4. asks[1].op # "run" /\ asks[1].job = j
      BY <2>3
    <2>5. gui.table[j] # "none"
      BY <1>21, <2>3, <2>4 DEF MInv, Informed, AsksKnown
    <2>6. QED
      BY <2>1, <2>5
  <1>22. /\ \A x \in Jobs : st[x] = status[x] \/ (st[x] = "stopped" /\ status[x] # "none")
         /\ \A x \in Jobs : x \in D => status[x] # "none"
         /\ \A x \in Jobs : queue'[x] # queue[x] => x \in D
    BY <1>8, <1>19
  <1>23. jobs' = jobs /\ defQueue' = defQueue
    BY DEF Unqueue
  <1>24. asks # <<>> /\ asks' = Tail(asks) /\ Head(asks).op # "run"
    OBVIOUS
  <1>25. Launch(S, st, servers, ch, phase, pending, fifo, answers) /\ ch \in [Jobs -> Seq(Jobs)]
    BY <1>6, <1>9
  <1>26. QED
    BY <1>2, <1>12, <1>13, <1>14, <1>20, <1>21, <1>22, <1>23, <1>24, <1>25, LaunchStep, SMTT(60)

(* /kill: the job ends, and its children start or end with it.               *)
LEMMA KillStep ==
    ASSUME MInv, NEW j \in Jobs, HandleKill(j)
    PROVE  MInv'
  <1>1. /\ asks # <<>> /\ Head(asks) = [op |-> "kill", job |-> j, after |-> NoParent]
        /\ asks' = Tail(asks) /\ gui' = gui /\ returns' = returns
    BY DEF HandleKill
  <1>2. CASE j \in jobs /\ status[j] = "queued"
    <2> DEFINE D == {x \in Jobs : queue'[x] # queue[x]}
    <2>1. /\ j \in jobs /\ status[j] = "queued" /\ Unqueue(j)
          /\ \E moved \in SetToSeqs(D) : TellsEnds(JobDefs(moved))
      BY <1>2 DEF HandleKill
    <2>2. D \in SUBSET Jobs /\ \A x \in Jobs : x \in D <=> queue'[x] # queue[x]
      OBVIOUS
    <2> HIDE DEF D
    <2>3. PICK s \in SetToSeqs(D) : TellsEnds(JobDefs(s))
      BY <2>1
    <2>4. s \in Seq(Jobs) /\ ToSet(s) = D
      BY <2>2, OrderElements
    <2>5. QED
      BY <1>1, <2>1, <2>2, <2>3, <2>4, UnqueueStep
  <1>3. CASE ~(j \in jobs /\ status[j] = "queued")
    <2>1. UNCHANGED <<queueVars, wire>>
      BY <1>3 DEF HandleKill
    <2>2. UNCHANGED vars
      BY <2>1 DEF queueVars, vars
    <2>3. QInv'
      BY <2>2, OtherInv DEF MInv
    <2>4. UNCHANGED <<status, jobs, queue, phase, children, defQueue>>
      BY <2>2 DEF vars, jobVars, runVars, listVars
    <2>5. Head(asks).op # "run"
      BY <1>1
    <2>6. QED
      BY <1>1, <2>1, <2>3, <2>4, <2>5, StillStep
  <1>4. QED
    BY <1>2, <1>3

(* /close: the job leaves the table, and the client is told so.              *)
LEMMA ClosedSaid ==
    ASSUME NEW j \in Jobs, NEW q, q = <<JobClosed(j)>>
    PROVE  /\ q \in Seq(Proper)
           /\ Has(q, Closing(j))
           /\ \A x \in Jobs : /\ ~Has(q, Told(x)) /\ ~Has(q, Def(x)) /\ ~Has(q, Sta(x))
                              /\ ~Has(q, Wrong(x)') /\ ~Has(q, Stray(x)')
                              /\ Has(q, Of(x)) => x = j
                              /\ Has(q, Closing(x)) => x = j
  <1> DEFINE m == JobClosed(j)
  <1>1. m.type = "JCL" /\ m.job = j /\ m \in Message
    <2>1. m = [type |-> "JCL", job |-> j, status |-> "none", queue |-> NoParent]
      BY DEF JobClosed
    <2>2. QED
      BY <2>1 DEF Message, Status
  <1>2. \A K : Has(q, K) <=> m \in K
    BY DEF Has
  <1> HIDE DEF m
  <1>3. m \in Proper
    BY <1>1 DEF Proper
  <1>4. q \in Seq(Proper)
    BY <1>3 DEF m
  <1>5. m \in Closing(j)
    BY <1>1 DEF Closing, Of
  <1>6. \A x \in Jobs : m \notin Told(x) /\ (m \in Of(x) => x = j)
    BY <1>1 DEF Told, Of
  <1>7. \A x \in Jobs : /\ Def(x) \subseteq Told(x) /\ Sta(x) \subseteq Told(x)
                        /\ Closing(x) \subseteq Of(x)
                        /\ Wrong(x)' \subseteq Told(x) /\ Stray(x)' \subseteq Told(x)
    BY MessageSets
  <1>8. \A x \in Jobs : /\ m \notin Def(x) /\ m \notin Sta(x) /\ m \notin Wrong(x)' /\ m \notin Stray(x)'
                        /\ m \in Closing(x) => x = j
    BY <1>6, <1>7
  <1>9. QED
    BY <1>2, <1>4, <1>5, <1>6, <1>8

(* The job leaves the table: gebrm_app_handle_close once it has ended.       *)
LEMMA ForgetStep ==
    ASSUME MInv, NEW j \in Jobs, Forget(j), Tells(<<JobClosed(j)>>), gui' = gui, returns' = returns,
           asks # <<>>, Head(asks) = [op |-> "close", job |-> j, after |-> NoParent], asks' = Tail(asks)
    PROVE  MInv'
  <1>1. QInv /\ DefsSubmitted /\ ChildrenQueued
    BY DEF MInv
  <1>2. QInv' /\ RunsOnce
    BY <1>1, ForgetInv
  <1>3. /\ j \in jobs /\ jobs' = jobs \ {j}
        /\ UNCHANGED <<status, queue, phase, children, defQueue>>
    BY DEF Forget, runVars, listVars
  <1>4. DefsSubmitted' /\ ChildrenQueued'
    BY <1>1, <1>3 DEF DefsSubmitted, ChildrenQueued
  <1> DEFINE q == <<JobClosed(j)>>
  <1>5. /\ q \in Seq(Proper)
        /\ Has(q, Closing(j))
        /\ \A x \in Jobs : /\ ~Has(q, Told(x)) /\ ~Has(q, Def(x)) /\ ~Has(q, Sta(x))
                           /\ ~Has(q, Wrong(x)') /\ ~Has(q, Stray(x)')
                           /\ Has(q, Of(x)) => x = j
                           /\ Has(q, Closing(x)) => x = j
    BY ClosedSaid
  <1>6. wire' = IF gui.on THEN wire \o q ELSE wire
    BY DEF Tells
  <1> HIDE DEF q
  <1>7. asks \in Seq(Request)
    BY DEF MInv, MirrorTypeOK
  <1>8. 1 \in DOMAIN asks /\ asks[1].op = "close" /\ asks[1].job = j
    <2>1. 1 \in DOMAIN asks /\ Head(asks) = asks[1]
      BY <1>7
    <2>2. QED
      BY <2>1
  <1>9. ASSUME gui.on, ~gui.dead PROVE Speaks(q)
    <2>1. gui.table[j] # "none" /\ status[j] # "queued"
      BY <1>8, <1>9 DEF MInv, Informed, AsksKnown
    <2>2. status[j] # "none"
      BY <1>1, <1>3, NotSubmitted
    <2>3. Takes(q)
      <3>1. Head(asks).op # "run"
        OBVIOUS
      <3>2. /\ \A i \in DOMAIN asks' : \E k \in DOMAIN asks : asks'[i] = asks[k]
            /\ \A x : AskedRun(x) => AskedRun(x)'
        BY <3>1, AsksLeft
      <3>3. QED
        BY <3>2 DEF Takes
    <2>4. ASSUME NEW x \in Jobs PROVE Says(x, q) /\ Goes(x, q)
      <3>1. Says(x, q)
        BY <1>3, <1>5, <2>1, <2>2 DEF Says, Due
      <3>2. Goes(x, q)
        BY <1>3, <1>5, <2>1, <2>2 DEF Goes, Fresh
      <3>3. QED
        BY <3>1, <3>2
    <2>5. QED
      BY <1>5, <1>6, <1>9, <2>3, <2>4 DEF Speaks
  <1>10. /\ ~gui.on => wire' = wire
         /\ gui.on => wire' = wire \o q
    BY <1>6
  <1>11. QED
    BY <1>2, <1>4, <1>5, <1>9, <1>10, MaestroStep

(* /close, of a job that has ended or of one that has not.                   *)
LEMMA CloseStep ==
    ASSUME MInv, NEW j \in Jobs, HandleClose(j)
    PROVE  MInv'
  <1>1. /\ asks # <<>> /\ Head(asks) = [op |-> "close", job |-> j, after |-> NoParent]
        /\ asks' = Tail(asks) /\ gui' = gui /\ returns' = returns
    BY DEF HandleClose
  <1>2. CASE j \in jobs
    BY <1>1, <1>2, ForgetStep DEF HandleClose
  <1>3. CASE j \notin jobs
    <2>1. UNCHANGED <<queueVars, wire>>
      BY <1>3 DEF HandleClose
    <2>2. UNCHANGED vars
      BY <2>1 DEF queueVars, vars
    <2>3. QInv'
      BY <2>2, OtherInv DEF MInv
    <2>4. UNCHANGED <<status, jobs, queue, phase, children, defQueue>>
      BY <2>2 DEF vars, jobVars, runVars, listVars
    <2>5. Head(asks).op # "run"
      BY <1>1
    <2>6. QED
      BY <1>1, <2>1, <2>3, <2>4, <2>5, StillStep
  <1>4. QED
    BY <1>2, <1>3

(* The answers of the nodes: the last one sends the job's definition and     *)
(* launches the runner that is next.                                         *)
LEMMA AnsweredStep ==
    ASSUME MInv, NEW d \in Daemons, Answered(d)
    PROVE  MInv'
  <1> DEFINE j    == Head(fifo[d])
             ff   == [fifo EXCEPT ![d] = Tail(@)]
             an   == [answers EXCEPT ![d] = @ - 1]
             pe   == [pending EXCEPT ![j] = @ - 1]
             ph   == [phase EXCEPT ![j] = "ran"]
             rq   == Popped(runQueue)
             next == IF rq = <<>> THEN {} ELSE {Head(rq)}
  <1>1. QInv /\ DefsSubmitted /\ ChildrenQueued
    BY DEF MInv
  <1>2. Response(d) /\ gui' = gui /\ asks' = asks /\ returns' = returns
    BY DEF Answered
  <1>3. QInv' /\ RunsOnce
    BY <1>1, <1>2, ResponseInv
  <1>4. fifo[d] # <<>>
    BY <1>2 DEF Response
  <1>5. j \in Jobs /\ phase[j] = "asked" /\ pe \in [Jobs -> Nat]
    BY <1>1, <1>4, AnswerTaken
  <1>6. /\ phase \in [Jobs -> Phase] /\ pending \in [Jobs -> Nat] /\ runQueue \in Seq(Jobs)
        /\ children \in [Jobs -> Seq(Jobs)] /\ status \in [Jobs -> Status] /\ jobs \in SUBSET Jobs
    BY <1>1, Types
  <1>7. pe[j] = pending[j] - 1 /\ pending[j] \in Nat
    BY <1>5, <1>6
  <1>8. UNCHANGED <<jobs, queue>>
    BY <1>2 DEF Response
  <1>9. CASE pe[j] > 0
    <2>1. pending[j] # 1
      BY <1>7, <1>9
    <2>2. TellsEnds(<<>>)
      BY <2>1 DEF Answered
    <2>3. UNCHANGED <<status, phase, children, defQueue>>
      BY <1>2, <1>9 DEF Response
    <2>4. QED
      BY <1>2, <1>3, <1>8, <2>2, <2>3, StillStep
  <1>10. CASE ~(pe[j] > 0)
    <2>1. pending[j] = 1
      BY <1>5, <1>7, <1>10
    <2>2. TellsEnds(<<JobDef(j)>>)
      BY <2>1 DEF Answered
    <2>3. /\ defQueue' = Popped(defQueue)
          /\ Launch(next, status, servers, children, ph, pe, ff, an)
      BY <1>2, <1>10 DEF Response
    <2>4. next \in SUBSET Jobs /\ \A x \in next : x \in ToSet(runQueue)
      <3>1. rq # <<>> => runQueue # <<>> /\ rq = Tail(runQueue)
        BY DEF Popped
      <3>2. IsInjective(runQueue)
        BY <1>1 DEF QInv, InTurn
      <3>3. ASSUME rq # <<>> PROVE Head(rq) \in Jobs /\ Head(rq) \in ToSet(runQueue)
        <4>0. runQueue \in Seq(Jobs) /\ runQueue # <<>> /\ rq = Tail(runQueue)
          BY <1>6, <3>1, <3>3
        <4> HIDE DEF rq
        <4>1. rq \in Seq(Jobs) /\ IsInjective(rq) /\ ToSet(rq) \subseteq ToSet(runQueue)
          BY <3>2, <4>0, TailElements
        <4>2. QED
          BY <3>3, <4>1, TailElements
      <3>4. QED
        BY <3>3
    <2>5. \A x \in next : status[x] # "none"
      BY <1>1, <2>4, NotSubmitted
    <2>6. ph[j] = "ran" /\ \A x \in Jobs : x # j => ph[x] = phase[x]
      BY <1>5, <1>6
    <2> HIDE DEF next, rq, ph, pe, ff, an
    <2>7. \A y \in Jobs : \A x \in ToSet(children[y]) : x \in Jobs /\ status[x] # "none"
      <3>1. \A y \in Jobs : \A x \in ToSet(children[y]) : x \in Jobs /\ phase[x] = "waiting"
        BY <1>1, <1>6 DEF QInv, ChildrenWait, ToSet
      <3>2. QED
        BY <1>1, <3>1, NotSubmitted
    <2>8. \A y \in jobs : \A x \in ToSet(children[y]) : status[x] = "queued"
      BY <1>1 DEF ChildrenQueued, ToSet
    <2>9. status[j] # "none"
      BY <1>1, <1>5, NotSubmitted
    <2> HIDE DEF j
    <2> DEFINE s == <<j>>
               D == {j}
    <2>10. /\ s \in Seq(Jobs) /\ ToSet(s) = D /\ JobDefs(s) = <<JobDef(j)>>
      BY <1>5, OneDef
    <2> HIDE DEF s
    <2>11. TellsEnds(JobDefs(s)) /\ s \in Seq(Jobs) /\ ToSet(s) = D
      BY <2>2, <2>10
    <2>12. /\ \A x \in Jobs : x \in D => status[x] # "none"
           /\ \A x \in Jobs : ph[x] = phase[x] \/ x \in D
      BY <2>6, <2>9
    <2> HIDE DEF D
    <2>13. jobs' = jobs /\ queue' = queue /\ asks' = asks
      BY <1>2, <1>8
    <2> DEFINE st == status
               ch == children
    <2>14. /\ Launch(next, st, servers, ch, ph, pe, ff, an)
           /\ ch \in [Jobs -> Seq(Jobs)]
           /\ \A y \in Jobs : \A x \in ToSet(ch[y]) : status[x] # "none"
           /\ \A y \in jobs : \A x \in ToSet(ch[y]) : st[x] = "queued"
           /\ \A x \in Jobs : st[x] = status[x]
      BY <1>6, <2>3, <2>7, <2>8
    <2> HIDE DEF st, ch
    <2>15. \A x \in jobs : st[x] = status[x]
      BY <1>6, <2>14
    <2>16. \A x \in Jobs : queue'[x] = queue[x]
      BY <2>13
    <2>17. gui' = gui /\ returns' = returns /\ defQueue' = Popped(defQueue)
      BY <1>2, <2>3
    <2>18. QED
      BY <1>3, <2>4, <2>5, <2>11, <2>12, <2>13, <2>14, <2>15, <2>16, <2>17, LaunchStep, SMTT(60)
  <1>11. QED
    BY <1>9, <1>10

(* on_status_change of a job that begins to run: its status is sent, and the *)
(* definitions that were held back when it was INITIAL.                      *)
LEMMA StartsSaid ==
    ASSUME MInv, NEW j \in Jobs, NEW told, Starts(j, told), status' \in [Jobs -> Status],
           queue' \in [Jobs -> Jobs \cup {NoParent}], NEW D,
           D = IF status[j] = "initial" THEN ToSet(defQueue) ELSE {}
    PROVE  Spoken(<<JobStatus(j)>> \o IF status[j] = "initial" THEN JobDefs(defQueue) ELSE <<>>, D, {j})
  <1>1. status' = [status EXCEPT ![j] = "running"] /\ status \in [Jobs -> Status] /\ defQueue \in Seq(Jobs)
    BY Types DEF Starts, MInv
  <1>2. status'[j] = "running" /\ \A x \in Jobs : x # j => status'[x] = status[x]
    BY <1>1
  <1> DEFINE s == IF status[j] = "initial" THEN defQueue ELSE <<>>
             w == <<j>>
             p == [i \in DOMAIN w |-> JobStatus(w[i])]
             none == {}
             E == {j}
  <1>3. /\ s \in Seq(Jobs) /\ ToSet(s) = D
        /\ JobDefs(s) = IF status[j] = "initial" THEN JobDefs(defQueue) ELSE <<>>
    BY <1>1, NoDef
  <1>4. \A i \in DOMAIN s : s[i] \in Jobs /\ status[s[i]] # "none"
    <2>1. \A i \in DOMAIN defQueue : defQueue[i] \in Jobs /\ status[defQueue[i]] # "none"
      BY <1>1 DEF MInv, DefsSubmitted
    <2>2. QED
      BY <2>1, NoDef
  <1>5. w \in Seq(Jobs) /\ ToSet(w) = E /\ \A i \in DOMAIN w : w[i] = j
    BY OneDef
  <1>6. p = <<JobStatus(j)>>
    OBVIOUS
  <1> HIDE DEF s, w
  <1>7. \A i \in DOMAIN s : status'[s[i]] # "none"
    BY <1>2, <1>4
  <1>8. Spoken(JobDefs(s), ToSet(s), {})
    BY <1>3, <1>7, DefsSaid
  <1>9. Spoken(p, {}, ToSet(w))
    BY <1>2, <1>5, StatusesSaid
  <1> DEFINE q == JobDefs(s)
  <1>10. Spoken(q, D, none) /\ Spoken(p, none, E)
    BY <1>3, <1>5, <1>8, <1>9
  <1> HIDE DEF p, q, none, E
  <1>11. Spoken(p \o q, none \cup D, E \cup none)
    BY <1>10, BothSaid
  <1>12. none \cup D = D /\ E \cup none = E
    BY DEF none
  <1>13. p \o q = <<JobStatus(j)>> \o IF status[j] = "initial" THEN JobDefs(defQueue) ELSE <<>>
    BY <1>3, <1>6 DEF q
  <1>14. Spoken(p \o q, D, {j})
    BY <1>11, <1>12 DEF E
  <1>15. QED
    BY <1>13, <1>14

(* A job begins to run (on_status_change).                                   *)
LEMMA StartedStep ==
    ASSUME MInv, NEW j \in Jobs, Started(j)
    PROVE  MInv'
  <1>1. QInv /\ DefsSubmitted /\ ChildrenQueued
    BY DEF MInv
  <1>2. /\ j \in jobs /\ phase[j] = "ran" /\ status[j] \in {"initial", "queued"}
        /\ status' = [status EXCEPT ![j] = "running"]
        /\ UNCHANGED <<jobs, parent, queue, servers, phase, pending, fifo, answers, runQueue, children,
                       conn, losses, crashed>>
        /\ gui' = gui /\ asks' = asks /\ returns' = returns
    BY DEF Started, Starts, runVars, listVars
  <1>3. Starts(j, gui.on) /\ (~gui.on => UNCHANGED <<defQueue, known, wire>>)
    BY DEF Started, Starts, Tells
  <1>4. /\ defQueue \in Seq(Jobs) /\ known \in SUBSET Jobs /\ status \in [Jobs -> Status]
    BY <1>1, Types
  <1>5. QInv'
    BY <1>1, <1>3, StartsInv
  <1>6. status'[j] = "running" /\ \A x \in Jobs : x # j => status'[x] = status[x]
    BY <1>2, <1>4
  <1>7. DefsSubmitted'
    <2>1. \A x \in Jobs : status'[x] = "none" => status[x] = "none"
      BY <1>6
    <2>2. defQueue' = defQueue \/ defQueue' = <<>>
      BY <1>3 DEF Starts
    <2>3. QED
      BY <1>1, <2>1, <2>2, DefsKept
  <1>8. ChildrenQueued'
    <2>1. ASSUME NEW y \in jobs', NEW x \in Jobs, x \in ToSet(children'[y]), phase'[x] = "waiting"
          PROVE  status'[x] = "queued"
      <3>1. y \in jobs /\ x \in ToSet(children[y]) /\ x # j
        BY <1>2, <2>1
      <3>2. status[x] = "queued"
        BY <1>1, <3>1 DEF ChildrenQueued, ToSet
      <3>3. QED
        BY <1>6, <3>1, <3>2
    <2>2. QED
      BY <1>5, <2>1, ChildrenKept
  <1> DEFINE D == IF status[j] = "initial" THEN ToSet(defQueue) ELSE {}
             E == {j}
             u == <<JobStatus(j)>> \o IF status[j] = "initial" THEN JobDefs(defQueue) ELSE <<>>
  <1>9. ASSUME gui.on PROVE Spoken(u, D, E) /\ wire' = wire \o u
    <2>1. status' \in [Jobs -> Status] /\ queue' \in [Jobs -> Jobs \cup {NoParent}] /\ Starts(j, gui.on)
      BY <1>3, <1>5, <1>9 DEF QInv, TypeOK
    <2>2. wire' = wire \o u
      BY <1>9 DEF Started, Tells
    <2> HIDE DEF D
    <2>3. D = IF status[j] = "initial" THEN ToSet(defQueue) ELSE {}
      BY DEF D
    <2>4. Spoken(u, D, E)
      BY <2>1, <2>3, StartsSaid
    <2>5. QED
      BY <2>2, <2>4
  <1>10. \A x \in D : x \in Jobs /\ status[x] # "none"
    <2>1. \A x \in ToSet(defQueue) : x \in Jobs /\ status[x] # "none"
      BY <1>1, <1>4 DEF DefsSubmitted, ToSet
    <2>2. QED
      BY <2>1
  <1> HIDE DEF D, u
  <1>11. ASSUME gui.on, ~gui.dead, NEW x \in Jobs PROVE Law(x, D, E)
    <2>1. JobShown(x)
      BY <1>11 DEF MInv, Informed
    <2>2. x = j => gui.table[x] # "none" \/ Has(wire, Def(x))
      BY <1>2, <2>1 DEF JobShown
    <2>3. UNCHANGED <<jobs, queue, phase>>
      BY <1>2
    <2>4. status[x] = "none" => status'[x] = "none" /\ x # j
      BY <1>2, <1>6
    <2>5. status'[x] = "running" \/ status'[x] = status[x]
      BY <1>6
    <2>6. status'[x] = "none" => status[x] = "none" /\ x \notin D \cup E
      BY <1>2, <1>6, <1>10
    <2>7. status'[x] # status[x] => x \in E
      BY <1>6
    <2>8. x \in E => x = j
      OBVIOUS
    <2> HIDE DEF E
    <2>9. Due(x) => Due(x)'
      BY <2>3, <2>5 DEF Due
    <2>10. QED
      BY <1>2, <2>2, <2>3, <2>4, <2>5, <2>6, <2>7, <2>8, <2>9 DEF Law, Fresh
  <1> HIDE DEF E
  <1>12. ASSUME asks # <<>>, asks' = Tail(asks) PROVE FALSE
    BY <1>2, <1>12, AsksShorter
  <1>13. ~gui.on => wire' = wire
    BY <1>3
  <1>14. gui.on => \E q : Spoken(q, D, E) /\ wire' = wire \o q
    BY <1>9
  <1>15. QED
    BY <1>2, <1>5, <1>7, <1>8, <1>11, <1>12, <1>13, <1>14, LawStep

(* A node comes or goes, or nothing happens.                                 *)
LEMMA IdleStep ==
    ASSUME MInv, (\E d \in Daemons : Lose(d) \/ Connect(d)) \/ UNCHANGED vars, UNCHANGED mirrorVars
    PROVE  MInv'
  <1>1. QInv'
    BY OtherInv DEF MInv
  <1>2. UNCHANGED <<status, jobs, queue, phase, children, defQueue>>
    BY DEF Lose, Connect, vars, jobVars, runVars, listVars
  <1>3. gui' = gui /\ wire' = wire /\ asks' = asks /\ returns' = returns
    BY DEF mirrorVars
  <1>4. QED
    BY <1>1, <1>2, <1>3, StillStep

-----------------------------------------------------------------------------
(* What the client does.                                                     *)

(* A request, r, and with it perhaps a fake job.                             *)
LEMMA AskStep ==
    ASSUME MInv, gui.on, ~gui.dead, UNCHANGED <<queueVars, wire, returns>>,
           NEW r \in Request, asks' = Append(asks, r),
           gui' \in Client, gui'.table = gui.table, gui'.queueOf = gui.queueOf, gui'.queues = gui.queues,
           gui'.on = gui.on, gui'.dead = gui.dead,
           gui.rows \subseteq gui'.rows,
           \A x \in gui'.rows : x \in gui.rows \/ (status[x] = "none" /\ x \in gui'.temp),
           gui.temp \subseteq gui'.temp,
           \A x \in gui'.temp : x \in gui.temp \/ (r.op = "run" /\ r.job = x /\ gui.table[x] = "none"),
           r.op # "run" => gui.table[r.job] # "none",
           r.op = "close" => status[r.job] # "queued"
    PROVE  MInv'
  <1>1. UNCHANGED vars /\ UNCHANGED <<status, jobs, queue, phase, children, defQueue>>
    BY DEF queueVars, vars, jobVars, runVars, listVars
  <1>2. /\ QInv /\ DefsSubmitted /\ ChildrenQueued /\ Informed
        /\ asks \in Seq(Request) /\ wire \in Seq(Proper) /\ wire \in Seq(Message) /\ returns \in 0..MaxFaults
        /\ \A j \in gui.rows : j \in gui.temp \/ gui.table[j] # "none"
        /\ \A j \in gui.temp : gui.table[j] = "none"
    BY DEF MInv, MirrorTypeOK
  <1>3. QInv'
    BY <1>1, <1>2, OtherInv
  <1>4. DefsSubmitted' /\ ChildrenQueued'
    BY <1>1, <1>2 DEF DefsSubmitted, ChildrenQueued
  <1>5. /\ asks' \in Seq(Request)
        /\ \A i \in DOMAIN asks : i \in DOMAIN asks' /\ asks'[i] = asks[i]
        /\ \A i \in DOMAIN asks' : i \in DOMAIN asks \/ asks'[i] = r
        /\ \E i \in DOMAIN asks' : asks'[i] = r
    <2>1. /\ Append(asks, r) \in Seq(Request) /\ Len(Append(asks, r)) = Len(asks) + 1 /\ Len(asks) \in Nat
          /\ DOMAIN asks = 1..Len(asks) /\ DOMAIN Append(asks, r) = 1..(Len(asks) + 1)
          /\ \A i \in 1..Len(asks) : Append(asks, r)[i] = asks[i]
          /\ Append(asks, r)[Len(asks) + 1] = r
      BY <1>2
    <2>2. \A i \in 1..(Len(asks) + 1) : i \in 1..Len(asks) \/ i = Len(asks) + 1
      BY <2>1
    <2>3. 1..Len(asks) \subseteq 1..(Len(asks) + 1) /\ Len(asks) + 1 \in 1..(Len(asks) + 1)
      BY <2>1
    <2> DEFINE a == Append(asks, r)
               n == Len(asks) + 1
    <2>4. /\ a \in Seq(Request) /\ DOMAIN a = 1..n /\ a[n] = r /\ n \in 1..n
          /\ \A i \in 1..n : i \in DOMAIN asks \/ i = n
          /\ \A i \in DOMAIN asks : i \in 1..n /\ a[i] = asks[i]
      BY <2>1, <2>2, <2>3
    <2>5. asks' = a
      OBVIOUS
    <2> HIDE DEF a, n
    <2>6. QED
      BY <2>4, <2>5
  <1>6. MirrorTypeOK'
    BY <1>2, <1>5 DEF MirrorTypeOK
  <1>7. AsksKnown'
    BY <1>1, <1>2, <1>5 DEF AsksKnown, Informed
  <1>8. ASSUME NEW j \in Jobs
        PROVE  /\ StatusTold(j)' /\ QueueTold(j)' /\ JobShown(j)' /\ NotAhead(j)'
               /\ QueueOffered(j)' /\ FakeDue(j)' /\ Cleared(j)'
    <2>1. /\ StatusTold(j) /\ QueueTold(j) /\ JobShown(j) /\ NotAhead(j)
          /\ QueueOffered(j) /\ FakeDue(j) /\ Cleared(j)
      BY <1>2 DEF Informed
    <2>2. /\ Right(j)' = Right(j) /\ Wrong(j)' = Wrong(j) /\ Placed(j)' = Placed(j) /\ Stray(j)' = Stray(j)
          /\ Told(j)' = Told(j) /\ Def(j)' = Def(j) /\ Sta(j)' = Sta(j) /\ Of(j)' = Of(j)
          /\ Closing(j)' = Closing(j) /\ Initial(j)' = Initial(j) /\ Later(j)' = Later(j)
      BY <1>1, MessageSets
    <2>3. StatusTold(j)' /\ QueueTold(j)' /\ QueueOffered(j)'
      BY <1>1, <2>1, <2>2 DEF StatusTold, QueueTold, QueueOffered
    <2>4. JobShown(j)' /\ NotAhead(j)'
      BY <1>1, <2>1, <2>2 DEF JobShown, NotAhead
    <2>5. AskedRun(j) => AskedRun(j)'
      BY <1>5 DEF AskedRun
    <2>6. r.op = "run" /\ r.job = j => AskedRun(j)'
      BY <1>5 DEF AskedRun
    <2>7. Due(j)' <=> Due(j)
      BY <1>1 DEF Due
    <2>8. FakeDue(j)'
      BY <2>1, <2>2, <2>5, <2>6, <2>7 DEF FakeDue
    <2>9. status[j] # "none" => (j \in gui'.rows <=> j \in gui.rows)
      OBVIOUS
    <2>10. Cleared(j)'
      BY <1>1, <2>1, <2>2, <2>9 DEF Cleared
    <2>11. QED
      BY <2>3, <2>4, <2>8, <2>10
  <1>9. Informed' /\ Away'
    BY <1>7, <1>8 DEF Informed, Away
  <1>10. QED
    BY <1>2, <1>3, <1>4, <1>6, <1>9 DEF MInv

(* The client submits a flow: a fake job, and its row.                       *)
LEMMA AskRunStep ==
    ASSUME MInv, NEW j \in Jobs, NEW p \in Jobs \cup {NoParent}, AskRun(j, p)
    PROVE  MInv'
  <1> DEFINE r == [op |-> "run", job |-> j, after |-> p]
  <1>1. /\ status[j] = "none" /\ gui.on /\ ~gui.dead /\ UNCHANGED <<queueVars, wire, returns>>
        /\ asks' = Append(asks, r)
        /\ gui' = [gui EXCEPT !.temp = @ \cup {j}, !.rows = AddRow(j)]
    BY DEF AskRun, Asks
  <1>2. r \in Request /\ r.op = "run" /\ r.job = j
    BY DEF Request
  <1>3. gui \in Client
    BY DEF MInv, MirrorTypeOK
  <1>4. /\ gui' \in Client /\ gui'.table = gui.table /\ gui'.queueOf = gui.queueOf
        /\ gui'.queues = gui.queues /\ gui'.on = gui.on /\ gui'.dead = gui.dead
        /\ gui'.temp = gui.temp \cup {j} /\ gui'.rows = gui.rows \cup {j}
    BY <1>1, <1>3 DEF Client, AddRow
  <1>5. gui.table[j] = "none"
    BY <1>1 DEF MInv, Informed, NotAhead
  <1> HIDE DEF r
  <1>6. /\ gui.rows \subseteq gui'.rows /\ gui.temp \subseteq gui'.temp
        /\ \A x \in gui'.rows : x \in gui.rows \/ (status[x] = "none" /\ x \in gui'.temp)
        /\ \A x \in gui'.temp : x \in gui.temp \/ (r.op = "run" /\ r.job = x /\ gui.table[x] = "none")
    BY <1>1, <1>2, <1>4, <1>5
  <1>7. QED
    BY <1>1, <1>2, <1>4, <1>6, AskStep

(* The client asks to kill or to close a job that it shows.                  *)
LEMMA AskEndStep ==
    ASSUME MInv, NEW j \in Jobs, AskKill(j) \/ AskClose(j)
    PROVE  MInv'
  <1>1. PICK op \in {"kill", "close"} :
          /\ Asks(op, j, NoParent) /\ gui' = gui
          /\ gui.table[j] # "none" /\ (op = "close" => gui.table[j] \in {"initial", "stopped"})
    BY DEF AskKill, AskClose
  <1> DEFINE r == [op |-> op, job |-> j, after |-> NoParent]
  <1>2. gui.on /\ ~gui.dead /\ UNCHANGED <<queueVars, wire, returns>> /\ asks' = Append(asks, r)
    BY <1>1 DEF Asks
  <1>3. r \in Request /\ r.op = op /\ r.job = j
    BY DEF Request
  <1> HIDE DEF r
  <1>4. op = "close" => status[j] # "queued"
    BY <1>1, <1>2 DEF MInv, Informed, NotAhead, Fresh
  <1>5. gui' \in Client
    BY <1>1 DEF MInv, MirrorTypeOK
  <1>6. QED
    BY <1>1, <1>2, <1>3, <1>4, <1>5, AskStep

(* The connection is lost.                                                   *)
LEMMA GoesStep ==
    ASSUME MInv, ClientGoes
    PROVE  MInv'
  <1>1. /\ losses + returns < MaxFaults /\ returns' = returns + 1
        /\ gui' = [NewClient EXCEPT !.on = FALSE] /\ wire' = <<>> /\ asks' = <<>>
        /\ UNCHANGED queueVars
    BY DEF ClientGoes
  <1>2. UNCHANGED vars /\ UNCHANGED <<status, children, jobs, defQueue>>
    BY <1>1 DEF queueVars, vars, jobVars, runVars, listVars
  <1>3. QInv' /\ DefsSubmitted' /\ ChildrenQueued'
    BY <1>2, OtherInv DEF MInv, DefsSubmitted, ChildrenQueued
  <1>4. losses \in Nat /\ returns \in 0..MaxFaults /\ MaxFaults \in Nat
    BY MirrorAssumption, Types DEF MInv, MirrorTypeOK
  <1>5. returns' \in 0..MaxFaults /\ returns' > 0
    BY <1>1, <1>4
  <1>6. /\ gui' \in Client /\ gui'.rows = {} /\ gui'.temp = {} /\ gui'.on = FALSE
    BY <1>1 DEF NewClient, Client, Status
  <1>7. /\ wire' \in Seq(Proper) /\ wire' \in Seq(Message) /\ asks' \in Seq(Request)
    BY <1>1
  <1>8. MirrorTypeOK'
    BY <1>5, <1>6, <1>7 DEF MirrorTypeOK
  <1>9. Away'
    BY <1>1, <1>5 DEF Away, NewClient
  <1>10. QED
    BY <1>3, <1>6, <1>7, <1>8, <1>9 DEF MInv

(* The client comes back, and is sent every job of the table.                *)
LEMMA ReturnsStep ==
    ASSUME MInv, ClientReturns
    PROVE  MInv'
  <1>1. /\ ~gui.on /\ gui' = NewClient /\ ClientConnects /\ asks' = asks /\ returns' = returns
        /\ UNCHANGED <<status, children, jobs, defQueue, queue, phase>>
    BY DEF ClientReturns, ClientConnects, jobVars, runVars
  <1>2. PICK order \in SetToSeqs(jobs) : wire' = JobDefs(order)
    BY DEF ClientReturns
  <1>3. asks = <<>> /\ returns > 0 /\ QInv /\ returns \in 0..MaxFaults
    BY <1>1 DEF MInv, Away, MirrorTypeOK
  <1>4. QInv' /\ DefsSubmitted' /\ ChildrenQueued'
    BY <1>1, OtherInv DEF MInv, DefsSubmitted, ChildrenQueued
  <1>5. /\ jobs \in SUBSET Jobs /\ status \in [Jobs -> Status] /\ queue \in [Jobs -> Jobs \cup {NoParent}]
    BY <1>3, Types
  <1>6. order \in Seq(Jobs) /\ ToSet(order) = jobs
    BY <1>5, OrderElements
  <1>7. \A i \in DOMAIN order : status'[order[i]] # "none"
    <2>1. \A i \in DOMAIN order : order[i] \in jobs
      BY <1>6 DEF ToSet
    <2>2. \A x \in jobs : x \in Jobs /\ status[x] # "none"
      BY <1>3, <1>5, NotSubmitted
    <2>3. QED
      BY <1>1, <2>1, <2>2
  <1> DEFINE none == {}
  <1>8. Spoken(wire', jobs, none)
    <2>1. status' \in [Jobs -> Status] /\ queue' \in [Jobs -> Jobs \cup {NoParent}]
      BY <1>1, <1>5
    <2>2. Spoken(JobDefs(order), ToSet(order), {})
      BY <1>6, <1>7, <2>1, DefsSaid
    <2>3. QED
      BY <1>2, <1>6, <2>2
  <1>9. \A x : x \notin none
    OBVIOUS
  <1> HIDE DEF none
  <1>10. wire' \in Seq(Proper) /\ wire' \in Seq(Message)
    <2>1. wire' \in Seq(Proper)
      BY <1>8 DEF Spoken
    <2>2. \A w \in Seq(Proper) : w \in Seq(Message)
      BY DEF Proper
    <2>3. QED
      BY <2>1, <2>2
  <1>11. /\ gui' \in Client /\ gui'.rows = {} /\ gui'.temp = {} /\ gui'.queues = {} /\ gui'.on
         /\ \A x \in Jobs : gui'.table[x] = "none"
    BY <1>1 DEF NewClient, Client, Status
  <1>12. MirrorTypeOK'
    <2>1. asks' \in Seq(Request)
      BY <1>1, <1>3
    <2>2. QED
      BY <1>1, <1>3, <1>10, <1>11, <2>1 DEF MirrorTypeOK
  <1>13. Away'
    BY <1>11 DEF Away
  <1>14. AsksKnown'
    BY <1>1, <1>3 DEF AsksKnown
  <1>15. ASSUME NEW j \in Jobs
         PROVE  /\ StatusTold(j)' /\ QueueTold(j)' /\ JobShown(j)' /\ NotAhead(j)'
                /\ QueueOffered(j)' /\ FakeDue(j)' /\ Cleared(j)'
    <2> DEFINE u == wire'
    <2>1. /\ ~Has(u, Wrong(j)') /\ ~Has(u, Stray(j)') /\ ~Has(u, Closing(j)) /\ ~Has(u, Sta(j))
          /\ Has(u, Def(j)) <=> j \in jobs
          /\ Has(u, Of(j)) => j \in jobs
      BY <1>8, <1>9 DEF Spoken
    <2>2. \A K, L : ~Has(u, K) => Followed(u, K, L) /\ Preceded(u, K, L) /\ Behind(u, K, L) /\ Behind(u, L, K)
      BY NoneThere
    <2>3. u = wire'
      OBVIOUS
    <2> HIDE DEF u
    <2>4. StatusTold(j)' /\ QueueTold(j)'
      BY <1>11, <2>1, <2>2, <2>3 DEF StatusTold, QueueTold
    <2>5. JobShown(j)'
      BY <1>1, <1>11, <2>1, <2>2, <2>3, MessageSets DEF JobShown
    <2>6. NotAhead(j)'
      <3>1. status[j] = "none" => j \notin jobs
        BY <1>3, NotSubmitted
      <3>2. Has(u, Initial(j)) => status'[j] = "initial"
        <4>1. Initial(j) \subseteq Told(j) /\ Told(j) = Right(j)' \cup Wrong(j)'
          BY MessageSets
        <4>2. \A m \in Initial(j) : m \in Right(j)' => status'[j] = "initial"
          BY DEF Initial, Right
        <4>3. QED
          BY <2>1, <4>1, <4>2 DEF Has
      <3>3. status'[j] = "initial" => Later(j) \subseteq Wrong(j)'
        BY DEF Later, Wrong, Right, Initial, Told, Of
      <3>4. ~Has(u, Initial(j)) \/ ~Has(u, Later(j))
        BY <2>1, <3>2, <3>3, HasMore
      <3>5. Behind(u, Later(j), Initial(j))
        BY <2>2, <3>4
      <3>6. QED
        BY <1>1, <1>11, <2>1, <2>3, <3>1, <3>5, MessageSets DEF NotAhead
    <2>7. QueueOffered(j)' /\ FakeDue(j)' /\ Cleared(j)'
      BY <1>1, <1>3, <1>11 DEF QueueOffered, FakeDue, Cleared
    <2>8. QED
      BY <2>4, <2>5, <2>6, <2>7
  <1>16. Informed'
    BY <1>14, <1>15 DEF Informed
  <1>17. QED
    BY <1>4, <1>10, <1>12, <1>13, <1>16 DEF MInv

(* At the start nothing was submitted, and nothing is on its way.            *)
LEMMA InitMInv == MirrorInit => MInv
  <1> SUFFICES ASSUME MirrorInit PROVE MInv
    OBVIOUS
  <1>1. QInv
    BY InitQInv DEF MirrorInit
  <1>2. /\ gui = NewClient /\ wire = <<>> /\ asks = <<>> /\ returns = 0 /\ jobs = {} /\ defQueue = <<>>
        /\ status = [j \in Jobs |-> "none"]
    BY DEF MirrorInit, Init
  <1>3. /\ gui \in Client /\ gui.rows = {} /\ gui.temp = {} /\ gui.queues = {} /\ gui.on
        /\ \A x \in Jobs : gui.table[x] = "none"
    BY <1>2 DEF NewClient, Client, Status
  <1>4. /\ wire \in Seq(Proper) /\ wire \in Seq(Message) /\ asks \in Seq(Request) /\ returns \in 0..MaxFaults
    BY <1>2, MirrorAssumption
  <1>5. MirrorTypeOK
    BY <1>3, <1>4 DEF MirrorTypeOK
  <1>6. DefsSubmitted /\ ChildrenQueued /\ Away
    BY <1>2, <1>3 DEF DefsSubmitted, ChildrenQueued, Away
  <1>7. \A K : ~Has(wire, K)
    BY <1>2 DEF Has
  <1>8. \A K, L : Followed(wire, K, L) /\ Preceded(wire, K, L) /\ Behind(wire, K, L)
    BY <1>7, NoneThere
  <1>9. ASSUME NEW j \in Jobs
        PROVE  /\ StatusTold(j) /\ QueueTold(j) /\ JobShown(j) /\ NotAhead(j)
               /\ QueueOffered(j) /\ FakeDue(j) /\ Cleared(j)
    <2>1. status[j] = "none" /\ j \notin jobs
      BY <1>2
    <2>2. StatusTold(j) /\ QueueTold(j) /\ JobShown(j)
      BY <1>3, <1>8, <2>1 DEF StatusTold, QueueTold, JobShown
    <2>3. NotAhead(j) /\ QueueOffered(j) /\ FakeDue(j) /\ Cleared(j)
      BY <1>3, <1>7, <1>8, <2>1 DEF NotAhead, QueueOffered, FakeDue, Cleared
    <2>4. QED
      BY <2>2, <2>3
  <1>10. Informed
    BY <1>2, <1>9 DEF Informed, AsksKnown
  <1>11. QED
    BY <1>1, <1>4, <1>5, <1>6, <1>10 DEF MInv

-----------------------------------------------------------------------------
(* parse_messages: the client reads the first message.                       *)
Reads == wire # <<>> /\ wire' = Tail(wire) /\ UNCHANGED <<queueVars, asks, returns>>

(* What is known of the message that is read, and of those behind it.        *)
LEMMA ReadFacts ==
    ASSUME MInv, Reads, NEW m, m = Head(wire)
    PROVE  /\ m \in Proper /\ wire' \in Seq(Proper)
           /\ UNCHANGED <<status, jobs, queue, phase, children, defQueue, asks, returns>> /\ UNCHANGED vars
           /\ \A A : Has(wire, A) <=> m \in A \/ Has(wire', A)
           /\ \A A, B : Followed(wire, A, B) => Followed(wire', A, B) /\ (m \in A => Has(wire', B))
           /\ \A A, B : Preceded(wire, A, B) => m \notin A /\ (m \notin B => Preceded(wire', A, B))
           /\ \A A, B : Behind(wire, A, B) => Behind(wire', A, B) /\ (m \in A => ~Has(wire', B))
           /\ \A A, B : Then(wire, A, B) => Has(wire', B) /\ (m \notin A => Then(wire', A, B))
           /\ \A A, B, C : ThenFollowed(wire, A, B, C) =>
                             ThenFollowed(wire', A, B, C) /\ (m \in A => Then(wire', B, C))
  <1>1. wire \in Seq(Proper) /\ wire # <<>> /\ wire' = Tail(wire)
    BY DEF MInv, Reads
  <1>2. m \in Proper /\ wire' \in Seq(Proper)
    BY <1>1, TailIndex
  <1>3. UNCHANGED vars /\ UNCHANGED <<status, jobs, queue, phase, children, defQueue, asks, returns>>
    BY DEF Reads, queueVars, vars, jobVars, runVars, listVars
  <1>4. ASSUME NEW A, NEW B
        PROVE  /\ Has(wire, A) <=> m \in A \/ Has(wire', A)
               /\ Followed(wire, A, B) => Followed(wire', A, B) /\ (m \in A => Has(wire', B))
               /\ Preceded(wire, A, B) => m \notin A /\ (m \notin B => Preceded(wire', A, B))
               /\ Behind(wire, A, B) => Behind(wire', A, B) /\ (m \in A => ~Has(wire', B))
               /\ Then(wire, A, B) => Has(wire', B) /\ (m \notin A => Then(wire', A, B))
    BY <1>1, TailReads
  <1>5. ASSUME NEW A, NEW B, NEW C, ThenFollowed(wire, A, B, C)
        PROVE  ThenFollowed(wire', A, B, C) /\ (m \in A => Then(wire', B, C))
    BY <1>1, <1>5, ThenFollowedTail
  <1>6. QED
    BY <1>2, <1>3, <1>4, <1>5

(* Where the message belongs.                                                *)
LEMMA ReadSets ==
    ASSUME NEW m \in Proper, NEW j
    PROVE  /\ m.job # j => m \notin Of(j)
           /\ m.job = j => /\ m \in Of(j)
                           /\ m.type # "JCL" => m \in Told(j) /\ m \notin Closing(j) /\ m.status # "none"
                           /\ m.type = "JCL" => m \in Closing(j) /\ m \notin Told(j)
                           /\ m \in Def(j) <=> m.type = "JOB"
                           /\ m \in Sta(j) <=> m.type = "STA"
                           /\ m.type # "JCL" => /\ m \in Right(j) <=> m.status = status[j]
                                                /\ m \in Wrong(j) <=> m.status # status[j]
                                                /\ m \in Initial(j) <=> m.status = "initial"
                                                /\ m \in Later(j) <=> m.status # "initial"
                           /\ m.type = "JOB" => /\ m \in Placed(j) <=> m.queue = queue[j]
                                                /\ m \in Stray(j) <=> m.queue # queue[j]
           /\ m.job \in Jobs /\ m.type \in {"JOB", "STA", "JCL"} /\ m.status \in Status
           /\ m.queue \in Jobs \cup {NoParent}
  <1>1. /\ m \in Message /\ (m.type # "JCL" => m.status # "none")
        /\ m.job \in Jobs /\ m.type \in {"JOB", "STA", "JCL"} /\ m.status \in Status
        /\ m.queue \in Jobs \cup {NoParent}
    BY DEF Proper, Message
  <1>2. m \in Of(j) <=> m.job = j
    BY <1>1 DEF Of
  <1>3. /\ m \in Told(j) <=> m.job = j /\ m.type # "JCL"
        /\ m \in Closing(j) <=> m.job = j /\ m.type = "JCL"
        /\ m \in Def(j) <=> m.job = j /\ m.type = "JOB"
        /\ m \in Sta(j) <=> m.job = j /\ m.type = "STA"
    BY <1>2 DEF Told, Closing, Def, Sta
  <1>4. /\ m \in Right(j) <=> m \in Told(j) /\ m.status = status[j]
        /\ m \in Wrong(j) <=> m \in Told(j) /\ m.status # status[j]
        /\ m \in Initial(j) <=> m \in Told(j) /\ m.status = "initial"
        /\ m \in Later(j) <=> m \in Told(j) /\ m.status # "initial"
    BY DEF Right, Wrong, Initial, Later
  <1>5. /\ m \in Placed(j) <=> m \in Def(j) /\ m.queue = queue[j]
        /\ m \in Stray(j) <=> m \in Def(j) /\ m.queue # queue[j]
    BY DEF Placed, Stray
  <1>6. QED
    BY <1>1, <1>2, <1>3, <1>4, <1>5

(* What the client has of the other jobs stays, and what is on its way.      *)
LEMMA ReadOther ==
    ASSUME MInv, gui.on, ~gui.dead, Reads, NEW j \in Jobs, Head(wire).job # j,
           gui'.table[j] = gui.table[j], gui'.queueOf[j] = gui.queueOf[j],
           j \in gui'.rows <=> j \in gui.rows, j \in gui'.temp <=> j \in gui.temp,
           j \in gui'.queues <=> j \in gui.queues
    PROVE  /\ StatusTold(j)' /\ QueueTold(j)' /\ JobShown(j)' /\ NotAhead(j)'
           /\ QueueOffered(j)' /\ FakeDue(j)' /\ Cleared(j)'
  <1> DEFINE m == Head(wire)
  <1>1. /\ StatusTold(j) /\ QueueTold(j) /\ JobShown(j) /\ NotAhead(j)
        /\ QueueOffered(j) /\ FakeDue(j) /\ Cleared(j)
    BY DEF MInv, Informed
  <1>2. m \in Proper /\ UNCHANGED <<status, jobs, queue, phase, asks, returns>>
    BY ReadFacts
  <1> HIDE DEF m
  <1>3. /\ \A A : Has(wire, A) <=> m \in A \/ Has(wire', A)
        /\ \A A, B : Followed(wire, A, B) => Followed(wire', A, B) /\ (m \in A => Has(wire', B))
        /\ \A A, B : Preceded(wire, A, B) => m \notin A /\ (m \notin B => Preceded(wire', A, B))
        /\ \A A, B : Behind(wire, A, B) => Behind(wire', A, B) /\ (m \in A => ~Has(wire', B))
        /\ \A A, B : Then(wire, A, B) => Has(wire', B) /\ (m \notin A => Then(wire', A, B))
        /\ \A A, B, C : ThenFollowed(wire, A, B, C) =>
                          ThenFollowed(wire', A, B, C) /\ (m \in A => Then(wire', B, C))
    BY ReadFacts DEF m
  <1>4. m \notin Of(j)
    BY <1>2, ReadSets DEF m
  <1>5. /\ m \notin Told(j) /\ m \notin Closing(j) /\ m \notin Def(j) /\ m \notin Sta(j)
        /\ m \notin Right(j) /\ m \notin Wrong(j) /\ m \notin Placed(j) /\ m \notin Stray(j)
        /\ m \notin Initial(j) /\ m \notin Later(j)
    BY <1>4, MessageSets
  <1>6. /\ Right(j)' = Right(j) /\ Wrong(j)' = Wrong(j) /\ Placed(j)' = Placed(j) /\ Stray(j)' = Stray(j)
        /\ Told(j)' = Told(j) /\ Def(j)' = Def(j) /\ Sta(j)' = Sta(j) /\ Of(j)' = Of(j)
        /\ Closing(j)' = Closing(j) /\ Initial(j)' = Initial(j) /\ Later(j)' = Later(j)
    BY <1>2, MessageSets
  <1>7. StatusTold(j)' /\ QueueTold(j)'
    BY <1>1, <1>2, <1>3, <1>5, <1>6 DEF StatusTold, QueueTold
  <1>8. JobShown(j)' /\ NotAhead(j)'
    BY <1>1, <1>2, <1>3, <1>4, <1>5, <1>6 DEF JobShown, NotAhead
  <1>9. (AskedRun(j)' <=> AskedRun(j)) /\ (Due(j)' <=> Due(j))
    BY <1>2 DEF AskedRun, Due
  <1>10. QueueOffered(j)' /\ FakeDue(j)'
    BY <1>1, <1>3, <1>5, <1>6, <1>9 DEF QueueOffered, FakeDue
  <1>11. Cleared(j)'
    BY <1>1, <1>2, <1>3, <1>5, <1>6 DEF Cleared
  <1>12. QED
    BY <1>7, <1>8, <1>10, <1>11

(* A JOB or a STA of the job that is known, or becomes known by it.          *)
LEMMA ReadTold ==
    ASSUME MInv, gui.on, ~gui.dead, Reads, NEW m, m = Head(wire), NEW j \in Jobs, m.job = j,
           m.type \in {"JOB", "STA"}, m.type = "STA" => gui.table[j] # "none",
           gui'.table[j] = m.status,
           gui'.queueOf[j] = IF m.type = "JOB" THEN m.queue ELSE gui.queueOf[j],
           j \in gui'.rows <=>
             j \in gui.rows \/ (m.type = "JOB" /\ (gui.table[j] = "none" \/ gui.queueOf[j] # m.queue)),
           j \in gui'.temp => j \in gui.temp /\ m.type # "JOB",
           m.status = "stopped" => j \notin gui'.queues,
           m.status \in {"queued", "running"} => j \in gui'.queues,
           m.status = "initial" => (j \in gui'.queues <=> j \in gui.queues)
    PROVE  /\ StatusTold(j)' /\ QueueTold(j)' /\ JobShown(j)' /\ NotAhead(j)'
           /\ QueueOffered(j)' /\ FakeDue(j)' /\ Cleared(j)'
  <1>1. /\ StatusTold(j) /\ QueueTold(j) /\ JobShown(j) /\ NotAhead(j)
        /\ QueueOffered(j) /\ FakeDue(j) /\ Cleared(j)
    BY DEF MInv, Informed
  <1>2. m \in Proper /\ UNCHANGED <<status, jobs, queue, phase, asks, returns>>
    BY ReadFacts
  <1>3. /\ \A A : Has(wire, A) <=> m \in A \/ Has(wire', A)
        /\ \A A, B : Followed(wire, A, B) => Followed(wire', A, B) /\ (m \in A => Has(wire', B))
        /\ \A A, B : Behind(wire, A, B) => Behind(wire', A, B) /\ (m \in A => ~Has(wire', B))
        /\ \A A, B : Then(wire, A, B) => Has(wire', B) /\ (m \notin A => Then(wire', A, B))
        /\ \A A, B, C : ThenFollowed(wire, A, B, C) =>
                          ThenFollowed(wire', A, B, C) /\ (m \in A => Then(wire', B, C))
    BY ReadFacts
  <1>4. /\ m \in Of(j) /\ m \in Told(j) /\ m \notin Closing(j) /\ m.status # "none"
        /\ m \in Def(j) <=> m.type = "JOB"
        /\ m \in Wrong(j) <=> m.status # status[j]
        /\ m \in Initial(j) <=> m.status = "initial"
        /\ m \in Later(j) <=> m.status # "initial"
        /\ m.type = "JOB" => /\ m \in Placed(j) <=> m.queue = queue[j]
                             /\ m \in Stray(j) <=> m.queue # queue[j]
        /\ m.status \in Status
    BY <1>2, ReadSets
  <1>5. m.type # "JOB" => m \notin Placed(j) /\ m \notin Stray(j)
    BY <1>4, MessageSets
  <1>6. /\ Right(j)' = Right(j) /\ Wrong(j)' = Wrong(j) /\ Placed(j)' = Placed(j) /\ Stray(j)' = Stray(j)
        /\ Told(j)' = Told(j) /\ Def(j)' = Def(j) /\ Sta(j)' = Sta(j) /\ Of(j)' = Of(j)
        /\ Closing(j)' = Closing(j) /\ Initial(j)' = Initial(j) /\ Later(j)' = Later(j)
    BY <1>2, MessageSets
  <1>7. StatusTold(j)'
    BY <1>1, <1>2, <1>3, <1>4, <1>6 DEF StatusTold
  <1>8. QueueTold(j)'
    BY <1>1, <1>2, <1>3, <1>4, <1>5, <1>6 DEF QueueTold
  <1>9. JobShown(j)'
    BY <1>1, <1>2, <1>3, <1>4, <1>6 DEF JobShown
  <1>10. NotAhead(j)'
    BY <1>1, <1>2, <1>3, <1>4, <1>6 DEF NotAhead
  <1>11. QueueOffered(j)'
    BY <1>1, <1>3, <1>4 DEF QueueOffered, NotAhead, Status
  <1>12. FakeDue(j)'
    <2>1. j \in gui.temp => gui.table[j] = "none"
      BY DEF MInv, MirrorTypeOK
    <2>2. j \notin gui'.temp
      BY <2>1
    <2>3. QED
      BY <2>2 DEF FakeDue
  <1>13. Cleared(j)'
    <2> SUFFICES ASSUME returns = 0, j \notin jobs, status[j] # "none"
                 PROVE  /\ gui'.table[j] # "none" /\ status[j] # "queued"
                        /\ j \in gui'.rows => Has(wire', Closing(j))
                        /\ ThenFollowed(wire', Stray(j), Placed(j), Closing(j))
                        /\ gui'.queueOf[j] # queue[j] => Then(wire', Placed(j), Closing(j))
      BY <1>2, <1>6 DEF Cleared
    <2>1. /\ gui.table[j] # "none" /\ status[j] # "queued"
          /\ j \in gui.rows => Has(wire, Closing(j))
          /\ ThenFollowed(wire, Stray(j), Placed(j), Closing(j))
          /\ gui.queueOf[j] # queue[j] => Then(wire, Placed(j), Closing(j))
      BY <1>1 DEF Cleared
    <2>2. ThenFollowed(wire', Stray(j), Placed(j), Closing(j))
      BY <1>3, <2>1
    <2>3. m \in Stray(j) => Then(wire', Placed(j), Closing(j))
      BY <1>3, <2>1
    <2>4. gui'.queueOf[j] # queue[j] => Then(wire', Placed(j), Closing(j))
      BY <1>3, <1>4, <1>5, <2>1, <2>3
    <2>5. \A A, B : Then(wire', A, B) => Has(wire', B)
      BY DEF Then, Has
    <2>6. j \in gui'.rows => Has(wire', Closing(j))
      BY <1>3, <1>4, <2>1, <2>3, <2>5
    <2>7. QED
      BY <1>4, <2>1, <2>2, <2>4, <2>6
  <1>14. QED
    BY <1>7, <1>8, <1>9, <1>10, <1>11, <1>12, <1>13

(* A JCL of the job.                                                         *)
LEMMA ReadClosing ==
    ASSUME MInv, gui.on, ~gui.dead, Reads, NEW m, m = Head(wire), NEW j \in Jobs, m.job = j,
           m.type = "JCL", gui'.table = gui.table, gui'.queueOf = gui.queueOf,
           gui'.temp = gui.temp, gui'.queues = gui.queues, gui'.rows \subseteq gui.rows,
           gui.table[j] # "none" => j \notin gui'.rows
    PROVE  /\ StatusTold(j)' /\ QueueTold(j)' /\ JobShown(j)' /\ NotAhead(j)'
           /\ QueueOffered(j)' /\ FakeDue(j)' /\ Cleared(j)'
  <1>1. /\ StatusTold(j) /\ QueueTold(j) /\ JobShown(j) /\ NotAhead(j)
        /\ QueueOffered(j) /\ FakeDue(j) /\ Cleared(j)
    BY DEF MInv, Informed
  <1>2. m \in Proper /\ UNCHANGED <<status, jobs, queue, phase, asks, returns>>
    BY ReadFacts
  <1>3. /\ \A A : Has(wire, A) <=> m \in A \/ Has(wire', A)
        /\ \A A, B : Followed(wire, A, B) => Followed(wire', A, B) /\ (m \in A => Has(wire', B))
        /\ \A A, B : Behind(wire, A, B) => Behind(wire', A, B) /\ (m \in A => ~Has(wire', B))
        /\ \A A, B : Then(wire, A, B) => Has(wire', B) /\ (m \notin A => Then(wire', A, B))
        /\ \A A, B, C : ThenFollowed(wire, A, B, C) =>
                          ThenFollowed(wire', A, B, C) /\ (m \in A => Then(wire', B, C))
    BY ReadFacts
  <1>4. m \in Of(j) /\ m \in Closing(j) /\ m \notin Told(j)
    BY <1>2, ReadSets
  <1>5. /\ m \notin Def(j) /\ m \notin Sta(j) /\ m \notin Right(j) /\ m \notin Wrong(j)
        /\ m \notin Placed(j) /\ m \notin Stray(j) /\ m \notin Initial(j) /\ m \notin Later(j)
    BY <1>4, MessageSets
  <1>6. /\ Right(j)' = Right(j) /\ Wrong(j)' = Wrong(j) /\ Placed(j)' = Placed(j) /\ Stray(j)' = Stray(j)
        /\ Told(j)' = Told(j) /\ Def(j)' = Def(j) /\ Sta(j)' = Sta(j) /\ Of(j)' = Of(j)
        /\ Closing(j)' = Closing(j) /\ Initial(j)' = Initial(j) /\ Later(j)' = Later(j)
    BY <1>2, MessageSets
  <1>7. StatusTold(j)' /\ QueueTold(j)'
    BY <1>1, <1>2, <1>3, <1>5, <1>6 DEF StatusTold, QueueTold
  <1>8. j \notin jobs /\ JobShown(j)'
    BY <1>1, <1>2, <1>3, <1>4 DEF JobShown
  <1>9. NotAhead(j)'
    BY <1>1, <1>2, <1>3, <1>4, <1>5, <1>6 DEF NotAhead
  <1>10. (AskedRun(j)' <=> AskedRun(j)) /\ (Due(j)' <=> Due(j))
    BY <1>2 DEF AskedRun, Due
  <1>11. QueueOffered(j)' /\ FakeDue(j)'
    BY <1>1, <1>3, <1>4, <1>6, <1>10 DEF QueueOffered, FakeDue
  <1>12. Cleared(j)'
    BY <1>1, <1>2, <1>3, <1>5, <1>6 DEF Cleared
  <1>13. QED
    BY <1>7, <1>8, <1>9, <1>11, <1>12

(* What becomes of the client by a message.                                  *)
LEMMA OnJobEffect ==
    ASSUME gui \in Client, NEW m \in Message, gui' = OnJob(m), NEW j, j = m.job
    PROVE  /\ gui' \in Client /\ gui'.on = gui.on /\ gui'.dead = gui.dead
           /\ gui'.table[j] = m.status /\ gui'.queueOf[j] = m.queue
           /\ \A x \in Jobs : x # j => gui'.table[x] = gui.table[x] /\ gui'.queueOf[x] = gui.queueOf[x]
           /\ gui'.temp = gui.temp \ {j}
           /\ gui'.rows = gui.rows \cup IF gui.table[j] = "none" \/ gui.queueOf[j] # m.queue THEN {j} ELSE {}
           /\ gui'.queues = UpdateQueuesModel(j, m.status)
  <1>1. /\ m.job \in Jobs /\ m.status \in Status /\ m.queue \in Jobs \cup {NoParent}
    BY DEF Message
  <1>2. /\ gui.table \in [Jobs -> Status] /\ gui.queueOf \in [Jobs -> Jobs \cup {NoParent}]
        /\ gui.temp \in SUBSET Jobs /\ gui.rows \in SUBSET Jobs /\ gui.queues \in SUBSET Jobs
        /\ gui.on \in BOOLEAN /\ gui.dead \in BOOLEAN
    BY DEF Client
  <1>3. UpdateQueuesModel(j, m.status) \in SUBSET Jobs
    BY <1>1, <1>2 DEF UpdateQueuesModel, Status
  <1> DEFINE t == [gui.table EXCEPT ![j] = m.status]
             o == [gui.queueOf EXCEPT ![j] = m.queue]
             define == gui.table[j] = "none" \/ gui.queueOf[j] # m.queue
             rows == IF define THEN AddRow(j) ELSE gui.rows
             offers == UpdateQueuesModel(j, m.status)
  <1>4. /\ gui' = [gui EXCEPT !.table = t, !.queueOf = o, !.temp = gui.temp \ {j},
                              !.rows = rows, !.queues = offers]
    BY DEF OnJob
  <1>5. rows = gui.rows \cup (IF define THEN {j} ELSE {}) /\ rows \in SUBSET Jobs
    BY <1>1, <1>2 DEF AddRow
  <1>6. /\ t \in [Jobs -> Status] /\ t[j] = m.status /\ \A x \in Jobs : x # j => t[x] = gui.table[x]
        /\ o \in [Jobs -> Jobs \cup {NoParent}] /\ o[j] = m.queue
        /\ \A x \in Jobs : x # j => o[x] = gui.queueOf[x]
    BY <1>1, <1>2
  <1> HIDE DEF t, o, rows, offers
  <1>7. /\ gui'.table = t /\ gui'.queueOf = o /\ gui'.temp = gui.temp \ {j} /\ gui'.rows = rows
        /\ gui'.queues = offers /\ gui'.on = gui.on /\ gui'.dead = gui.dead
    BY <1>4 DEF Client
  <1>8. gui' \in Client
    <2>1. gui.temp \ {j} \in SUBSET Jobs /\ rows \in SUBSET Jobs /\ offers \in SUBSET Jobs
      BY <1>2, <1>3, <1>5 DEF offers
    <2>2. gui' = [on |-> gui.on, table |-> t, queueOf |-> o, temp |-> gui.temp \ {j},
                  rows |-> rows, queues |-> offers, dead |-> gui.dead]
      BY <1>4 DEF Client
    <2> HIDE DEF define
    <2>3. QED
      BY <1>2, <1>6, <2>1, <2>2 DEF Client
  <1>9. QED
    BY <1>5, <1>6, <1>7, <1>8 DEF offers

(* What the status of a job that the client knows changes.                   *)
LEMMA OnStaEffect ==
    ASSUME gui \in Client, NEW m \in Message, gui' = OnSta(m), NEW j, j = m.job, gui.table[j] # "none"
    PROVE  /\ gui' \in Client /\ gui'.on = gui.on /\ gui'.dead = gui.dead
           /\ gui'.table[j] = m.status /\ gui'.queueOf = gui.queueOf
           /\ \A x \in Jobs : x # j => gui'.table[x] = gui.table[x]
           /\ gui'.temp = gui.temp /\ gui'.rows = gui.rows
           /\ gui'.queues = UpdateQueuesModel(j, m.status)
  <1>1. m.job \in Jobs /\ m.status \in Status
    BY DEF Message
  <1>2. /\ gui.table \in [Jobs -> Status] /\ gui.queues \in SUBSET Jobs
        /\ gui.on \in BOOLEAN /\ gui.dead \in BOOLEAN
    BY DEF Client
  <1>3. UpdateQueuesModel(j, m.status) \in SUBSET Jobs
    BY <1>1, <1>2 DEF UpdateQueuesModel, Status
  <1> DEFINE t == [gui.table EXCEPT ![j] = m.status]
             offers == UpdateQueuesModel(j, m.status)
  <1>4. gui' = [gui EXCEPT !.table = t, !.queues = offers]
    BY DEF OnSta
  <1>5. /\ t \in [Jobs -> Status] /\ t[j] = m.status /\ \A x \in Jobs : x # j => t[x] = gui.table[x]
    BY <1>1, <1>2
  <1> HIDE DEF t, offers
  <1>6. /\ gui'.table = t /\ gui'.queueOf = gui.queueOf /\ gui'.temp = gui.temp /\ gui'.rows = gui.rows
        /\ gui'.queues = offers /\ gui'.on = gui.on /\ gui'.dead = gui.dead
    BY <1>4 DEF Client
  <1>7. gui' \in Client
    BY <1>2, <1>3, <1>4, <1>5 DEF Client, offers
  <1>8. QED
    BY <1>5, <1>6, <1>7 DEF offers

(* The queues on offer after a status (update_queues_model).                 *)
LEMMA OffersOf ==
    ASSUME NEW j, NEW st, NEW offers, offers = UpdateQueuesModel(j, st)
    PROVE  /\ st = "stopped" => j \notin offers
           /\ st \in {"queued", "running"} => j \in offers
           /\ st = "initial" => (j \in offers <=> j \in gui.queues)
           /\ \A x : x # j => (x \in offers <=> x \in gui.queues)
  <1>1. CASE st = "stopped"
    <2>1. offers = gui.queues \ {j}
      BY <1>1 DEF UpdateQueuesModel
    <2>2. QED
      BY <1>1, <2>1
  <1>2. CASE st \in {"queued", "running"}
    <2>1. offers = gui.queues \cup {j}
      BY <1>2 DEF UpdateQueuesModel
    <2>2. QED
      BY <1>2, <2>1
  <1>3. CASE st \notin {"stopped", "queued", "running"}
    <2>1. offers = gui.queues
      BY <1>3 DEF UpdateQueuesModel
    <2>2. QED
      BY <1>3, <2>1
  <1>4. QED
    BY <1>1, <1>2, <1>3

(* The client knows as much of the jobs as before.                           *)
LEMMA ReadStep ==
    ASSUME MInv, gui.on, Reads, gui' \in Client, gui'.on,
           \A x \in Jobs : gui'.table[x] = "none" => gui.table[x] = "none",
           \A x \in gui'.rows : x \in gui'.temp \/ gui'.table[x] # "none",
           \A x \in gui'.temp : gui'.table[x] = "none",
           gui'.dead \/ \A x \in Jobs :
              /\ StatusTold(x)' /\ QueueTold(x)' /\ JobShown(x)' /\ NotAhead(x)'
              /\ QueueOffered(x)' /\ FakeDue(x)' /\ Cleared(x)',
           ~gui.dead
    PROVE  MInv'
  <1> DEFINE m == Head(wire)
  <1>1. /\ m \in Proper /\ wire' \in Seq(Proper) /\ UNCHANGED vars
        /\ UNCHANGED <<status, jobs, children, defQueue, asks, returns>>
    BY ReadFacts
  <1> HIDE DEF m
  <1>2. QInv'
    BY <1>1, OtherInv DEF MInv
  <1>3. DefsSubmitted' /\ ChildrenQueued'
    BY <1>1 DEF MInv, DefsSubmitted, ChildrenQueued
  <1>4. wire' \in Seq(Message)
    <2>1. \A w \in Seq(Proper) : w \in Seq(Message)
      BY DEF Proper
    <2>2. QED
      BY <1>1, <2>1
  <1>5. asks \in Seq(Request) /\ returns \in 0..MaxFaults
    BY DEF MInv, MirrorTypeOK
  <1>6. MirrorTypeOK'
    BY <1>1, <1>4, <1>5 DEF MirrorTypeOK
  <1>7. Away'
    BY DEF Away
  <1>8. \A i \in DOMAIN asks : asks[i].job \in Jobs
    <2>1. \A i \in DOMAIN asks : asks[i] \in Request
      BY <1>5
    <2>2. QED
      BY <2>1 DEF Request
  <1>9. AsksKnown'
    BY <1>1, <1>8 DEF MInv, Informed, AsksKnown
  <1>10. ~gui'.dead => Informed'
    BY <1>9 DEF Informed
  <1>11. QED
    BY <1>1, <1>2, <1>3, <1>6, <1>7, <1>10 DEF MInv

(* parse_messages of the client, whichever message it reads.                 *)
LEMMA ReceiveStep ==
    ASSUME MInv, Receive
    PROVE  MInv'
  <1> DEFINE m == Head(wire)
             j == m.job
  <1>1. /\ gui.on /\ ~gui.dead /\ Reads
        /\ gui' = CASE m.type = "JOB" -> OnJob(m)
                    [] m.type = "STA" -> OnSta(m)
                    [] m.type = "JCL" -> OnJcl(m)
    BY DEF Receive, Reads
  <1>2. /\ gui \in Client
        /\ \A x \in gui.rows : x \in gui.temp \/ gui.table[x] # "none"
        /\ \A x \in gui.temp : gui.table[x] = "none"
        /\ gui.rows \subseteq Jobs /\ gui.temp \subseteq Jobs
    BY DEF MInv, MirrorTypeOK, Client
  <1>3. m \in Proper
    BY <1>1, ReadFacts
  <1>4. /\ m \in Message /\ j \in Jobs /\ m.type \in {"JOB", "STA", "JCL"} /\ m.status \in Status
        /\ m.type # "JCL" => m.status # "none"
    BY <1>3 DEF Proper, Message
  <1> HIDE DEF m, j
  <1>5. j = m.job /\ m = Head(wire)
    BY DEF m, j
  <1>6. CASE m.type = "JOB"
    <2>1. gui' = OnJob(m)
      BY <1>1, <1>6
    <2>2. /\ gui' \in Client /\ gui'.on = gui.on /\ gui'.dead = gui.dead
          /\ gui'.table[j] = m.status /\ gui'.queueOf[j] = m.queue
          /\ \A x \in Jobs : x # j => gui'.table[x] = gui.table[x] /\ gui'.queueOf[x] = gui.queueOf[x]
          /\ gui'.temp = gui.temp \ {j}
          /\ gui'.rows = gui.rows \cup IF gui.table[j] = "none" \/ gui.queueOf[j] # m.queue THEN {j} ELSE {}
          /\ gui'.queues = UpdateQueuesModel(j, m.status)
      BY <1>2, <1>4, <1>5, <2>1, OnJobEffect
    <2>3. /\ m.status = "stopped" => j \notin gui'.queues
          /\ m.status \in {"queued", "running"} => j \in gui'.queues
          /\ m.status = "initial" => (j \in gui'.queues <=> j \in gui.queues)
          /\ \A x : x # j => (x \in gui'.queues <=> x \in gui.queues)
      BY <2>2, OffersOf
    <2>4. /\ j \in gui'.rows <=> j \in gui.rows \/ gui.table[j] = "none" \/ gui.queueOf[j] # m.queue
          /\ \A x : x # j => (x \in gui'.rows <=> x \in gui.rows) /\ (x \in gui'.temp <=> x \in gui.temp)
          /\ j \notin gui'.temp
      BY <2>2
    <2>5. ASSUME NEW x \in Jobs
          PROVE  /\ StatusTold(x)' /\ QueueTold(x)' /\ JobShown(x)' /\ NotAhead(x)'
                 /\ QueueOffered(x)' /\ FakeDue(x)' /\ Cleared(x)'
      <3>1. CASE x = j
        <4>1. /\ m.job = x /\ gui'.table[x] = m.status /\ gui'.queueOf[x] = m.queue
              /\ x \in gui'.rows <=> x \in gui.rows \/ gui.table[x] = "none" \/ gui.queueOf[x] # m.queue
              /\ x \notin gui'.temp
              /\ m.status = "stopped" => x \notin gui'.queues
              /\ m.status \in {"queued", "running"} => x \in gui'.queues
              /\ m.status = "initial" => (x \in gui'.queues <=> x \in gui.queues)
          BY <1>5, <2>2, <2>3, <2>4, <3>1
        <4>2. QED
          BY <1>1, <1>5, <1>6, <4>1, ReadTold
      <3>2. CASE x # j
        <4>1. /\ Head(wire).job # x
              /\ gui'.table[x] = gui.table[x] /\ gui'.queueOf[x] = gui.queueOf[x]
              /\ x \in gui'.rows <=> x \in gui.rows
              /\ x \in gui'.temp <=> x \in gui.temp
              /\ x \in gui'.queues <=> x \in gui.queues
          BY <1>5, <2>2, <2>3, <2>4, <3>2
        <4>2. QED
          BY <1>1, <4>1, ReadOther
      <3>3. QED
        BY <3>1, <3>2
    <2>6. /\ \A x \in Jobs : gui'.table[x] = "none" => gui.table[x] = "none"
          /\ \A x \in gui'.rows : x \in gui'.temp \/ gui'.table[x] # "none"
          /\ \A x \in gui'.temp : gui'.table[x] = "none"
      <3>1. \A x \in Jobs : gui'.table[x] = "none" => x # j /\ gui.table[x] = "none"
        BY <1>4, <1>6, <2>2
      <3>2. gui'.rows \subseteq Jobs /\ gui'.temp \subseteq Jobs
        BY <2>2 DEF Client
      <3>3. \A x \in gui'.temp : x # j /\ x \in gui.temp /\ x \in Jobs
        BY <2>4, <3>2
      <3>4. \A x \in gui'.rows : x # j => x \in gui.rows /\ x \in Jobs
        BY <2>4, <3>2
      <3>5. \A x \in gui'.temp : gui'.table[x] = "none"
        BY <1>2, <2>2, <3>3
      <3>6. gui'.table[j] # "none"
        BY <1>4, <1>6, <2>2
      <3>7. \A x \in gui'.rows : x \in gui'.temp \/ gui'.table[x] # "none"
        BY <1>2, <2>2, <2>4, <3>4, <3>6
      <3>8. QED
        BY <3>1, <3>5, <3>7
    <2>7. gui' \in Client /\ gui'.on
      BY <1>1, <2>2
    <2>8. QED
      BY <1>1, <2>5, <2>6, <2>7, ReadStep
  <1>7. CASE m.type = "STA" /\ gui.table[j] # "none"
    <2>1. gui' = OnSta(m)
      BY <1>1, <1>7
    <2>2. /\ gui' \in Client /\ gui'.on = gui.on /\ gui'.dead = gui.dead
          /\ gui'.table[j] = m.status /\ gui'.queueOf = gui.queueOf
          /\ \A x \in Jobs : x # j => gui'.table[x] = gui.table[x]
          /\ gui'.temp = gui.temp /\ gui'.rows = gui.rows
          /\ gui'.queues = UpdateQueuesModel(j, m.status)
      BY <1>2, <1>4, <1>5, <1>7, <2>1, OnStaEffect
    <2>3. /\ m.status = "stopped" => j \notin gui'.queues
          /\ m.status \in {"queued", "running"} => j \in gui'.queues
          /\ m.status = "initial" => (j \in gui'.queues <=> j \in gui.queues)
          /\ \A x : x # j => (x \in gui'.queues <=> x \in gui.queues)
      BY <2>2, OffersOf
    <2>4. ASSUME NEW x \in Jobs
          PROVE  /\ StatusTold(x)' /\ QueueTold(x)' /\ JobShown(x)' /\ NotAhead(x)'
                 /\ QueueOffered(x)' /\ FakeDue(x)' /\ Cleared(x)'
      <3>1. CASE x = j
        <4>1. /\ m.job = x /\ gui.table[x] # "none" /\ m.type # "JOB" /\ m.type \in {"JOB", "STA"}
              /\ gui'.table[x] = m.status /\ gui'.queueOf[x] = gui.queueOf[x]
              /\ x \in gui'.rows <=> x \in gui.rows
              /\ x \in gui'.temp => x \in gui.temp
              /\ m.status = "stopped" => x \notin gui'.queues
              /\ m.status \in {"queued", "running"} => x \in gui'.queues
              /\ m.status = "initial" => (x \in gui'.queues <=> x \in gui.queues)
          BY <1>5, <1>7, <2>2, <2>3, <3>1
        <4>2. QED
          BY <1>1, <1>5, <4>1, ReadTold
      <3>2. CASE x # j
        <4>1. /\ Head(wire).job # x
              /\ gui'.table[x] = gui.table[x] /\ gui'.queueOf[x] = gui.queueOf[x]
              /\ x \in gui'.rows <=> x \in gui.rows
              /\ x \in gui'.temp <=> x \in gui.temp
              /\ x \in gui'.queues <=> x \in gui.queues
          BY <1>5, <2>2, <2>3, <3>2
        <4>2. QED
          BY <1>1, <4>1, ReadOther
      <3>3. QED
        BY <3>1, <3>2
    <2>5. /\ \A x \in Jobs : gui'.table[x] = "none" <=> gui.table[x] = "none"
          /\ \A x \in gui'.rows : x \in Jobs
          /\ \A x \in gui'.temp : x \in Jobs
      BY <1>2, <1>4, <1>7, <2>2
    <2>6. /\ \A x \in gui'.rows : x \in gui'.temp \/ gui'.table[x] # "none"
          /\ \A x \in gui'.temp : gui'.table[x] = "none"
      BY <1>2, <2>2, <2>5
    <2>7. gui' \in Client /\ gui'.on
      BY <1>1, <2>2
    <2>8. QED
      BY <1>1, <2>4, <2>5, <2>6, <2>7, ReadStep
  <1>8. CASE m.type = "STA" /\ gui.table[j] = "none"
    <2>1. gui' = [gui EXCEPT !.dead = TRUE]
      BY <1>1, <1>5, <1>8 DEF OnSta
    <2>2. /\ gui' \in Client /\ gui'.on = gui.on /\ gui'.dead
          /\ gui'.table = gui.table /\ gui'.rows = gui.rows /\ gui'.temp = gui.temp
      BY <1>2, <2>1 DEF Client
    <2>3. /\ \A x \in gui'.rows : x \in gui'.temp \/ gui'.table[x] # "none"
          /\ \A x \in gui'.temp : gui'.table[x] = "none"
          /\ \A x \in Jobs : gui'.table[x] = "none" => gui.table[x] = "none"
      BY <1>2, <2>2
    <2>4. QED
      BY <1>1, <2>2, <2>3, ReadStep
  <1>9. CASE m.type = "JCL"
    <2>1. gui' = IF gui.table[j] = "none" THEN gui ELSE [gui EXCEPT !.rows = gui.rows \ {j}]
      BY <1>1, <1>5, <1>9 DEF OnJcl
    <2>2. /\ gui' \in Client /\ gui'.on = gui.on /\ gui'.dead = gui.dead
          /\ gui'.table = gui.table /\ gui'.temp = gui.temp
          /\ gui'.queueOf = gui.queueOf /\ gui'.queues = gui.queues
          /\ gui'.rows = IF gui.table[j] = "none" THEN gui.rows ELSE gui.rows \ {j}
      BY <1>2, <2>1 DEF Client
    <2>3. /\ gui'.rows \subseteq gui.rows /\ (gui.table[j] # "none" => j \notin gui'.rows)
          /\ \A x : x # j => (x \in gui'.rows <=> x \in gui.rows)
      BY <2>2
    <2>4. ASSUME NEW x \in Jobs
          PROVE  /\ StatusTold(x)' /\ QueueTold(x)' /\ JobShown(x)' /\ NotAhead(x)'
                 /\ QueueOffered(x)' /\ FakeDue(x)' /\ Cleared(x)'
      <3>1. CASE x = j
        <4>1. m.job = x /\ (gui.table[x] # "none" => x \notin gui'.rows)
          BY <1>5, <2>3, <3>1
        <4>2. QED
          BY <1>1, <1>5, <1>9, <2>2, <2>3, <4>1, ReadClosing
      <3>2. CASE x # j
        <4>1. /\ Head(wire).job # x
              /\ gui'.table[x] = gui.table[x] /\ gui'.queueOf[x] = gui.queueOf[x]
              /\ x \in gui'.rows <=> x \in gui.rows
              /\ x \in gui'.temp <=> x \in gui.temp
              /\ x \in gui'.queues <=> x \in gui.queues
          BY <1>5, <2>2, <2>3, <3>2
        <4>2. QED
          BY <1>1, <4>1, ReadOther
      <3>3. QED
        BY <3>1, <3>2
    <2>5. /\ \A x \in gui'.rows : x \in gui'.temp \/ gui'.table[x] # "none"
          /\ \A x \in gui'.temp : gui'.table[x] = "none"
          /\ \A x \in Jobs : gui'.table[x] = "none" => gui.table[x] = "none"
      BY <1>2, <2>2, <2>3
    <2>6. gui' \in Client /\ gui'.on
      BY <1>1, <2>2
    <2>7. QED
      BY <1>1, <2>4, <2>5, <2>6, ReadStep
  <1>10. QED
    BY <1>4, <1>6, <1>7, <1>8, <1>9

-----------------------------------------------------------------------------
(* Every step keeps what the client shows right, or on its way.              *)
LEMMA NextMInv ==
    ASSUME MInv, [MirrorNext]_allVars
    PROVE  MInv'
  <1>1. ASSUME NEW j \in Jobs, NEW p \in Jobs \cup {NoParent}, HandleRun(j, p) PROVE MInv'
    <2>1. /\ asks # <<>> /\ Head(asks) = [op |-> "run", job |-> j, after |-> p] /\ asks' = Tail(asks)
          /\ gui' = gui /\ returns' = returns
      BY <1>1 DEF HandleRun
    <2>2. CASE RunUnsupported(j, p) /\ Tells(<<JobDef(j)>>)
      BY <2>1, <2>2, UnsupportedStep
    <2>3. CASE RunNow(j, p) /\ TellsEnds(<<>>)
      BY <2>1, <2>3, RunNowStep
    <2>4. CASE RunAfter(j, p) /\ Tells(IF defQueue = <<>> THEN <<JobDef(j)>> ELSE <<>>)
      BY <2>1, <2>4, RunAfterStep
    <2>5. QED
      BY <1>1, <2>2, <2>3, <2>4 DEF HandleRun
  <1>2. ASSUME NEW j \in Jobs, NEW p \in Jobs \cup {NoParent}, AskRun(j, p) PROVE MInv'
    BY <1>2, AskRunStep
  <1>3. ASSUME NEW j \in Jobs, HandleKill(j) \/ HandleClose(j) \/ Started(j) \/ Ended(j) PROVE MInv'
    BY <1>3, KillStep, CloseStep, StartedStep, EndedStep
  <1>4. ASSUME NEW j \in Jobs, AskKill(j) \/ AskClose(j) PROVE MInv'
    BY <1>4, AskEndStep
  <1>5. ASSUME NEW d \in Daemons, Answered(d) PROVE MInv'
    BY <1>5, AnsweredStep
  <1>6. CASE Network
    <2>1. (\E d \in Daemons : Lose(d) \/ Connect(d)) /\ UNCHANGED mirrorVars
      BY <1>6 DEF Network
    <2>2. QED
      BY <2>1, IdleStep
  <1>7. CASE Receive \/ ClientGoes \/ ClientReturns
    BY <1>7, ReceiveStep, GoesStep, ReturnsStep
  <1>8. CASE UNCHANGED allVars
    <2>1. UNCHANGED vars /\ UNCHANGED mirrorVars
      BY <1>8 DEF allVars, queueVars, vars
    <2>2. QED
      BY <2>1, IdleStep
  <1>9. QED
    BY <1>1, <1>2, <1>3, <1>4, <1>5, <1>6, <1>7, <1>8 DEF MirrorNext

(* What the client knows is kept by every step of the maestro, of the client *)
(* and of the network (gebrm-app.c, gebr-maestro-server.c).                  *)
THEOREM MirrorInvariant == MirrorSpec => []MInv
  <1>1. MInv /\ [MirrorNext]_allVars => MInv'
    BY NextMInv
  <1>2. QED
    BY <1>1, InitMInv, PTL DEF MirrorSpec

(* The types of what the GUI keeps of the jobs, and of what is under way; no *)
(* row of the jobs tab is without a job, real or fake                        *)
(* (gebr_job_control_add, parse_messages): MirrorTypeOK.                     *)
THEOREM MirrorTyped == MirrorSpec => []MirrorTypeOK
  <1>1. MInv => MirrorTypeOK
    BY DEF MInv
  <1>2. QED
    BY <1>1, MirrorInvariant, PTL

(* When everything was read.                                                 *)
LEMMA SettledShown ==
    ASSUME MInv, Settled
    PROVE  /\ Informed /\ gui \in Client
           /\ \A K : ~Has(wire, K)
           /\ \A K, L : ~Then(wire, K, L)
  <1>1. gui.on /\ ~gui.dead /\ wire = <<>>
    BY DEF Settled
  <1>2. \A K : ~Has(wire, K)
    BY <1>1 DEF Has
  <1>3. \A K, L : ~Then(wire, K, L)
    BY <1>1 DEF Then
  <1>4. QED
    BY <1>1, <1>2, <1>3 DEF MInv, MirrorTypeOK

(* A client that has read everything has the status, the queue, the row and  *)
(* the offer of every job that was handed out, as the maestro has them, also *)
(* when definitions were held back, jobs were moved by a kill, or it came    *)
(* late (on_status_change, on_execution_response, on_new_connection):        *)
(* MirrorRight.                                                              *)
THEOREM ShownAsItIs == MirrorSpec => []MirrorRight
  <1>1. MInv => MirrorRight
    <2> SUFFICES ASSUME MInv, Settled, NEW j \in jobs
                 PROVE  /\ phase[j] \in {"ran", "none"} => gui.table[j] # "none"
                        /\ gui.table[j] # "none" =>
                             /\ gui.table[j] = status[j]
                             /\ gui.queueOf[j] = queue[j]
                             /\ j \in gui.rows
                             /\ j \in gui.queues <=> status[j] \in {"queued", "running"}
      BY DEF MirrorRight
    <2>1. /\ Informed /\ \A K : ~Has(wire, K)
      BY SettledShown
    <2>2. j \in Jobs
      BY Types DEF MInv
    <2>3. StatusTold(j) /\ QueueTold(j) /\ JobShown(j) /\ QueueOffered(j)
      BY <2>1, <2>2 DEF Informed
    <2>4. QED
      BY <2>1, <2>3 DEF StatusTold, QueueTold, JobShown, QueueOffered
  <1>2. QED
    BY <1>1, MirrorInvariant, PTL

(* A fake row that is left, once everything was read, is the row of a job    *)
(* that was asked for and is not yet handed out (run_flow, parse_messages):  *)
(* FakesPending.                                                             *)
THEOREM FakesAreDue == MirrorSpec => []FakesPending
  <1>1. MInv => FakesPending
    <2> SUFFICES ASSUME MInv, Settled, NEW j \in gui.temp
                 PROVE  \/ Contains(asks, [op |-> "run", job |-> j, after |-> NoParent])
                        \/ \E p \in Jobs : Contains(asks, [op |-> "run", job |-> j, after |-> p])
                        \/ j \in jobs /\ phase[j] \in {"waiting", "asked"}
      BY DEF FakesPending
    <2>1. Informed /\ \A K : ~Has(wire, K)
      BY SettledShown
    <2>2. j \in Jobs
      BY DEF MInv, MirrorTypeOK, Client
    <2>3. AskedRun(j) \/ Due(j)
      BY <2>1, <2>2 DEF Informed, FakeDue
    <2>4. ASSUME AskedRun(j)
          PROVE  \/ Contains(asks, [op |-> "run", job |-> j, after |-> NoParent])
                 \/ \E p \in Jobs : Contains(asks, [op |-> "run", job |-> j, after |-> p])
      <3>1. PICK i \in DOMAIN asks : asks[i].op = "run" /\ asks[i].job = j
        BY <2>4 DEF AskedRun
      <3>2. asks \in Seq(Request)
        BY DEF MInv, MirrorTypeOK
      <3>3. asks[i] \in Request /\ i \in 1..Len(asks)
        BY <3>2
      <3> DEFINE p == asks[i].after
      <3>4. asks[i] = [op |-> "run", job |-> j, after |-> p] /\ p \in Jobs \cup {NoParent}
        BY <3>1, <3>3 DEF Request
      <3> HIDE DEF p
      <3>5. Contains(asks, [op |-> "run", job |-> j, after |-> p])
        BY <3>3, <3>4 DEF Contains
      <3>6. QED
        BY <3>4, <3>5
    <2>5. QED
      BY <2>3, <2>4 DEF Due
  <1>2. QED
    BY <1>1, MirrorInvariant, PTL

(* No queue is on offer, once everything was read, that has stopped          *)
(* (update_queues_model): QueuesAlive.                                       *)
THEOREM QueuesAreAlive == MirrorSpec => []QueuesAlive
  <1>1. MInv => QueuesAlive
    <2> SUFFICES ASSUME MInv, Settled, NEW j \in gui.queues PROVE status[j] # "stopped"
      BY DEF QueuesAlive
    <2>1. Informed /\ \A K : ~Has(wire, K)
      BY SettledShown
    <2>2. j \in Jobs
      BY DEF MInv, MirrorTypeOK, Client
    <2>3. StatusTold(j) /\ QueueOffered(j)
      BY <2>1, <2>2 DEF Informed
    <2>4. QED
      BY <2>1, <2>3 DEF StatusTold, QueueOffered
  <1>2. QED
    BY <1>1, MirrorInvariant, PTL

(* A client that was there all along shows no row of a job that was cleared  *)
(* (the JCL of parse_messages, gebr_job_control_remove): RowsHaveJobs.       *)
THEOREM NoRowWithoutJob == MirrorSpec => []RowsHaveJobs
  <1>1. MInv => RowsHaveJobs
    <2> SUFFICES ASSUME MInv, Settled, returns = 0, NEW j \in gui.rows, j \notin gui.temp, j \notin jobs
                 PROVE  FALSE
      BY DEF RowsHaveJobs
    <2>1. Informed /\ \A K : ~Has(wire, K)
      BY SettledShown
    <2>2. j \in Jobs /\ gui.table[j] # "none"
      BY DEF MInv, MirrorTypeOK, Client
    <2>3. NotAhead(j) /\ Cleared(j)
      BY <2>1, <2>2 DEF Informed
    <2>4. QED
      BY <2>1, <2>2, <2>3 DEF NotAhead, Cleared
  <1>2. QED
    BY <1>1, MirrorInvariant, PTL

(* What NoStranger says of one step.                                         *)
Stranger == gui'.dead /\ ~gui.dead => phase[Head(wire).job] = "dead" \/ Head(wire).job \notin jobs

(* A step makes the client a dead one only by the status of a job that was   *)
(* stopped before it was handed out, or that was cleared.                    *)
LEMMA StrangerStep == ASSUME MInv, [MirrorNext]_allVars PROVE Stranger
  <1> SUFFICES ASSUME gui'.dead, ~gui.dead, NEW j, j = Head(wire).job, phase[j] # "dead", j \in jobs
               PROVE  FALSE
    BY DEF Stranger
  <1>1. gui' # gui
    OBVIOUS
  <1>2. NewClient.dead = FALSE /\ [NewClient EXCEPT !.on = FALSE].dead = FALSE
    BY DEF NewClient
  <1>3. Receive
    <2>1. ASSUME NEW x \in Jobs, NEW p \in Jobs \cup {NoParent}, HandleRun(x, p) \/ AskRun(x, p)
          PROVE  FALSE
      <3>1. CASE HandleRun(x, p)
        BY <1>1, <3>1 DEF HandleRun
      <3>2. CASE AskRun(x, p)
        <4>1. gui' = [gui EXCEPT !.temp = @ \cup {x}, !.rows = AddRow(x)] /\ gui \in Client
          BY <3>2 DEF AskRun, MInv, MirrorTypeOK
        <4>2. gui'.dead = gui.dead
          BY <4>1 DEF Client
        <4>3. QED
          BY <4>2
      <3>3. QED
        BY <2>1, <3>1, <3>2
    <2>2. ASSUME NEW x \in Jobs, HandleKill(x) \/ HandleClose(x) \/ Started(x) \/ Ended(x)
                                 \/ AskKill(x) \/ AskClose(x)
          PROVE  FALSE
      BY <1>1, <2>2 DEF HandleKill, HandleClose, Started, Ended, AskKill, AskClose
    <2>3. ASSUME NEW d \in Daemons, Answered(d) PROVE FALSE
      BY <1>1, <2>3 DEF Answered
    <2>4. ~Network /\ ~UNCHANGED allVars
      BY <1>1 DEF Network, allVars, mirrorVars
    <2>5. ~ClientGoes /\ ~ClientReturns
      BY <1>2 DEF ClientGoes, ClientReturns
    <2>6. QED
      BY <2>1, <2>2, <2>3, <2>4, <2>5 DEF MirrorNext
  <1> DEFINE m == Head(wire)
  <1>4. gui.on /\ Reads
    BY <1>3 DEF Receive, Reads
  <1>5. m \in Proper
    BY <1>4, ReadFacts
  <1>6. gui \in Client /\ m \in Message /\ m.type \in {"JOB", "STA", "JCL"}
    BY <1>5 DEF Proper, Message, MInv, MirrorTypeOK
  <1>7. m.type = "STA" /\ gui.table[j] = "none"
    <2>1. gui' = CASE m.type = "JOB" -> OnJob(m)
                   [] m.type = "STA" -> OnSta(m)
                   [] m.type = "JCL" -> OnJcl(m)
      BY <1>3 DEF Receive
    <2> HIDE DEF m
    <2>2. j = m.job
      BY DEF m
    <2>3. CASE m.type = "JOB"
      <3>1. gui' = OnJob(m)
        BY <2>1, <2>3
      <3>2. gui'.dead = gui.dead
        BY <1>6, <2>2, <3>1, OnJobEffect
      <3>3. QED
        BY <3>2
    <2>4. CASE m.type = "STA" /\ gui.table[j] # "none"
      <3>1. gui' = OnSta(m)
        BY <2>1, <2>4
      <3>2. gui'.dead = gui.dead
        BY <1>6, <2>2, <2>4, <3>1, OnStaEffect
      <3>3. QED
        BY <3>2
    <2>5. CASE m.type = "JCL"
      <3>1. gui' = OnJcl(m)
        BY <2>1, <2>5
      <3>2. gui'.dead = gui.dead
        BY <1>6, <3>1 DEF OnJcl, Client
      <3>3. QED
        BY <3>2
    <2>6. QED
      BY <1>6, <2>3, <2>4, <2>5
  <1>8. j \in Jobs
    BY Types DEF MInv
  <1>9. JobShown(j)
    BY <1>4, <1>8 DEF MInv, Informed
  <1>10. Preceded(wire, Sta(j), Def(j))
    BY <1>7, <1>9 DEF JobShown
  <1>11. m \notin Sta(j)
    BY <1>4, <1>10, ReadFacts
  <1>12. m \in Sta(j)
    BY <1>5, <1>7, ReadSets
  <1>13. QED
    BY <1>11, <1>12

(* The status of a job never reaches a client that has no definition of it,  *)
(* except of a job that was stopped before it was handed out or cleared      *)
(* before the client came (on_status_change, the STA of parse_messages):     *)
(* NoStranger.                                                               *)
THEOREM NoStrangers == MirrorSpec => NoStranger
  <1>1. MInv /\ [MirrorNext]_allVars => Stranger
    BY StrangerStep
  <1>2. MirrorSpec => [][Stranger]_allVars
    BY <1>1, MirrorInvariant, PTL DEF MirrorSpec
  <1>3. QED
    BY <1>2 DEF NoStranger, Stranger

=============================================================================
