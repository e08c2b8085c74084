------------------------- MODULE Connections_proofs -------------------------
(***************************************************************************)
(* Proofs about the connections of the maestro with its nodes, for every set *)
(* of addresses and machines: the machines of a domain share a file system,  *)
(* each of them is logged in once, and the GUI shows the nodes as they are.  *)
(***************************************************************************)
EXTENDS Connections, Lists_proofs, FiniteSetTheorems, TLAPS

(* The handlers may count a provider more than the bound allows: the bound   *)
(* is a guard of the step as a whole.                                        *)
NodeW == [state: States, err: Errors, lastError: BOOLEAN, init: BOOLEAN, canceled: BOOLEAN,
          timer: {"none", "live"}, nfsid: Nfs \cup {NoNfs}, id: Hosts \cup {NoHost},
          running: Nat, asking: Nat, keying: BOOLEAN,
          sock: {"down", "up", "refused"}, reply: Answers \cup {"none"}]

MaestroW == [list: Seq(Addresses), node: [Addresses -> NodeW], connectAll: BOOLEAN,
             respect: BOOLEAN, nfsid: Nfs \cup {NoNfs}, client: BOOLEAN,
             seen: [Addresses -> States \cup {"none"}], orphans: Nat, hampered: BOOLEAN]

(* What a handler may do to a node it does not log in: keep its connection,  *)
(* or drop it.                                                               *)
Steady(n, k) ==
    /\ k.nfsid = n.nfsid \/ k.nfsid = NoNfs
    /\ \/ /\ k.sock = n.sock /\ (k.reply = "ok" => n.reply = "ok")
          /\ (k.state = "LOGGED" => n.state = "LOGGED")
       \/ k.sock # "up" /\ k.reply # "ok" /\ k.state # "LOGGED"

(* ... and to the maestro, with its list changed ...                         *)
Mild(w, v) ==
    /\ v \in MaestroW /\ v.nfsid = w.nfsid
    /\ \A b \in Addresses : Steady(w.node[b], v.node[b])

(* ... or not.                                                               *)
Calm(w, v) == Mild(w, v) /\ v.list = w.list

(* One after the other.                                                      *)
LEMMA MildTrans ==
    ASSUME NEW u, NEW v, NEW w, Mild(u, v), Mild(v, w)
    PROVE  Mild(u, w)
  <1>1. \A b \in Addresses : Steady(u.node[b], w.node[b])
    BY DEF Mild, Steady
  <1>2. QED
    BY <1>1 DEF Mild

(* The same, with the list as it was.                                        *)
LEMMA CalmTrans ==
    ASSUME NEW u, NEW v, NEW w, Calm(u, v), Calm(v, w)
    PROVE  Calm(u, w)
  BY MildTrans DEF Calm

(* The fields of the maestro.                                                *)
LEMMA Fields ==
    ASSUME NEW w \in MaestroW
    PROVE  /\ w.list \in Seq(Addresses) /\ w.node \in [Addresses -> NodeW]
           /\ w.connectAll \in BOOLEAN /\ w.respect \in BOOLEAN /\ w.client \in BOOLEAN
           /\ w.hampered \in BOOLEAN /\ w.nfsid \in Nfs \cup {NoNfs}
           /\ w.seen \in [Addresses -> States \cup {"none"}] /\ w.orphans \in Nat
           /\ Calm(w, w)
  BY DEF MaestroW, Calm, Mild, Steady

(* A node is changed.                                                        *)
LEMMA NodeChanged ==
    ASSUME NEW w \in MaestroW, NEW a \in Addresses, NEW n \in NodeW
    PROVE  LET v == [w EXCEPT !.node[a] = n]
           IN /\ v \in MaestroW /\ v.list = w.list /\ v.nfsid = w.nfsid /\ v.node[a] = n
              /\ v.seen = w.seen /\ v.client = w.client /\ v.orphans = w.orphans
              /\ v.connectAll = w.connectAll /\ v.respect = w.respect
              /\ \A b \in Addresses : b # a => v.node[b] = w.node[b]
              /\ Steady(w.node[a], n) => Calm(w, v)
  <1> DEFINE v == [w EXCEPT !.node[a] = n]
  <1>1. /\ v \in MaestroW /\ v.list = w.list /\ v.nfsid = w.nfsid /\ v.node[a] = n
        /\ v.seen = w.seen /\ v.client = w.client /\ v.orphans = w.orphans
        /\ v.connectAll = w.connectAll /\ v.respect = w.respect
        /\ \A b \in Addresses : b # a => v.node[b] = w.node[b]
    BY DEF MaestroW
  <1> HIDE DEF v
  <1>2. Steady(w.node[a], n) => Calm(w, v)
    BY <1>1, Fields DEF Calm, Mild
  <1>3. QED
    BY <1>1, <1>2 DEF v

(* A client is told of a node.                                               *)
LEMMA TellCalm ==
    ASSUME NEW w \in MaestroW, NEW a \in Addresses, NEW s \in States
    PROVE  LET v == Tell(w, a, s)
           IN /\ Calm(w, v) /\ v.node = w.node /\ v.client = w.client /\ v.orphans = w.orphans
              /\ v.connectAll = w.connectAll /\ v.respect = w.respect
              /\ w.client => v.seen[a] = s
              /\ \A b \in Addresses : b # a => v.seen[b] = w.seen[b]
  <1> DEFINE v == Tell(w, a, s)
  <1>1. CASE ~w.client
    BY <1>1, Fields DEF Tell
  <1>2. CASE w.client
    <2>1. /\ v \in MaestroW /\ v.list = w.list /\ v.nfsid = w.nfsid /\ v.node = w.node
          /\ v.client = w.client /\ v.orphans = w.orphans
          /\ v.connectAll = w.connectAll /\ v.respect = w.respect
          /\ v.seen[a] = s /\ \A b \in Addresses : b # a => v.seen[b] = w.seen[b]
      BY <1>2 DEF Tell, MaestroW
    <2> HIDE DEF v
    <2>2. Calm(w, v)
      BY <2>1, Fields DEF Calm, Mild
    <2>3. QED
      BY <2>1, <2>2 DEF v
  <1>3. QED
    BY <1>1, <1>2

(* The connection of a node that is disconnected begins.                     *)
LEMMA ConnectCalm ==
    ASSUME NEW w \in MaestroW, NEW a \in Addresses
    PROVE  LET v == Connect(w, a)
           IN /\ Calm(w, v) /\ v.client = w.client /\ v.connectAll = w.connectAll
              /\ \A b \in Addresses : b # a => v.node[b] = w.node[b] /\ v.seen[b] = w.seen[b]
              /\ w.node[a].state # "DISCONNECTED" => v = w
              /\ w.node[a].state = "DISCONNECTED" =>
                   v.node[a].state = "RUN" /\ (w.client => v.seen[a] = "RUN")
  <1>1. CASE w.node[a].state # "DISCONNECTED"
    BY <1>1, Fields DEF Connect
  <1>2. CASE w.node[a].state = "DISCONNECTED"
    <2> DEFINE n == w.node[a]
               o == w.orphans + IF w.connectAll /\ n.timer = "live" THEN 1 ELSE 0
               c == IF w.connectAll THEN TRUE ELSE n.canceled
               t == IF w.connectAll THEN "live" ELSE n.timer
               r == n.running + 1
               k == [n EXCEPT !.state = "RUN", !.running = r, !.canceled = c, !.timer = t]
               u == [w EXCEPT !.orphans = o, !.node[a] = k]
    <2>1. n \in NodeW
      BY Fields
    <2>2. k \in NodeW
      <3>1. n.running \in Nat /\ n.canceled \in BOOLEAN /\ n.timer \in {"none", "live"}
        BY <2>1 DEF NodeW
      <3>2. r \in Nat /\ t \in {"none", "live"}
        BY <3>1
      <3>3. c \in BOOLEAN
        BY <3>1
      <3> HIDE DEF c, t, r, n
      <3>4. QED
        BY <2>1, <3>2, <3>3 DEF NodeW, States
    <2>3. k.state = "RUN" /\ k.nfsid = n.nfsid /\ k.sock = n.sock /\ k.reply = n.reply
      BY <2>1 DEF NodeW
    <2>4. o \in Nat
      BY Fields
    <2>5. Connect(w, a) = Tell(u, a, "RUN")
      BY <1>2 DEF Connect
    <2> HIDE DEF k, o
    <2>6. /\ u \in MaestroW /\ u.list = w.list /\ u.nfsid = w.nfsid /\ u.node[a] = k
          /\ u.seen = w.seen /\ u.client = w.client /\ u.connectAll = w.connectAll
          /\ \A b \in Addresses : b # a => u.node[b] = w.node[b]
      BY <2>2, <2>4 DEF MaestroW
    <2> HIDE DEF u, n
    <2>7. Calm(w, u)
      BY <2>3, <2>6, Fields DEF Calm, Mild, Steady, n
    <2>8. "RUN" \in States
      BY DEF States
    <2> DEFINE v == Tell(u, a, "RUN")
    <2>9. /\ Calm(u, v) /\ v.node = u.node /\ v.client = u.client
          /\ v.connectAll = u.connectAll
          /\ u.client => v.seen[a] = "RUN"
          /\ \A b \in Addresses : b # a => v.seen[b] = u.seen[b]
      BY <2>6, <2>8, TellCalm
    <2> HIDE DEF v
    <2>10. Calm(w, v)
      BY <2>7, <2>9, CalmTrans
    <2>11. QED
      BY <1>2, <2>3, <2>5, <2>6, <2>9, <2>10 DEF v
  <1>3. QED
    BY <1>1, <1>2

(* What connect-all does between two nodes: it begins the connection of some *)
(* that wait, and leaves the others alone.                                   *)
Connects(w, v) ==
    /\ Calm(w, v) /\ v.client = w.client
    /\ \A b \in Addresses :
         \/ v.node[b] = w.node[b] /\ v.seen[b] = w.seen[b]
         \/ /\ b \in ToSet(w.list) /\ Waiting(w, b) /\ w.node[b].state = "DISCONNECTED"
            /\ v.node[b].state = "RUN" /\ (w.client => v.seen[b] = "RUN")

(* gebrm_app_continue_connections_of_daemons, after a change or a timer.     *)
LEMMA ContinueConnects ==
    ASSUME NEW w \in MaestroW
    PROVE  Connects(w, Continue(w))
  <1> DEFINE stops == {i \in DOMAIN w.list : Waiting(w, w.list[i]) \/ KeyLogged(w, w.list[i])}
             i     == Min(stops)
             a     == w.list[i]
  <1>1. CASE Continue(w) = w
    BY <1>1, Fields DEF Connects
  <1>2. CASE Continue(w) # w
    <2>1. stops # {} /\ ~KeyLogged(w, a) /\ Continue(w) = Connect(w, a)
      BY <1>2 DEF Continue
    <2>2. stops \in SUBSET Nat
      BY Fields
    <2>3. i \in stops
      BY <2>1, <2>2, MinIn
    <2>4. i \in DOMAIN w.list /\ (Waiting(w, a) \/ KeyLogged(w, a))
      BY <2>3
    <2> HIDE DEF i
    <2>5. a \in Addresses /\ a \in ToSet(w.list) /\ Waiting(w, a)
      BY <2>1, <2>4, Fields DEF ToSet
    <2> HIDE DEF a
    <2>6. LET v == Connect(w, a)
          IN /\ Calm(w, v) /\ v.client = w.client /\ v.connectAll = w.connectAll
             /\ \A b \in Addresses : b # a => v.node[b] = w.node[b] /\ v.seen[b] = w.seen[b]
             /\ w.node[a].state # "DISCONNECTED" => v = w
             /\ w.node[a].state = "DISCONNECTED" =>
                  v.node[a].state = "RUN" /\ (w.client => v.seen[a] = "RUN")
      BY <2>5, ConnectCalm
    <2>7. QED
      BY <1>2, <2>1, <2>5, <2>6 DEF Connects
  <1>3. QED
    BY <1>1, <1>2

(* verify_connect_all                                                        *)
LEMMA VerifyCalm ==
    ASSUME NEW w \in MaestroW
    PROVE  LET v == VerifyConnectAll(w)
           IN Calm(w, v) /\ v.client = w.client /\ v.node = w.node /\ v.seen = w.seen
  <1> DEFINE v == VerifyConnectAll(w)
  <1>1. CASE v = w
    BY <1>1, Fields
  <1>2. CASE v = [w EXCEPT !.connectAll = FALSE]
    <2>1. /\ v \in MaestroW /\ v.list = w.list /\ v.nfsid = w.nfsid /\ v.node = w.node
          /\ v.client = w.client /\ v.seen = w.seen
      BY <1>2 DEF MaestroW
    <2> HIDE DEF v
    <2>2. Calm(w, v)
      BY <2>1, Fields DEF Calm, Mild
    <2>3. QED
      BY <2>1, <2>2 DEF v
  <1>3. QED
    BY <1>1, <1>2 DEF VerifyConnectAll

(* ... followed by verify_connect_all: time_out_daemon, ContinueIfAll.       *)
LEMMA GoesOn ==
    ASSUME NEW w \in MaestroW
    PROVE  Connects(w, VerifyConnectAll(Continue(w))) /\ Connects(w, ContinueIfAll(w))
  <1> DEFINE u == Continue(w)
             v == VerifyConnectAll(u)
  <1>1. Connects(w, u) /\ u \in MaestroW
    BY ContinueConnects DEF Connects, Calm, Mild
  <1> HIDE DEF u
  <1>2. Calm(u, v) /\ v.client = u.client /\ v.node = u.node /\ v.seen = u.seen
    BY <1>1, VerifyCalm
  <1> HIDE DEF v
  <1>3. Calm(w, v)
    BY <1>1, <1>2, CalmTrans DEF Connects
  <1>4. Connects(w, v) /\ Connects(w, w)
    BY <1>1, <1>2, <1>3, Fields DEF Connects
  <1>5. QED
    BY <1>4 DEF u, v, ContinueIfAll

(* What a connection that ends does: the node is disconnected, the client is *)
(* told, and connect-all may go on with another node.                        *)
Leaves(w, v, a) ==
    /\ Calm(w, v) /\ v.client = w.client /\ v.node[a].state = "DISCONNECTED"
    /\ IF w.node[a].state = "DISCONNECTED" THEN v.seen[a] = w.seen[a]
       ELSE w.client => v.seen[a] = "DISCONNECTED"
    /\ \A b \in Addresses :
         \/ b = a
         \/ v.node[b] = w.node[b] /\ v.seen[b] = w.seen[b]
         \/ /\ b \in ToSet(w.list) /\ w.node[b].state = "DISCONNECTED"
            /\ v.node[b].state = "RUN" /\ (w.client => v.seen[b] = "RUN")

(* The callbacks of a disconnection.                                         *)
LEMMA DisconnectedLeaves ==
    ASSUME NEW w \in MaestroW, NEW a \in Addresses
    PROVE  LET v == Disconnected(w, a)
           IN /\ Leaves(w, v, a)
              /\ v.node[a].sock = w.node[a].sock /\ v.node[a].reply = w.node[a].reply
              /\ v.node[a].nfsid = w.node[a].nfsid
  <1>1. CASE w.node[a].state = "DISCONNECTED"
    BY <1>1, Fields DEF Disconnected, Leaves
  <1>2. CASE w.node[a].state # "DISCONNECTED"
    <2> DEFINE n == w.node[a]
               e == IF n.lastError THEN "ssh" ELSE n.err
               t == IF e # "none" THEN "none" ELSE n.timer
               c == n.canceled \/ e # "none"
               k == [n EXCEPT !.state = "DISCONNECTED", !.err = e, !.init = FALSE, !.timer = t,
                              !.canceled = c]
               u == [w EXCEPT !.node[a] = k]
               x == IF u.node[a].canceled THEN ContinueIfAll(u) ELSE u
               v == Tell(x, a, "DISCONNECTED")
    <2>1. n \in NodeW
      BY Fields
    <2>2. k \in NodeW /\ k.state = "DISCONNECTED" /\ k.nfsid = n.nfsid /\ k.sock = n.sock /\ k.reply = n.reply
      <3>1. n.err \in Errors /\ n.canceled \in BOOLEAN /\ n.timer \in {"none", "live"}
        BY <2>1 DEF NodeW
      <3>2. e \in Errors
        BY <3>1 DEF Errors
      <3>3. t \in {"none", "live"} /\ c \in BOOLEAN
        BY <3>1
      <3> HIDE DEF e, t, c, n
      <3>4. QED
        BY <2>1, <3>2, <3>3 DEF NodeW, States
    <2>3. v = Disconnected(w, a)
      BY <1>2 DEF Disconnected
    <2>4. Steady(n, k)
      BY <2>2 DEF Steady
    <2> HIDE DEF k
    <2>5. /\ u \in MaestroW /\ u.list = w.list /\ u.node[a] = k /\ u.seen = w.seen /\ u.client = w.client
          /\ \A b \in Addresses : b # a => u.node[b] = w.node[b]
          /\ Calm(w, u)
      BY <2>2, <2>4, NodeChanged
    <2> HIDE DEF u, n
    <2>6. /\ Connects(u, x) /\ x.node[a] = u.node[a]
      <3>1. CASE u.node[a].canceled
        <4>1. Connects(u, ContinueIfAll(u))
          BY <2>5, GoesOn
        <4>2. ~Waiting(u, a)
          BY <3>1 DEF Waiting
        <4>3. QED
          BY <3>1, <4>1, <4>2 DEF Connects
      <3>2. CASE ~u.node[a].canceled
        BY <2>5, <3>2, Fields DEF Connects
      <3>3. QED
        BY <3>1, <3>2
    <2> HIDE DEF x
    <2>7. x \in MaestroW /\ Calm(u, x)
      BY <2>6 DEF Connects, Calm, Mild
    <2>8. "DISCONNECTED" \in States
      BY DEF States
    <2>9. /\ Calm(x, v) /\ v.node = x.node /\ v.client = x.client
          /\ x.client => v.seen[a] = "DISCONNECTED"
          /\ \A b \in Addresses : b # a => v.seen[b] = x.seen[b]
      BY <2>7, <2>8, TellCalm
    <2> HIDE DEF v
    <2>10. Calm(w, v)
      BY <2>5, <2>7, <2>9, CalmTrans
    <2>11. v.node[a] = k /\ v.client = w.client /\ (w.client => v.seen[a] = "DISCONNECTED")
      BY <2>5, <2>6, <2>9 DEF Connects
    <2>12. ASSUME NEW b \in Addresses, b # a
           PROVE  \/ v.node[b] = w.node[b] /\ v.seen[b] = w.seen[b]
                  \/ /\ b \in ToSet(w.list) /\ w.node[b].state = "DISCONNECTED"
                     /\ v.node[b].state = "RUN" /\ (w.client => v.seen[b] = "RUN")
      BY <2>5, <2>6, <2>9, <2>12 DEF Connects
    <2>13. Leaves(w, v, a)
      BY <1>2, <2>2, <2>10, <2>11, <2>12 DEF Leaves
    <2>14. QED
      BY <2>2, <2>3, <2>11, <2>13 DEF n
  <1>3. QED
    BY <1>1, <1>2

(* The same after the node was changed: its connection may have been closed. *)
LEMMA LeavesFrom ==
    ASSUME NEW w \in MaestroW, NEW a \in Addresses, NEW n \in NodeW,
           n.state = w.node[a].state, n.nfsid = w.node[a].nfsid \/ n.nfsid = NoNfs,
           \/ n.sock = w.node[a].sock /\ n.reply = w.node[a].reply
           \/ n.sock = "down" /\ n.reply = "none"
    PROVE  Leaves(w, Disconnected([w EXCEPT !.node[a] = n], a), a)
  <1> DEFINE u == [w EXCEPT !.node[a] = n]
             v == Disconnected(u, a)
  <1>1. /\ u \in MaestroW /\ u.list = w.list /\ u.nfsid = w.nfsid /\ u.node[a] = n
        /\ u.seen = w.seen /\ u.client = w.client
        /\ \A b \in Addresses : b # a => u.node[b] = w.node[b]
    BY NodeChanged
  <1> HIDE DEF u
  <1>2. /\ Leaves(u, v, a)
        /\ v.node[a].sock = n.sock /\ v.node[a].reply = n.reply /\ v.node[a].nfsid = n.nfsid
    BY <1>1, DisconnectedLeaves
  <1> HIDE DEF v
  <1>3. Steady(w.node[a], v.node[a])
    BY <1>2 DEF Leaves, Steady
  <1>4. \A b \in Addresses : b # a => Steady(w.node[b], v.node[b])
    BY <1>1, <1>2 DEF Leaves, Calm, Mild
  <1>5. Calm(w, v)
    BY <1>1, <1>2, <1>3, <1>4 DEF Leaves, Calm, Mild
  <1>6. Leaves(w, v, a)
    BY <1>1, <1>2, <1>5 DEF Leaves
  <1>7. QED
    BY <1>6 DEF u, v

(* One end after the other.                                                  *)
LEMMA LeavesTrans ==
    ASSUME NEW u, NEW v, NEW w, NEW a \in Addresses, Leaves(u, v, a), Leaves(v, w, a)
    PROVE  Leaves(u, w, a)
  <1>1. Calm(u, w)
    BY CalmTrans DEF Leaves
  <1>2. v.list = u.list
    BY DEF Leaves, Calm
  <1>3. ASSUME NEW b \in Addresses, b # a
        PROVE  \/ w.node[b] = u.node[b] /\ w.seen[b] = u.seen[b]
               \/ /\ b \in ToSet(u.list) /\ u.node[b].state = "DISCONNECTED"
                  /\ w.node[b].state = "RUN" /\ (u.client => w.seen[b] = "RUN")
    <2>1. \/ v.node[b] = u.node[b] /\ v.seen[b] = u.seen[b]
          \/ /\ b \in ToSet(u.list) /\ u.node[b].state = "DISCONNECTED"
             /\ v.node[b].state = "RUN" /\ (u.client => v.seen[b] = "RUN")
      BY <1>3 DEF Leaves
    <2>2. \/ w.node[b] = v.node[b] /\ w.seen[b] = v.seen[b]
          \/ /\ b \in ToSet(v.list) /\ v.node[b].state = "DISCONNECTED"
             /\ w.node[b].state = "RUN" /\ (v.client => w.seen[b] = "RUN")
      BY <1>3 DEF Leaves
    <2>3. v.client = u.client
      BY DEF Leaves
    <2>4. QED
      BY <1>2, <2>1, <2>2, <2>3
  <1>4. QED
    BY <1>1, <1>3 DEF Leaves

(* gebr_comm_server_disconnected_state with a message, the end of a socket,  *)
(* and gebrm_daemon_disconnect, after a change of the node's error.          *)
LEMMA LeaveLeaves ==
    ASSUME NEW w \in MaestroW, NEW a \in Addresses
    PROVE  /\ Leaves(w, Failed(w, a), a)
           /\ Leaves(w, Disconnected(Closed(w, a), a), a)
           /\ Leaves(w, Leave(w, a), a)
  <1> DEFINE n == w.node[a]
             f == [n EXCEPT !.lastError = TRUE]
             c == [n EXCEPT !.sock = "down", !.reply = "none"]
             o == [n EXCEPT !.nfsid = NoNfs, !.id = NoHost]
             oc == [o EXCEPT !.sock = "down", !.reply = "none"]
  <1>1. n \in NodeW
    BY Fields
  <1> HIDE DEF n
  <1>2. /\ f \in NodeW /\ f.state = n.state /\ f.nfsid = n.nfsid /\ f.sock = n.sock /\ f.reply = n.reply
    BY <1>1 DEF NodeW
  <1>3. /\ c \in NodeW /\ c.state = n.state /\ c.nfsid = n.nfsid /\ c.sock = "down" /\ c.reply = "none"
    BY <1>1 DEF NodeW
  <1>4. /\ o \in NodeW /\ o.state = n.state /\ o.nfsid = NoNfs /\ o.sock = n.sock /\ o.reply = n.reply
    BY <1>1 DEF NodeW
  <1> HIDE DEF o
  <1>5. /\ oc \in NodeW /\ oc.state = o.state /\ oc.nfsid = o.nfsid /\ oc.sock = "down" /\ oc.reply = "none"
    BY <1>4 DEF NodeW
  <1> HIDE DEF f, c, oc
  <1>6. Failed(w, a) = Disconnected([w EXCEPT !.node[a] = f], a)
    BY DEF Failed, f, n
  <1>7. Closed(w, a) = [w EXCEPT !.node[a] = c]
    BY Fields DEF Closed, c, n, MaestroW
  <1>8. Leave(w, a) = Disconnected([w EXCEPT !.node[a] = o], a)
        \/ Leave(w, a) = Disconnected([w EXCEPT !.node[a] = oc], a)
    <2> DEFINE u == [w EXCEPT !.node[a].nfsid = NoNfs, !.node[a].id = NoHost]
    <2>1. u = [w EXCEPT !.node[a] = o]
      BY DEF o, n, MaestroW
    <2>2. Closed(u, a) = [w EXCEPT !.node[a] = oc]
      BY DEF Closed, o, oc, n, MaestroW
    <2>3. Leave(w, a) = Disconnected(u, a) \/ Leave(w, a) = Disconnected(Closed(u, a), a)
      BY DEF Leave
    <2>4. QED
      BY <2>1, <2>2, <2>3
  <1>9. /\ Leaves(w, Disconnected([w EXCEPT !.node[a] = f], a), a)
        /\ Leaves(w, Disconnected([w EXCEPT !.node[a] = c], a), a)
    BY <1>2, <1>3, LeavesFrom DEF n
  <1>10. /\ Leaves(w, Disconnected([w EXCEPT !.node[a] = o], a), a)
         /\ Leaves(w, Disconnected([w EXCEPT !.node[a] = oc], a), a)
    BY <1>4, <1>5, LeavesFrom DEF n
  <1>11. QED
    BY <1>6, <1>7, <1>8, <1>9, <1>10

(* After a key was appended: all the nodes that wait.                        *)
LEMMA ContinueAllConnects ==
    ASSUME NEW w \in MaestroW
    PROVE  Connects(w, ContinueAll(w))
  <1>1. CASE ~w.client
    BY <1>1, Fields DEF ContinueAll, Connects
  <1>2. CASE w.client
    <2> DEFINE all   == {a \in ToSet(w.list) : Waiting(w, a)}
               nodes == [a \in Addresses |-> IF a \in all THEN Connect(w, a).node[a] ELSE w.node[a]]
               rows  == [a \in Addresses |-> IF a \in all THEN Connect(w, a).seen[a] ELSE w.seen[a]]
               more  == Cardinality({a \in all : Connect(w, a).orphans # w.orphans})
               o     == w.orphans + more
               v     == [w EXCEPT !.node = nodes, !.seen = rows, !.orphans = o]
    <2>1. ContinueAll(w) = v
      BY <1>2 DEF ContinueAll
    <2>2. \A a \in Addresses : LET c == Connect(w, a)
                              IN /\ c \in MaestroW /\ Steady(w.node[a], c.node[a])
                                 /\ w.node[a].state # "DISCONNECTED" => c = w
                                 /\ w.node[a].state = "DISCONNECTED" =>
                                      c.node[a].state = "RUN" /\ (w.client => c.seen[a] = "RUN")
      BY ConnectCalm DEF Calm, Mild
    <2>3. all \subseteq Addresses
      BY Fields DEF ToSet
    <2>4. ASSUME NEW a \in Addresses
          PROVE  /\ nodes[a] \in NodeW /\ rows[a] \in States \cup {"none"}
                 /\ Steady(w.node[a], nodes[a])
                 /\ \/ nodes[a] = w.node[a] /\ rows[a] = w.seen[a]
                    \/ /\ a \in ToSet(w.list) /\ Waiting(w, a) /\ w.node[a].state = "DISCONNECTED"
                       /\ nodes[a].state = "RUN" /\ (w.client => rows[a] = "RUN")
      <3> DEFINE c == Connect(w, a)
      <3>1. /\ c \in MaestroW /\ Steady(w.node[a], c.node[a])
            /\ w.node[a].state # "DISCONNECTED" => c = w
            /\ w.node[a].state = "DISCONNECTED" =>
                 c.node[a].state = "RUN" /\ (w.client => c.seen[a] = "RUN")
        BY <2>2
      <3>2. nodes[a] = IF a \in all THEN c.node[a] ELSE w.node[a]
        OBVIOUS
      <3>3. rows[a] = IF a \in all THEN c.seen[a] ELSE w.seen[a]
        OBVIOUS
      <3>4. a \in all => a \in ToSet(w.list) /\ Waiting(w, a)
        OBVIOUS
      <3> HIDE DEF nodes, rows, all, c
      <3>5. /\ c.node[a] \in NodeW /\ c.seen[a] \in States \cup {"none"}
            /\ w.node[a] \in NodeW /\ w.seen[a] \in States \cup {"none"}
            /\ Steady(w.node[a], w.node[a])
        BY <3>1, Fields DEF Calm, Mild
      <3>6. QED
        BY <3>1, <3>2, <3>3, <3>4, <3>5
    <2>5. nodes \in [Addresses -> NodeW] /\ rows \in [Addresses -> States \cup {"none"}]
      <3> HIDE DEF all
      <3>1. QED
        BY <2>4
    <2>6. o \in Nat
      <3> DEFINE S == {a \in all : Connect(w, a).orphans # w.orphans}
      <3>1. S \in SUBSET Addresses
        BY <2>3
      <3>2. Cardinality(S) \in Nat
        BY <3>1, FS_Subset, FS_CardinalityType, ConnectionsAssumption
      <3> HIDE DEF S, all
      <3>3. more = Cardinality(S)
        BY DEF S
      <3> HIDE DEF more
      <3>4. QED
        BY <3>2, <3>3, Fields
    <2> HIDE DEF nodes, rows, o
    <2>7. /\ v \in MaestroW /\ v.list = w.list /\ v.nfsid = w.nfsid /\ v.node = nodes
          /\ v.seen = rows /\ v.client = w.client
      BY <2>5, <2>6 DEF MaestroW
    <2> HIDE DEF v
    <2>8. Calm(w, v)
      BY <2>4, <2>7 DEF Calm, Mild
    <2>9. Connects(w, v)
      BY <2>4, <2>7, <2>8 DEF Connects
    <2>10. QED
      BY <2>1, <2>9
  <1>3. QED
    BY <1>1, <1>2

(* A change of the node before it leaves.                                    *)
LEMMA LeavesAfter ==
    ASSUME NEW w \in MaestroW, NEW a \in Addresses, NEW n \in NodeW, NEW v,
           n.state = w.node[a].state, Steady(w.node[a], n),
           Leaves([w EXCEPT !.node[a] = n], v, a)
    PROVE  Leaves(w, v, a)
  <1> DEFINE u == [w EXCEPT !.node[a] = n]
  <1>1. /\ u \in MaestroW /\ u.list = w.list /\ u.node[a] = n
        /\ u.seen = w.seen /\ u.client = w.client /\ Calm(w, u)
        /\ \A b \in Addresses : b # a => u.node[b] = w.node[b]
    BY NodeChanged
  <1>2. Leaves(u, v, a)
    OBVIOUS
  <1> HIDE DEF u
  <1>3. Calm(w, v)
    BY <1>1, <1>2, CalmTrans DEF Leaves
  <1>4. QED
    BY <1>1, <1>2, <1>3 DEF Leaves

(* on_daemon_init with an error, and gebrm_daemon_invalid_password.          *)
LEMMA TurnedAwayLeaves ==
    ASSUME NEW w \in MaestroW, NEW a \in Addresses, NEW e \in Errors
    PROVE  Leaves(w, TurnedAway(w, a, e), a)
  <1> DEFINE n == [w.node[a] EXCEPT !.err = e]
             u == [w EXCEPT !.node[a] = n]
  <1>1. w.node[a] \in NodeW
    BY Fields
  <1>2. n \in NodeW /\ n.state = w.node[a].state /\ Steady(w.node[a], n)
    BY <1>1 DEF NodeW, Steady
  <1>3. TurnedAway(w, a, e) = Leave(u, a)
    BY DEF TurnedAway, MaestroW
  <1> HIDE DEF n
  <1>4. u \in MaestroW
    BY <1>2, NodeChanged
  <1>5. Leaves(u, Leave(u, a), a)
    BY <1>4, LeaveLeaves
  <1>6. QED
    BY <1>2, <1>3, <1>5, LeavesAfter

(* What the removal of a node does.                                          *)
Removes(w, v, a) ==
    /\ Mild(w, v) /\ v.client = w.client /\ v.list = RemoveFirst(w.list, a)
    /\ v.node[a] = NewNode /\ (w.client => v.seen[a] = "none")
    /\ \A b \in Addresses :
         \/ b = a
         \/ v.node[b] = w.node[b] /\ v.seen[b] = w.seen[b]
         \/ /\ b \in ToSet(w.list) /\ w.node[b].state = "DISCONNECTED"
            /\ v.node[b].state = "RUN" /\ (w.client => v.seen[b] = "RUN")

(* A node as gebrm_daemon_new makes it.                                      *)
LEMMA NewNodeW ==
    NewNode \in NodeW /\ \A n : Steady(n, NewNode)
  <1>1. NewNode \in NodeW
    BY DEF NewNode, NodeW, States, Errors
  <1>2. QED
    BY <1>1 DEF NewNode, Steady

(* remove_daemon                                                             *)
LEMMA RemoveDaemonRemoves ==
    ASSUME NEW w \in MaestroW, NEW a \in Addresses
    PROVE  Removes(w, RemoveDaemon(w, a), a)
  <1> DEFINE l == RemoveFirst(w.list, a)
             x == [w EXCEPT !.list = l]
             y == Leave(x, a)
             o == y.orphans + IF y.node[a].timer = "live" THEN 1 ELSE 0
             z == [y EXCEPT !.node[a] = NewNode, !.orphans = o]
             v == TellRemoved(z, a)
  <1>1. v = RemoveDaemon(w, a)
    BY DEF RemoveDaemon, RemoveFromList
  <1>2. l \in Seq(Addresses) /\ ToSet(l) \subseteq ToSet(w.list)
    BY Fields, RemoveElements
  <1> HIDE DEF l
  <1>3. /\ x \in MaestroW /\ x.list = l /\ x.nfsid = w.nfsid /\ x.node = w.node
        /\ x.seen = w.seen /\ x.client = w.client
    BY <1>2 DEF MaestroW
  <1> HIDE DEF x
  <1>4. Leaves(x, y, a)
    BY <1>3, LeaveLeaves
  <1>5. y \in MaestroW
    BY <1>4 DEF Leaves, Calm, Mild
  <1> HIDE DEF y
  <1>6. o \in Nat
    BY <1>5, Fields
  <1> HIDE DEF o
  <1>7. /\ z \in MaestroW /\ z.list = y.list /\ z.nfsid = y.nfsid /\ z.node[a] = NewNode
        /\ z.seen = y.seen /\ z.client = y.client
        /\ \A b \in Addresses : b # a => z.node[b] = y.node[b]
    BY <1>5, <1>6, NewNodeW DEF MaestroW
  <1> HIDE DEF z
  <1>8. /\ v \in MaestroW /\ v.list = z.list /\ v.nfsid = z.nfsid /\ v.node = z.node
        /\ v.client = z.client /\ (z.client => v.seen[a] = "none")
        /\ \A b \in Addresses : b # a => v.seen[b] = z.seen[b]
    <2>1. CASE ~z.client
      BY <1>7, <2>1 DEF TellRemoved
    <2>2. CASE z.client
      BY <1>7, <2>2 DEF TellRemoved, MaestroW
    <2>3. QED
      BY <2>1, <2>2
  <1> HIDE DEF v
  <1>9. /\ v.list = l /\ v.nfsid = w.nfsid /\ v.client = w.client /\ v.node[a] = NewNode
        /\ (w.client => v.seen[a] = "none")
    BY <1>3, <1>4, <1>7, <1>8 DEF Leaves, Calm, Mild
  <1>10. ASSUME NEW b \in Addresses, b # a
         PROVE  /\ Steady(w.node[b], v.node[b])
                /\ \/ v.node[b] = w.node[b] /\ v.seen[b] = w.seen[b]
                   \/ /\ b \in ToSet(w.list) /\ w.node[b].state = "DISCONNECTED"
                      /\ v.node[b].state = "RUN" /\ (w.client => v.seen[b] = "RUN")
    BY <1>2, <1>3, <1>4, <1>7, <1>8, <1>10 DEF Leaves, Calm, Mild
  <1>11. Steady(w.node[a], v.node[a])
    BY <1>9, NewNodeW
  <1>12. Removes(w, v, a)
    BY <1>8, <1>9, <1>10, <1>11 DEF Removes, Mild, l
  <1>13. QED
    BY <1>1, <1>12

(* What the client shows of a node, as in NodesShown; and a node that is not *)
(* on the list is as a new one.                                              *)
FineAt(w, a) ==
    /\ a \notin ToSet(w.list) => w.node[a] = NewNode
    /\ w.client =>
         IF w.seen[a] = "none" THEN a \in ToSet(w.list) => a = Own /\ w.node[a].state = "DISCONNECTED"
         ELSE /\ a \in ToSet(w.list)
              /\ \/ w.seen[a] = w.node[a].state
                 \/ /\ w.seen[a] = "DISCONNECTED"
                    /\ w.node[a].state \in {"RUN", "CONNECT"} \/ w.node[a].err = "stop"

Fine(w) == IsInjective(w.list) /\ \A a \in Addresses : FineAt(w, a)

(* It is kept by the callbacks of connect-all, ...                           *)
LEMMA ConnectsFine ==
    ASSUME NEW w, NEW v, Connects(w, v), Fine(w)
    PROVE  Fine(v)
  BY DEF Connects, Calm, Fine, FineAt

(* ... the end of a connection,                                              *)
LEMMA LeavesFine ==
    ASSUME NEW w, NEW v, NEW a \in Addresses, Leaves(w, v, a), a \in ToSet(w.list), Fine(w)
    PROVE  Fine(v)
  <1>1. FineAt(v, a)
    BY DEF Leaves, Calm, Fine, FineAt
  <1>2. \A b \in Addresses : b # a => FineAt(v, b)
    BY DEF Leaves, Calm, Fine, FineAt
  <1>3. QED
    BY <1>1, <1>2 DEF Leaves, Calm, Fine

(* ... and the removal of a node.                                            *)
LEMMA RemovesFine ==
    ASSUME NEW w \in MaestroW, NEW v, NEW a \in Addresses, Removes(w, v, a), Fine(w)
    PROVE  Fine(v)
  <1>1. /\ ToSet(v.list) \subseteq ToSet(w.list) /\ ToSet(w.list) \subseteq ToSet(v.list) \cup {a}
        /\ a \notin ToSet(v.list) /\ IsInjective(v.list)
    BY RemoveElements, Fields DEF Removes, Fine
  <1>2. FineAt(v, a)
    BY <1>1 DEF Removes, FineAt
  <1>3. ASSUME NEW b \in Addresses, b # a PROVE FineAt(v, b)
    <2>1. b \in ToSet(v.list) <=> b \in ToSet(w.list)
      BY <1>1, <1>3
    <2>2. QED
      BY <1>3, <2>1 DEF Removes, Fine, FineAt
  <1>4. QED
    BY <1>1, <1>2, <1>3 DEF Fine

-----------------------------------------------------------------------------
(* The invariant.                                                            *)

(* What ties the nodes to the machines behind them.  The file system kept    *)
(* for a node is that of its machine, or not known; a node that is logged in *)
(* has a connection, to a machine of the maestro's file system; the answer   *)
(* to a login has come over a connection; and a connection is the only one   *)
(* its machine has, which the machine knows of.                              *)
TiedAt(w, helds, a) ==
    /\ w.node[a].nfsid \in {NoNfs, NfsOf[HostOf[a]]}
    /\ w.node[a].state = "LOGGED" => w.node[a].sock = "up" /\ NfsOf[HostOf[a]] = w.nfsid
    /\ w.node[a].reply = "ok" => w.node[a].sock = "up"
    /\ w.node[a].sock = "up" =>
         /\ helds[HostOf[a]] = "live"
         /\ \A b \in Addresses : w.node[b].sock = "up" /\ HostOf[b] = HostOf[a] => b = a

Tied(w, helds) == \A a \in Addresses : TiedAt(w, helds, a)

Kept ==
    /\ m \in Maestro
    /\ held \in [Hosts -> {"none", "live", "dead"}]
    /\ Tied(m, held)
    /\ Fine(m)

CInv == TypeOK /\ Tied(m, held) /\ Fine(m)

(* A step of the maestro: what handlers may do to nodes that they do not log *)
(* in, and the login of a node.                                              *)
MovesAt(w, v, a) ==
    /\ v.node[a].nfsid \in {w.node[a].nfsid, NoNfs, NfsOf[HostOf[a]]}
    /\ \/ /\ v.node[a].sock = w.node[a].sock /\ (v.node[a].reply = "ok" => w.node[a].reply = "ok")
          /\ v.node[a].state = "LOGGED" =>
               \/ w.node[a].state = "LOGGED"
               \/ w.node[a].sock = "up" /\ NfsOf[HostOf[a]] = v.nfsid
       \/ v.node[a].sock # "up" /\ v.node[a].reply # "ok" /\ v.node[a].state # "LOGGED"

Moves(w, v) ==
    /\ v \in MaestroW /\ (v.nfsid = w.nfsid \/ w.nfsid = NoNfs)
    /\ \A a \in Addresses : MovesAt(w, v, a)

(* Handlers that log no node in make such steps.                             *)
LEMMA MildMoves ==
    ASSUME NEW w, NEW v, Mild(w, v)
    PROVE  Moves(w, v)
  BY DEF Mild, Steady, Moves, MovesAt

(* The maestro is what its handlers take, too.                               *)
LEMMA MaestroWider ==
    ASSUME NEW w \in Maestro
    PROVE  w \in MaestroW
  <1>1. ASSUME NEW n \in Node PROVE n \in NodeW
    <2>1. n.running \in Nat /\ n.asking \in Nat
      BY ConnectionsAssumption DEF Node
    <2>2. QED
      BY <2>1 DEF Node, NodeW
  <1>2. w.node \in [Addresses -> NodeW]
    BY <1>1 DEF Maestro
  <1>3. QED
    BY <1>2 DEF Maestro, MaestroW

(* The step as a whole keeps the bounds, ...                                 *)
LEMMA BecomesTyped ==
    ASSUME NEW v \in MaestroW, NEW helds \in [Hosts -> {"none", "live", "dead"}], Becomes(v, helds)
    PROVE  /\ m' \in Maestro /\ held' \in [Hosts -> {"none", "live", "dead"}]
           /\ m'.list = v.list /\ m'.node = v.node /\ m'.seen = v.seen /\ m'.client = v.client
           /\ m'.nfsid = v.nfsid
  <1> DEFINE o == v.connectAll /\ (v.hampered \/ Obstacle(v))
  <1>1. o \in BOOLEAN
    BY Fields
  <1>2. m' = [v EXCEPT !.hampered = o]
    BY DEF Becomes
  <1> HIDE DEF o
  <1>3. ASSUME NEW a \in Addresses PROVE v.node[a] \in Node
    <2> DEFINE n == v.node[a]
    <2>1. n \in NodeW /\ n.running + n.asking <= MaxProviders
      BY Fields DEF Becomes
    <2> HIDE DEF n
    <2>2. n.running \in 0..MaxProviders /\ n.asking \in 0..MaxProviders
      <3>1. n.running \in Nat /\ n.asking \in Nat
        BY <2>1 DEF NodeW
      <3>2. QED
        BY <2>1, <3>1, ConnectionsAssumption
    <2>3. n \in Node
      BY <2>1, <2>2 DEF Node, NodeW
    <2>4. QED
      BY <2>3 DEF n
  <1>4. v.node \in [Addresses -> Node]
    BY <1>3, Fields
  <1>5. /\ m' \in Maestro /\ m'.list = v.list /\ m'.node = v.node /\ m'.seen = v.seen
        /\ m'.client = v.client /\ m'.nfsid = v.nfsid
    BY <1>1, <1>2, <1>4 DEF Maestro, MaestroW
  <1>6. held' \in [Hosts -> {"none", "live", "dead"}]
    BY DEF Becomes
  <1>7. QED
    BY <1>5, <1>6

(* ... and the ties: a connection that goes on was the only one, so its      *)
(* machine does not lose it.                                                 *)
LEMMA MovesKept ==
    ASSUME Kept, NEW v, Moves(m, v), Fine(v), Becomes(v, held)
    PROVE  Kept'
  <1>1. /\ m' \in Maestro /\ held' \in [Hosts -> {"none", "live", "dead"}]
        /\ m'.list = v.list /\ m'.node = v.node /\ m'.seen = v.seen /\ m'.client = v.client
        /\ m'.nfsid = v.nfsid
    BY BecomesTyped DEF Kept, Moves
  <1>2. Fine(m')
    BY <1>1 DEF Fine, FineAt
  <1>3. ASSUME NEW a \in Addresses PROVE TiedAt(m', held', a)
    <2>1. TiedAt(m, held, a) /\ MovesAt(m, v, a) /\ HostOf[a] \in Hosts
      BY ConnectionsAssumption DEF Kept, Tied, Moves
    <2>2. v.node[a].nfsid \in {NoNfs, NfsOf[HostOf[a]]}
      BY <2>1 DEF TiedAt, MovesAt
    <2>3. ASSUME v.node[a].state = "LOGGED"
          PROVE  v.node[a].sock = "up" /\ NfsOf[HostOf[a]] = v.nfsid
      <3>1. \/ m.node[a].state = "LOGGED"
            \/ m.node[a].sock = "up" /\ NfsOf[HostOf[a]] = v.nfsid
        BY <2>1, <2>3 DEF MovesAt
      <3>2. v.node[a].sock = m.node[a].sock
        BY <2>1, <2>3 DEF MovesAt
      <3>3. NfsOf[HostOf[a]] # NoNfs
        BY <2>1, ConnectionsAssumption
      <3>4. v.nfsid = m.nfsid \/ m.nfsid = NoNfs
        BY DEF Moves
      <3>5. QED
        BY <2>1, <3>1, <3>2, <3>3, <3>4 DEF TiedAt
    <2>4. v.node[a].reply = "ok" => v.node[a].sock = "up"
      BY <2>1 DEF TiedAt, MovesAt
    <2>5. ASSUME v.node[a].sock = "up"
          PROVE  /\ held'[HostOf[a]] = "live"
                 /\ \A b \in Addresses : v.node[b].sock = "up" /\ HostOf[b] = HostOf[a] => b = a
      <3>1. m.node[a].sock = "up"
        BY <2>1, <2>5 DEF MovesAt
      <3>2. /\ held[HostOf[a]] = "live"
            /\ \A b \in Addresses : m.node[b].sock = "up" /\ HostOf[b] = HostOf[a] => b = a
        BY <2>1, <3>1 DEF TiedAt
      <3>3. \A b \in Addresses : v.node[b].sock = "up" => m.node[b].sock = "up"
        BY DEF Moves, MovesAt
      <3>4. ~\E b \in Addresses : /\ HostOf[b] = HostOf[a]
                                   /\ m.node[b].sock = "up" /\ v.node[b].sock # "up"
        BY <2>5, <3>2
      <3>5. held'[HostOf[a]] = held[HostOf[a]]
        BY <2>1, <3>4 DEF Becomes
      <3>6. QED
        BY <3>2, <3>3, <3>5
    <2>6. QED
      BY <1>1, <2>2, <2>3, <2>4, <2>5 DEF TiedAt
  <1>4. QED
    BY <1>1, <1>2, <1>3 DEF Kept, Tied

-----------------------------------------------------------------------------
(* The steps.                                                                *)

(* A request or an event is a step of the maestro.                           *)
LEMMA StepBecomes ==
    ASSUME NEW w, NEW helds
    PROVE  /\ Request(w) => Becomes(w, held) /\ m.client
           /\ Event(w, helds) => Becomes(w, helds)
  BY DEF Request, Event

(* A step that logs no node in.                                              *)
LEMMA MildKept ==
    ASSUME Kept, NEW v, Mild(m, v), Fine(v), Becomes(v, held)
    PROVE  Kept'
  BY MildMoves, MovesKept

(* What the handlers find.                                                   *)
LEMMA KeptFields ==
    ASSUME Kept
    PROVE  m \in MaestroW /\ Fine(m) /\ m.client \in BOOLEAN /\ Mild(m, m)
  BY MaestroWider, Fields DEF Kept, Calm

(* A node for which something is under way is on the list.                   *)
LEMMA BusyListed ==
    ASSUME NEW w, Fine(w), NEW a \in Addresses,
           \/ w.node[a].running > 0 \/ w.node[a].asking > 0 \/ w.node[a].keying
           \/ w.node[a].sock # "down" \/ w.node[a].reply # "none" \/ w.node[a].timer = "live"
    PROVE  a \in ToSet(w.list)
  <1>1. w.node[a] # NewNode
    BY DEF NewNode
  <1>2. QED
    BY <1>1 DEF Fine, FineAt

(* A change of a node that no client would see.                              *)
LEMMA TouchedFine ==
    ASSUME NEW w \in MaestroW, Fine(w), NEW a \in ToSet(w.list), a \in Addresses, NEW n \in NodeW,
           n.state = w.node[a].state, n.err = w.node[a].err \/ w.node[a].err # "stop",
           Steady(w.node[a], n)
    PROVE  LET v == [w EXCEPT !.node[a] = n]
           IN /\ Calm(w, v) /\ v \in MaestroW /\ v.list = w.list /\ v.node[a] = n /\ v.client = w.client
              /\ Fine(v)
  <1> DEFINE v == [w EXCEPT !.node[a] = n]
  <1>1. /\ v \in MaestroW /\ v.list = w.list /\ v.node[a] = n /\ Calm(w, v)
        /\ v.seen = w.seen /\ v.client = w.client
        /\ \A b \in Addresses : b # a => v.node[b] = w.node[b]
    BY NodeChanged
  <1> HIDE DEF v
  <1>2. FineAt(v, a)
    BY <1>1 DEF Fine, FineAt
  <1>3. Fine(v)
    BY <1>1, <1>2 DEF Fine, FineAt
  <1>4. QED
    BY <1>1, <1>3 DEF v

(* on_comm_ssh_password, /set-password                                       *)
LEMMA PasswordKept ==
    ASSUME Kept, NEW a \in Addresses, Ask(a) \/ SetPassword(a)
    PROVE  Kept'
  <1> DEFINE n == m.node[a]
             r == n.running - 1
             s == n.asking + 1
             t == n.running + n.asking
             k == [n EXCEPT !.running = r, !.asking = s]
             j == [n EXCEPT !.running = t, !.asking = 0]
  <1>1. m \in MaestroW /\ Fine(m) /\ n \in NodeW
    BY KeptFields, Fields
  <1>2. n.running \in Nat /\ n.asking \in Nat
    BY <1>1 DEF NodeW
  <1>3. n.running > 0 \/ n.asking > 0
    BY DEF Ask, SetPassword
  <1>4. a \in ToSet(m.list)
    BY <1>1, <1>3, BusyListed
  <1>5. CASE Ask(a)
    <2>1. r \in Nat /\ s \in Nat
      BY <1>2, <1>5 DEF Ask
    <2> HIDE DEF r, s, n
    <2>2. k \in NodeW /\ k.state = n.state /\ k.err = n.err /\ Steady(n, k)
      BY <1>1, <2>1 DEF NodeW, Steady
    <2>3. Event([m EXCEPT !.node[a] = k], held)
      BY <1>1, <1>5 DEF Ask, k, n, r, s, MaestroW
    <2> HIDE DEF k
    <2> DEFINE v == [m EXCEPT !.node[a] = k]
    <2>4. Calm(m, v) /\ Fine(v)
      BY <1>1, <1>4, <2>2, TouchedFine DEF n
    <2>5. Becomes(v, held)
      BY <2>3, StepBecomes
    <2> HIDE DEF v
    <2>6. QED
      BY <2>4, <2>5, MildKept DEF Calm
  <1>6. CASE SetPassword(a)
    <2>1. t \in Nat
      BY <1>2
    <2> HIDE DEF t, n
    <2>2. j \in NodeW /\ j.state = n.state /\ j.err = n.err /\ Steady(n, j)
      BY <1>1, <2>1 DEF NodeW, Steady
    <2>3. Event([m EXCEPT !.node[a] = j], held)
      BY <1>1, <1>6 DEF SetPassword, j, n, t, MaestroW
    <2> HIDE DEF j
    <2> DEFINE v == [m EXCEPT !.node[a] = j]
    <2>4. Calm(m, v) /\ Fine(v)
      BY <1>1, <1>4, <2>2, TouchedFine DEF n
    <2>5. Becomes(v, held)
      BY <2>3, StepBecomes
    <2> HIDE DEF v
    <2>6. QED
      BY <2>4, <2>5, MildKept DEF Calm
  <1>7. QED
    BY <1>5, <1>6

(* A connection ends.                                                        *)
LEMMA EndKept ==
    ASSUME Kept, NEW a \in Addresses, NEW v, a \in ToSet(m.list), Leaves(m, v, a), Becomes(v, held)
    PROVE  Kept'
  BY KeptFields, LeavesFine, MildKept DEF Leaves, Calm

(* /disconnect, and a connection that breaks                                 *)
LEMMA LostKept ==
    ASSUME Kept, NEW a \in Addresses, AskDisconnect(a) \/ Lost(a)
    PROVE  Kept'
  <1>1. m \in MaestroW /\ Fine(m)
    BY KeptFields
  <1>2. CASE AskDisconnect(a)
    <2> DEFINE v == Leave(m, a)
    <2>1. a \in ToSet(m.list) /\ Becomes(v, held)
      BY <1>2, StepBecomes DEF AskDisconnect, Listed
    <2>2. Leaves(m, v, a)
      BY <1>1, LeaveLeaves
    <2> HIDE DEF v
    <2>3. QED
      BY <2>1, <2>2, EndKept
  <1>3. CASE Lost(a)
    <2> DEFINE v == Disconnected(Closed(m, a), a)
    <2>1. Becomes(v, held) /\ m.node[a].sock # "down"
      BY <1>3 DEF Lost
    <2>2. Leaves(m, v, a)
      BY <1>1, LeaveLeaves
    <2> HIDE DEF v
    <2>3. a \in ToSet(m.list)
      BY <1>1, <2>1, BusyListed
    <2>4. QED
      BY <2>1, <2>2, <2>3, EndKept
  <1>4. QED
    BY <1>2, <1>3

(* on_comm_ssh_error                                                         *)
LEMMA PortErrorKept ==
    ASSUME Kept, NEW a \in Addresses, PortError(a)
    PROVE  Kept'
  <1> DEFINE n == m.node[a]
             r == n.running - 1
             k == [n EXCEPT !.running = r]
             u == [m EXCEPT !.node[a] = k]
             v == Failed(u, a)
  <1>1. m \in MaestroW /\ Fine(m) /\ n \in NodeW
    BY KeptFields, Fields
  <1>2. n.running > 0 /\ r \in Nat
    BY <1>1 DEF PortError, NodeW
  <1>3. a \in ToSet(m.list)
    BY <1>1, <1>2, BusyListed
  <1>4. Event(v, held)
    BY <1>1 DEF PortError, MaestroW
  <1> HIDE DEF r, n
  <1>5. k \in NodeW /\ k.state = n.state /\ Steady(n, k)
    BY <1>1, <1>2 DEF NodeW, Steady
  <1> HIDE DEF k
  <1>6. u \in MaestroW
    BY <1>1, <1>5, NodeChanged
  <1>7. Leaves(u, v, a)
    BY <1>6, LeaveLeaves
  <1>8. Becomes(v, held)
    BY <1>4, StepBecomes
  <1> HIDE DEF v
  <1>9. Leaves(m, v, a)
    BY <1>1, <1>5, <1>7, LeavesAfter DEF n
  <1>10. QED
    BY <1>3, <1>8, <1>9, EndKept

(* gebrm_daemon_invalid_password                                             *)
LEMMA InvalidPasswordKept ==
    ASSUME Kept, NEW a \in Addresses, InvalidPassword(a)
    PROVE  Kept'
  <1> DEFINE n == m.node[a]
             k == [n EXCEPT !.asking = 0]
             u == [m EXCEPT !.node[a] = k]
             w == Failed(u, a)
             j == [w.node[a] EXCEPT !.err = "ssh", !.canceled = TRUE]
             x == [w EXCEPT !.node[a] = j]
             v == Leave(x, a)
  <1>1. m \in MaestroW /\ Fine(m) /\ n \in NodeW
    BY KeptFields, Fields
  <1>2. n.asking > 0
    BY DEF InvalidPassword
  <1>3. a \in ToSet(m.list)
    BY <1>1, <1>2, BusyListed
  <1>4. Event(Leave([w EXCEPT !.node[a].err = "ssh", !.node[a].canceled = TRUE], a), held)
    BY <1>1 DEF InvalidPassword, MaestroW
  <1> HIDE DEF n
  <1>5. k \in NodeW /\ k.state = n.state /\ Steady(n, k)
    BY <1>1 DEF NodeW, Steady
  <1> HIDE DEF k
  <1>6. u \in MaestroW
    BY <1>1, <1>5, NodeChanged
  <1>7. Leaves(u, w, a)
    BY <1>6, LeaveLeaves
  <1> HIDE DEF w
  <1>8. Leaves(m, w, a)
    BY <1>1, <1>5, <1>7, LeavesAfter DEF n
  <1>9. w \in MaestroW /\ w.node[a] \in NodeW
    BY <1>8, Fields DEF Leaves, Calm, Mild
  <1>10. j \in NodeW /\ j.state = w.node[a].state /\ Steady(w.node[a], j)
    BY <1>9 DEF NodeW, Steady, Errors
  <1>11. Event(v, held)
    BY <1>4, <1>9 DEF MaestroW
  <1> HIDE DEF j
  <1>12. x \in MaestroW
    BY <1>9, <1>10, NodeChanged
  <1>13. Leaves(x, v, a)
    BY <1>12, LeaveLeaves
  <1>14. Becomes(v, held)
    BY <1>11, StepBecomes
  <1> HIDE DEF v
  <1>15. Leaves(w, v, a)
    BY <1>9, <1>10, <1>13, LeavesAfter
  <1>16. Leaves(m, v, a)
    BY <1>8, <1>15, LeavesTrans
  <1>17. QED
    BY <1>3, <1>14, <1>16, EndKept

(* Connect-all goes on after a change of which a client sees nothing.        *)
LEMMA GoOnKept ==
    ASSUME Kept, NEW w, NEW v, Calm(m, w), Fine(w), Connects(w, v), Becomes(v, held)
    PROVE  Kept'
  <1>1. Mild(m, v)
    BY MildTrans DEF Connects, Calm
  <1>2. QED
    BY <1>1, ConnectsFine, MildKept

(* time_out_daemon                                                           *)
LEMMA TimeOutKept ==
    ASSUME Kept, NEW a \in Addresses, TimeOut(a)
    PROVE  Kept'
  <1> DEFINE n == m.node[a]
             k == [n EXCEPT !.timer = "none"]
             w == [m EXCEPT !.node[a] = k]
             v == VerifyConnectAll(Continue(w))
  <1>1. m \in MaestroW /\ Fine(m) /\ n \in NodeW
    BY KeptFields, Fields
  <1>2. n.timer = "live"
    BY DEF TimeOut
  <1>3. a \in ToSet(m.list)
    BY <1>1, <1>2, BusyListed
  <1>4. Event(v, held)
    BY <1>1 DEF TimeOut, MaestroW
  <1> HIDE DEF n
  <1>5. k \in NodeW /\ k.state = n.state /\ k.err = n.err /\ Steady(n, k)
    BY <1>1 DEF NodeW, Steady
  <1> HIDE DEF k
  <1>6. Calm(m, w) /\ w \in MaestroW /\ Fine(w)
    BY <1>1, <1>3, <1>5, TouchedFine DEF n
  <1> HIDE DEF w
  <1>7. Connects(w, v)
    BY <1>6, GoesOn
  <1>8. Becomes(v, held)
    BY <1>4, StepBecomes
  <1> HIDE DEF v
  <1>9. QED
    BY <1>6, <1>7, <1>8, GoOnKept

(* ... of a timer whose node has another, or is gone                         *)
LEMMA TimeOutOrphanKept ==
    ASSUME Kept, TimeOutOrphan
    PROVE  Kept'
  <1> DEFINE o == m.orphans - 1
             w == [m EXCEPT !.orphans = o]
             v == VerifyConnectAll(Continue(w))
  <1>1. m \in MaestroW /\ Fine(m)
    BY KeptFields
  <1>2. o \in Nat
    BY <1>1, Fields DEF TimeOutOrphan
  <1>3. Event(v, held)
    BY <1>1 DEF TimeOutOrphan, MaestroW
  <1> HIDE DEF o
  <1>4. /\ w \in MaestroW /\ w.list = m.list /\ w.nfsid = m.nfsid /\ w.node = m.node
        /\ w.seen = m.seen /\ w.client = m.client
    BY <1>1, <1>2 DEF MaestroW
  <1> HIDE DEF w
  <1>5. Calm(m, w) /\ Fine(w)
    BY <1>1, <1>4, Fields DEF Calm, Mild, Fine, FineAt
  <1>6. Connects(w, v)
    BY <1>4, GoesOn
  <1>7. Becomes(v, held)
    BY <1>3, StepBecomes
  <1> HIDE DEF v
  <1>8. QED
    BY <1>5, <1>6, <1>7, GoOnKept

(* on_daemon_append_key                                                      *)
LEMMA KeyAppendedKept ==
    ASSUME Kept, NEW a \in Addresses, KeyAppended(a)
    PROVE  Kept'
  <1> DEFINE n == m.node[a]
             k == [n EXCEPT !.keying = FALSE]
             w == [m EXCEPT !.node[a] = k]
             v == IF w.connectAll THEN ContinueAll(w) ELSE w
  <1>1. m \in MaestroW /\ Fine(m) /\ n \in NodeW
    BY KeptFields, Fields
  <1>2. n.keying
    BY DEF KeyAppended
  <1>3. a \in ToSet(m.list)
    BY <1>1, <1>2, BusyListed
  <1>4. Event(v, held)
    BY <1>1 DEF KeyAppended, MaestroW
  <1> HIDE DEF n
  <1>5. k \in NodeW /\ k.state = n.state /\ k.err = n.err /\ Steady(n, k)
    BY <1>1 DEF NodeW, Steady
  <1> HIDE DEF k
  <1>6. Calm(m, w) /\ w \in MaestroW /\ Fine(w)
    BY <1>1, <1>3, <1>5, TouchedFine DEF n
  <1> HIDE DEF w
  <1>7. Connects(w, v)
    BY <1>6, ContinueAllConnects, Fields DEF Connects
  <1>8. Becomes(v, held)
    BY <1>4, StepBecomes
  <1> HIDE DEF v
  <1>9. QED
    BY <1>6, <1>7, <1>8, GoOnKept

(* /remove                                                                   *)
LEMMA AskRemoveKept ==
    ASSUME Kept, NEW a \in Addresses, AskRemove(a)
    PROVE  Kept'
  <1> DEFINE v == RemoveDaemon(m, a)
  <1>1. m \in MaestroW /\ Fine(m)
    BY KeptFields
  <1>2. Becomes(v, held)
    BY StepBecomes DEF AskRemove
  <1>3. Removes(m, v, a)
    BY <1>1, RemoveDaemonRemoves
  <1> HIDE DEF v
  <1>4. QED
    BY <1>1, <1>2, <1>3, RemovesFine, MildKept DEF Removes

(* /stop                                                                     *)
LEMMA AskStopKept ==
    ASSUME Kept, NEW a \in Addresses, AskStop(a)
    PROVE  Kept'
  <1> DEFINE n == m.node[a]
             k == [n EXCEPT !.err = "stop"]
             w == [m EXCEPT !.node[a] = k]
             v == Tell(w, a, "DISCONNECTED")
  <1>1. m \in MaestroW /\ Fine(m) /\ n \in NodeW
    BY KeptFields, Fields
  <1>2. a \in ToSet(m.list)
    BY DEF AskStop, Listed
  <1>3. Request(v)
    BY <1>1 DEF AskStop, MaestroW
  <1> HIDE DEF n
  <1>4. k \in NodeW /\ k.err = "stop" /\ Steady(n, k)
    BY <1>1 DEF NodeW, Steady, Errors
  <1> HIDE DEF k
  <1>5. /\ w \in MaestroW /\ w.list = m.list /\ w.node[a] = k /\ Calm(m, w)
        /\ w.seen = m.seen /\ w.client = m.client
        /\ \A b \in Addresses : b # a => w.node[b] = m.node[b]
    BY <1>1, <1>4, NodeChanged DEF n
  <1> HIDE DEF w
  <1>6. "DISCONNECTED" \in States
    BY DEF States
  <1>7. /\ Calm(w, v) /\ v.node = w.node /\ v.client = w.client
        /\ w.client => v.seen[a] = "DISCONNECTED"
        /\ \A b \in Addresses : b # a => v.seen[b] = w.seen[b]
    BY <1>5, <1>6, TellCalm
  <1>8. Becomes(v, held)
    BY <1>3, StepBecomes
  <1> HIDE DEF v
  <1>9. Mild(m, v) /\ v.list = m.list
    BY <1>5, <1>7, MildTrans DEF Calm
  <1>10. FineAt(v, a)
    BY <1>1, <1>2, <1>4, <1>5, <1>7, <1>9 DEF Fine, FineAt
  <1>11. Fine(v)
    BY <1>1, <1>5, <1>7, <1>9, <1>10 DEF Fine, FineAt
  <1>12. QED
    BY <1>8, <1>9, <1>11, MildKept

(* A step that leaves the nodes alone.                                       *)
LEMMA SameNodesKept ==
    ASSUME Kept, NEW v \in MaestroW, v.list = m.list, v.nfsid = m.nfsid, v.node = m.node,
           Fine(v), Becomes(v, held)
    PROVE  Kept'
  <1>1. Mild(m, m)
    BY KeptFields
  <1>2. Mild(m, v)
    BY <1>1 DEF Mild
  <1>3. QED
    BY <1>2, MildKept

(* on_client_disconnect, and the INI of a client                             *)
LEMMA ClientKept ==
    ASSUME Kept, ClientLeaves \/ ClientComes
    PROVE  Kept'
  <1>1. m \in MaestroW /\ Fine(m)
    BY KeptFields
  <1>2. CASE ClientLeaves
    <2> DEFINE s == [a \in Addresses |-> "none"]
               v == [m EXCEPT !.client = FALSE, !.seen = s]
    <2>1. s \in [Addresses -> States \cup {"none"}]
      OBVIOUS
    <2>2. Becomes(v, held)
      BY <1>2, StepBecomes DEF ClientLeaves
    <2> HIDE DEF s
    <2>3. v \in MaestroW /\ v.list = m.list /\ v.nfsid = m.nfsid /\ v.node = m.node /\ v.client = FALSE
      BY <1>1, <2>1 DEF MaestroW
    <2> HIDE DEF v
    <2>4. Fine(v)
      BY <1>1, <2>3 DEF Fine, FineAt
    <2>5. QED
      BY <2>2, <2>3, <2>4, SameNodesKept
  <1>3. CASE ClientComes
    <2> DEFINE s == Shown(m.list, m.node)
               v == [m EXCEPT !.client = TRUE, !.seen = s]
    <2>1. s \in [Addresses -> States \cup {"none"}]
      BY DEF Shown, States
    <2>2. \A a \in Addresses :
            /\ a \notin ToSet(m.list) => s[a] = "none"
            /\ a \in ToSet(m.list) => IF m.node[a].state = "LOGGED" THEN s[a] = "LOGGED"
                                       ELSE s[a] = "DISCONNECTED"
      BY DEF Shown
    <2>3. Becomes(v, held)
      BY <1>3, StepBecomes DEF ClientComes
    <2> HIDE DEF s
    <2>4. /\ v \in MaestroW /\ v.list = m.list /\ v.nfsid = m.nfsid /\ v.node = m.node /\ v.client = TRUE
          /\ v.seen = s
      BY <1>1, <2>1 DEF MaestroW
    <2> HIDE DEF v
    <2>5. ASSUME NEW a \in Addresses PROVE FineAt(v, a)
      <3>1. m.node[a].state \in States
        BY <1>1, Fields DEF NodeW
      <3>2. QED
        BY <1>1, <2>2, <2>4, <3>1 DEF Fine, FineAt, States
    <2>6. Fine(v)
      BY <1>1, <2>4, <2>5 DEF Fine
    <2>7. QED
      BY <2>3, <2>4, <2>6, SameNodesKept
  <1>4. QED
    BY <1>2, <1>3

(* client_disconnected, in gebrd                                             *)
LEMMA GebrdNoticesKept ==
    ASSUME Kept, NEW h \in Hosts, GebrdNotices(h)
    PROVE  Kept'
  <1>1. m' = m /\ held[h] = "dead" /\ held' = [held EXCEPT ![h] = "none"]
    BY DEF GebrdNotices
  <1>2. held' \in [Hosts -> {"none", "live", "dead"}]
    BY <1>1 DEF Kept
  <1>3. \A a \in Addresses : TiedAt(m, held, a) => TiedAt(m, held', a)
    BY <1>1, ConnectionsAssumption DEF TiedAt, Kept
  <1>4. QED
    BY <1>1, <1>2, <1>3 DEF Kept, Tied

(* gebrm_add_server_to_list.  The client learns of the node when it is        *)
(* connected; only the own host of the maestro stays as it is.               *)
LEMMA AddAdds ==
    ASSUME NEW w \in MaestroW, Fine(w), NEW a \in Addresses
    PROVE  LET v == Add(w, a)
           IN /\ v \in MaestroW /\ Mild(w, v) /\ v.client = w.client /\ v.node = w.node
              /\ a \in ToSet(v.list) /\ IsInjective(v.list)
              /\ \A b \in Addresses : b # a => FineAt(v, b)
              /\ FineAt(v, a) \/ v.node[a].state = "DISCONNECTED"
              /\ a = Own => Fine(v)
  <1> DEFINE v == Add(w, a)
  <1>1. CASE a \in ToSet(w.list)
    BY <1>1, Fields DEF Add, Calm, Fine
  <1>2. CASE a \notin ToSet(w.list)
    <2> DEFINE l == <<a>> \o w.list
    <2>1. l \in Seq(Addresses) /\ ToSet(l) = {a} \cup ToSet(w.list) /\ IsInjective(l)
      BY <1>2, Fields, PrependElements DEF Fine
    <2>2. v = [w EXCEPT !.list = l]
      BY <1>2 DEF Add
    <2> HIDE DEF l
    <2>3. /\ v \in MaestroW /\ v.list = l /\ v.nfsid = w.nfsid /\ v.node = w.node
          /\ v.client = w.client /\ v.seen = w.seen
      BY <2>1, <2>2 DEF MaestroW
    <2> HIDE DEF v
    <2>4. Mild(w, v)
      BY <2>3, Fields DEF Mild, Calm
    <2>5. \A b \in Addresses : b # a => FineAt(v, b)
      BY <2>1, <2>3 DEF Fine, FineAt
    <2>6. v.node[a].state = "DISCONNECTED"
      BY <1>2, <2>3 DEF Fine, FineAt, NewNode
    <2>7. a = Own => FineAt(v, a)
      BY <1>2, <2>1, <2>3, <2>6 DEF Fine, FineAt
    <2>8. a = Own => Fine(v)
      BY <2>1, <2>3, <2>5, <2>7 DEF Fine
    <2>9. QED
      BY <2>1, <2>3, <2>4, <2>5, <2>6, <2>8 DEF v
  <1>3. QED
    BY <1>1, <1>2

(* The connection of a node on the list begins, and the client is told.      *)
LEMMA ConnectFine ==
    ASSUME NEW w \in MaestroW, NEW a \in Addresses, a \in ToSet(w.list), IsInjective(w.list),
           \A b \in Addresses : b # a => FineAt(w, b),
           FineAt(w, a) \/ w.node[a].state = "DISCONNECTED"
    PROVE  Fine(Connect(w, a))
  <1> DEFINE v == Connect(w, a)
  <1>1. /\ v.list = w.list /\ v.client = w.client
        /\ \A b \in Addresses : b # a => v.node[b] = w.node[b] /\ v.seen[b] = w.seen[b]
        /\ w.node[a].state # "DISCONNECTED" => v = w
        /\ w.node[a].state = "DISCONNECTED" =>
             v.node[a].state = "RUN" /\ (w.client => v.seen[a] = "RUN")
    BY ConnectCalm DEF Calm
  <1> HIDE DEF v
  <1>2. \A b \in Addresses : b # a => FineAt(v, b)
    BY <1>1 DEF FineAt
  <1>3. FineAt(v, a)
    <2>1. CASE w.node[a].state # "DISCONNECTED"
      BY <1>1, <2>1
    <2>2. CASE w.node[a].state = "DISCONNECTED"
      BY <1>1, <2>2 DEF FineAt
    <2>3. QED
      BY <2>1, <2>2
  <1>4. Fine(v)
    BY <1>1, <1>2, <1>3 DEF Fine
  <1>5. QED
    BY <1>4 DEF v

(* /server                                                                   *)
LEMMA AskConnectKept ==
    ASSUME Kept, NEW a \in Addresses, AskConnect(a)
    PROVE  Kept'
  <1> DEFINE w == Add(m, a)
             v == Connect(w, a)
  <1>1. m \in MaestroW /\ Fine(m)
    BY KeptFields
  <1>2. Becomes(v, held)
    BY StepBecomes DEF AskConnect
  <1>3. /\ w \in MaestroW /\ Mild(m, w) /\ a \in ToSet(w.list) /\ IsInjective(w.list)
        /\ \A b \in Addresses : b # a => FineAt(w, b)
        /\ FineAt(w, a) \/ w.node[a].state = "DISCONNECTED"
    BY <1>1, AddAdds
  <1> HIDE DEF w
  <1>4. Mild(w, v)
    BY <1>3, ConnectCalm DEF Calm
  <1>5. Fine(v)
    BY <1>3, ConnectFine
  <1> HIDE DEF v
  <1>6. Mild(m, v)
    BY <1>3, <1>4, MildTrans
  <1>7. QED
    BY <1>2, <1>5, <1>6, MildKept

(* connect_all_daemons                                                       *)
LEMMA ConnectAllKept ==
    ASSUME Kept, NEW respect \in BOOLEAN, ConnectAll(respect)
    PROVE  Kept'
  <1> DEFINE nodes == [a \in Addresses |->
                         IF a \in Listed THEN [m.node[a] EXCEPT !.canceled = FALSE] ELSE m.node[a]]
             begun == [m EXCEPT !.connectAll = TRUE, !.respect = respect, !.hampered = FALSE,
                                !.node = nodes]
             may(a) == a \in AutoOn \/ ~respect
             idle  == {i \in DOMAIN m.list : m.node[m.list[i]].state = "DISCONNECTED" /\ may(m.list[i])}
             i     == Min(idle)
             one   == IF idle = {} THEN begun ELSE Connect(begun, m.list[i])
             add   == Add(one, Own)
             own   == IF may(Own) THEN Connect(add, Own) ELSE add
             all   == idle # {}
             v     == [own EXCEPT !.connectAll = all]
  <1>1. m \in MaestroW /\ Fine(m)
    BY KeptFields
  <1>2. Request(v)
    BY DEF ConnectAll
  <1>3. Becomes(v, held)
    BY <1>2, StepBecomes
  <1>4. ASSUME NEW a \in Addresses
        PROVE  /\ nodes[a] \in NodeW /\ Steady(m.node[a], nodes[a])
               /\ nodes[a].state = m.node[a].state /\ nodes[a].err = m.node[a].err
               /\ a \notin ToSet(m.list) => nodes[a] = m.node[a]
    <2> DEFINE n == m.node[a]
               k == [n EXCEPT !.canceled = FALSE]
    <2>1. n \in NodeW
      BY <1>1, Fields
    <2>2. nodes[a] = IF a \in ToSet(m.list) THEN k ELSE n
      BY DEF Listed
    <2> HIDE DEF n, nodes
    <2>3. k \in NodeW /\ Steady(n, k) /\ k.state = n.state /\ k.err = n.err /\ Steady(n, n)
      BY <2>1 DEF NodeW, Steady
    <2> HIDE DEF k
    <2>4. QED
      BY <2>1, <2>2, <2>3 DEF n
  <1>5. nodes \in [Addresses -> NodeW]
    BY <1>4
  <1> HIDE DEF nodes
  <1>6. /\ begun \in MaestroW /\ begun.list = m.list /\ begun.nfsid = m.nfsid /\ begun.node = nodes
        /\ begun.seen = m.seen /\ begun.client = m.client
    BY <1>1, <1>5 DEF MaestroW
  <1> HIDE DEF begun
  <1>7. Mild(m, begun)
    BY <1>4, <1>6 DEF Mild
  <1>8. Fine(begun)
    BY <1>1, <1>4, <1>6 DEF Fine, FineAt
  <1>9. one \in MaestroW /\ Mild(m, one) /\ Fine(one)
    <2>1. CASE idle = {}
      BY <1>6, <1>7, <1>8, <2>1
    <2>2. CASE idle # {}
      <3>1. i \in idle
        <4>1. idle \in SUBSET Nat
          BY <1>1, Fields
        <4>2. QED
          BY <2>2, <4>1, MinIn
      <3> HIDE DEF i
      <3> DEFINE a == m.list[i]
      <3>2. i \in DOMAIN m.list
        BY <3>1
      <3> HIDE DEF idle, may
      <3>3. a \in Addresses /\ a \in ToSet(m.list)
        BY <1>1, <3>2, Fields DEF ToSet
      <3> HIDE DEF a
      <3> DEFINE c == Connect(begun, a)
      <3>4. one = c
        BY <2>2 DEF a
      <3>5. c \in MaestroW /\ Mild(begun, c)
        BY <1>6, <3>3, ConnectCalm DEF Calm, Mild
      <3>6. Fine(c)
        BY <1>6, <1>8, <3>3, ConnectFine DEF Fine
      <3> HIDE DEF c, one
      <3>7. QED
        BY <1>7, <3>4, <3>5, <3>6, MildTrans
    <2>3. QED
      BY <2>1, <2>2
  <1>10. Own \in Addresses
    BY ConnectionsAssumption
  <1> HIDE DEF one
  <1>11. add \in MaestroW /\ Mild(m, add) /\ Fine(add) /\ Own \in ToSet(add.list)
    <2>1. add \in MaestroW /\ Mild(one, add) /\ Fine(add) /\ Own \in ToSet(add.list)
      BY <1>9, <1>10, AddAdds
    <2> HIDE DEF add
    <2>2. QED
      BY <1>9, <2>1, MildTrans
  <1> HIDE DEF add
  <1>12. own \in MaestroW /\ Mild(m, own) /\ Fine(own)
    <2> DEFINE c == Connect(add, Own)
    <2>1. c \in MaestroW /\ Mild(add, c)
      BY <1>10, <1>11, ConnectCalm DEF Calm, Mild
    <2>2. Fine(c)
      BY <1>10, <1>11, ConnectFine DEF Fine
    <2>3. own = c \/ own = add
      OBVIOUS
    <2> HIDE DEF c, own
    <2>4. QED
      BY <1>11, <2>1, <2>2, <2>3, MildTrans
  <1>13. all \in BOOLEAN
    OBVIOUS
  <1> HIDE DEF own, all
  <1>14. /\ v \in MaestroW /\ v.list = own.list /\ v.nfsid = own.nfsid /\ v.node = own.node
         /\ v.seen = own.seen /\ v.client = own.client
    BY <1>12, <1>13 DEF MaestroW
  <1> HIDE DEF v
  <1>15. Mild(m, v) /\ Fine(v)
    BY <1>12, <1>14 DEF Mild, Fine, FineAt
  <1>16. QED
    BY <1>3, <1>15, MildKept

(* The maestro after on_comm_port_defined, as the node takes the connection. *)
Port(a, sock, reply) ==
    LET w == Closed([m EXCEPT !.node[a].running = @ - 1], a)
        c == IF m.node[a].state = "CONNECT" THEN w
             ELSE Tell([w EXCEPT !.node[a].state = "CONNECT", !.node[a].err = "none",
                                 !.node[a].lastError = FALSE], a, "CONNECT")
    IN [c EXCEPT !.node[a].sock = sock, !.node[a].reply = reply]

(* What it leaves of the node, and that the client sees it.                  *)
LEMMA PortDefinedNode ==
    ASSUME Kept, NEW a \in Addresses, m.node[a].running > 0,
           NEW sock \in {"up", "refused"}, NEW reply \in Answers
    PROVE  LET v == Port(a, sock, reply)
           IN /\ v \in MaestroW /\ v.list = m.list /\ v.nfsid = m.nfsid /\ Fine(v)
              /\ v.node[a].state = "CONNECT" /\ v.node[a].nfsid = m.node[a].nfsid
              /\ v.node[a].sock = sock /\ v.node[a].reply = reply
              /\ \A b \in Addresses : b # a => v.node[b] = m.node[b]
  <1> DEFINE n == m.node[a]
             r == n.running - 1
             k == [n EXCEPT !.running = r, !.sock = "down", !.reply = "none"]
             j == [k EXCEPT !.state = "CONNECT", !.err = "none", !.lastError = FALSE]
             w == Closed([m EXCEPT !.node[a].running = @ - 1], a)
             x == [w EXCEPT !.node[a].state = "CONNECT", !.node[a].err = "none",
                            !.node[a].lastError = FALSE]
             c == IF m.node[a].state = "CONNECT" THEN w ELSE Tell(x, a, "CONNECT")
             v == [c EXCEPT !.node[a].sock = sock, !.node[a].reply = reply]
  <1>1. m \in MaestroW /\ Fine(m) /\ n \in NodeW
    BY KeptFields, Fields
  <1>2. r \in Nat
    BY <1>1 DEF NodeW
  <1>3. a \in ToSet(m.list)
    BY <1>1, BusyListed
  <1>4. w = [m EXCEPT !.node[a] = k]
    BY <1>1 DEF Closed, MaestroW
  <1>5. x = [m EXCEPT !.node[a] = j]
    <2> HIDE DEF k, w
    <2>1. QED
      BY <1>1, <1>4 DEF MaestroW
  <1> HIDE DEF r, n
  <1>6. /\ k \in NodeW /\ k.state = n.state /\ k.err = n.err /\ k.nfsid = n.nfsid
    BY <1>1, <1>2 DEF NodeW
  <1> HIDE DEF k
  <1>7. j \in NodeW /\ j.state = "CONNECT" /\ j.nfsid = n.nfsid
    BY <1>6 DEF NodeW, States, Errors
  <1> HIDE DEF j, w, x
  <1>8. /\ c \in MaestroW /\ c.list = m.list /\ c.nfsid = m.nfsid /\ c.client = m.client
        /\ c.node[a].state = "CONNECT" /\ c.node[a].nfsid = n.nfsid
        /\ m.client => c.seen[a] = "CONNECT" \/ /\ c.seen[a] = m.seen[a] /\ n.state = "CONNECT"
        /\ \A b \in Addresses : b # a => c.node[b] = m.node[b] /\ c.seen[b] = m.seen[b]
    <2>1. CASE n.state = "CONNECT"
      <3>1. c = w
        BY <2>1 DEF n
      <3>2. /\ w \in MaestroW /\ w.list = m.list /\ w.nfsid = m.nfsid /\ w.client = m.client
            /\ w.node[a] = k /\ w.seen = m.seen
            /\ \A b \in Addresses : b # a => w.node[b] = m.node[b]
        BY <1>1, <1>4, <1>6, NodeChanged
      <3> HIDE DEF c
      <3>3. QED
        BY <1>6, <2>1, <3>1, <3>2
    <2>2. CASE n.state # "CONNECT"
      <3>1. c = Tell(x, a, "CONNECT")
        BY <2>2 DEF n
      <3>2. /\ x \in MaestroW /\ x.list = m.list /\ x.nfsid = m.nfsid /\ x.client = m.client
            /\ x.node[a] = j /\ x.seen = m.seen
            /\ \A b \in Addresses : b # a => x.node[b] = m.node[b]
        BY <1>1, <1>5, <1>7, NodeChanged
      <3> HIDE DEF c
      <3>3. "CONNECT" \in States
        BY DEF States
      <3>4. /\ Calm(x, c) /\ c.node = x.node /\ c.client = x.client
            /\ x.client => c.seen[a] = "CONNECT"
            /\ \A b \in Addresses : b # a => c.seen[b] = x.seen[b]
        BY <3>1, <3>2, <3>3, TellCalm
      <3>5. c \in MaestroW /\ c.list = x.list /\ c.nfsid = x.nfsid
        BY <3>4 DEF Calm, Mild
      <3>6. QED
        BY <1>7, <3>2, <3>4, <3>5
    <2>3. QED
      BY <2>1, <2>2
  <1> HIDE DEF c
  <1> DEFINE l == [c.node[a] EXCEPT !.sock = sock, !.reply = reply]
  <1>9. c.node[a] \in NodeW
    BY <1>8, Fields
  <1>10. /\ l \in NodeW /\ l.state = "CONNECT" /\ l.nfsid = n.nfsid /\ l.sock = sock /\ l.reply = reply
    BY <1>8, <1>9 DEF NodeW
  <1>11. v = [c EXCEPT !.node[a] = l]
    BY <1>8 DEF MaestroW
  <1> HIDE DEF l, v
  <1>12. /\ v \in MaestroW /\ v.list = c.list /\ v.nfsid = c.nfsid /\ v.client = c.client
         /\ v.node[a] = l /\ v.seen = c.seen
         /\ \A b \in Addresses : b # a => v.node[b] = c.node[b]
    BY <1>8, <1>10, <1>11, NodeChanged
  <1>13. FineAt(v, a)
    BY <1>1, <1>3, <1>8, <1>10, <1>12 DEF Fine, FineAt, n
  <1>14. \A b \in Addresses : b # a => FineAt(v, b)
    BY <1>1, <1>8, <1>12 DEF Fine, FineAt
  <1>15. Fine(v)
    BY <1>1, <1>8, <1>12, <1>13, <1>14 DEF Fine
  <1>16. Port(a, sock, reply) = v
    BY DEF Port, v, c, x, w
  <1>17. QED
    BY <1>8, <1>10, <1>12, <1>15, <1>16 DEF n

(* on_comm_port_defined.  A machine without a connection gets one, the only  *)
(* one; another refuses it.                                                  *)
LEMMA PortDefinedKept ==
    ASSUME Kept, NEW a \in Addresses, PortDefined(a)
    PROVE  Kept'
  <1> DEFINE h == HostOf[a]
             u(r) == Port(a, "up", r)
             x == Port(a, "refused", "refused")
  <1>1. /\ m.node[a].running > 0
        /\ \/ held[h] = "none" /\ \E r \in Replies : Event(u(r), [held EXCEPT ![h] = "live"])
           \/ Event(x, held)
    BY DEF PortDefined, Port
  <1>2. CASE Event(x, held)
    <2>1. Becomes(x, held)
      BY <1>2, StepBecomes
    <2>2. "refused" \in {"up", "refused"} /\ "refused" \in Answers
      BY DEF Answers
    <2>3. /\ x \in MaestroW /\ x.list = m.list /\ x.nfsid = m.nfsid /\ Fine(x)
          /\ x.node[a].state = "CONNECT" /\ x.node[a].nfsid = m.node[a].nfsid
          /\ x.node[a].sock = "refused" /\ x.node[a].reply = "refused"
          /\ \A b \in Addresses : b # a => x.node[b] = m.node[b]
      BY <1>1, <2>2, PortDefinedNode
    <2> HIDE DEF x
    <2>4. Steady(m.node[a], x.node[a])
      BY <2>3 DEF Steady
    <2>5. \A b \in Addresses : Steady(m.node[b], m.node[b])
      BY DEF Steady
    <2>6. Mild(m, x)
      BY <2>3, <2>4, <2>5 DEF Mild
    <2>7. QED
      BY <2>1, <2>3, <2>6, MildKept
  <1>3. CASE held[h] = "none" /\ \E r \in Replies : Event(u(r), [held EXCEPT ![h] = "live"])
    <2>1. PICK r \in Replies : Event(u(r), [held EXCEPT ![h] = "live"])
      BY <1>3
    <2> DEFINE v == u(r)
               helds == [held EXCEPT ![h] = "live"]
    <2>2. Becomes(v, helds)
      BY <2>1, StepBecomes
    <2>3. "up" \in {"up", "refused"} /\ r \in Answers
      BY ConnectionsAssumption DEF Answers
    <2>4. /\ v \in MaestroW /\ v.list = m.list /\ v.nfsid = m.nfsid /\ Fine(v)
          /\ v.node[a].state = "CONNECT" /\ v.node[a].nfsid = m.node[a].nfsid
          /\ v.node[a].sock = "up" /\ v.node[a].reply = r
          /\ \A b \in Addresses : b # a => v.node[b] = m.node[b]
      BY <1>1, <2>3, PortDefinedNode
    <2> HIDE DEF v, u
    <2>5. /\ h \in Hosts /\ \A b \in Addresses : HostOf[b] \in Hosts
          /\ held \in [Hosts -> {"none", "live", "dead"}] /\ held[h] = "none"
      BY <1>3, ConnectionsAssumption DEF Kept
    <2>6. \A b \in Addresses : TiedAt(m, held, b)
      BY DEF Kept, Tied
    <2> HIDE DEF h
    <2>7. \A b \in Addresses : HostOf[b] = h => m.node[b].sock # "up"
      BY <2>5, <2>6 DEF TiedAt
    <2>8. /\ helds \in [Hosts -> {"none", "live", "dead"}] /\ helds[h] = "live"
          /\ \A g \in Hosts : g # h => helds[g] = held[g]
      BY <2>5
    <2> HIDE DEF helds
    <2>9. /\ m' \in Maestro /\ held' \in [Hosts -> {"none", "live", "dead"}]
          /\ m'.list = v.list /\ m'.node = v.node /\ m'.seen = v.seen /\ m'.client = v.client
          /\ m'.nfsid = v.nfsid
      BY <2>2, <2>4, <2>8, BecomesTyped
    <2>10. Fine(m')
      BY <2>4, <2>9 DEF Fine, FineAt
    <2>11. \A b \in Addresses : ~(m.node[b].sock = "up" /\ v.node[b].sock # "up")
      BY <2>4
    <2>12. \A g \in Hosts : held'[g] = helds[g]
      BY <2>2, <2>11 DEF Becomes
    <2>13. TiedAt(m', held', a)
      <3>1. HostOf[a] = h
        BY DEF h
      <3>2. \A b \in Addresses : v.node[b].sock = "up" /\ HostOf[b] = h => b = a
        BY <2>4, <2>7
      <3>3. TiedAt(m, held, a)
        BY <2>6
      <3>4. QED
        BY <2>4, <2>5, <2>8, <2>9, <2>12, <3>1, <3>2, <3>3 DEF TiedAt
    <2>14. ASSUME NEW b \in Addresses, b # a PROVE TiedAt(m', held', b)
      <3>1. TiedAt(m, held, b) /\ v.node[b] = m.node[b]
        BY <2>4, <2>6, <2>14
      <3>2. m.node[b].sock = "up" => HostOf[b] # h
        BY <2>7
      <3>3. ASSUME m.node[b].sock = "up"
            PROVE  /\ held'[HostOf[b]] = "live"
                   /\ \A d \in Addresses : v.node[d].sock = "up" /\ HostOf[d] = HostOf[b] => d = b
        <4>1. held'[HostOf[b]] = held[HostOf[b]]
          BY <2>5, <2>8, <2>12, <3>2, <3>3
        <4>2. HostOf[a] # HostOf[b]
          BY <3>2, <3>3 DEF h
        <4>3. QED
          BY <2>4, <3>1, <3>3, <4>1, <4>2 DEF TiedAt
      <3>4. QED
        BY <2>4, <2>9, <3>1, <3>3 DEF TiedAt
    <2>15. QED
      BY <2>9, <2>10, <2>13, <2>14 DEF Kept, Tied
  <1>4. QED
    BY <1>1, <1>2, <1>3

(* on_daemon_init for a node that was not let in                             *)
LEMMA RefusedFine ==
    ASSUME NEW w \in MaestroW, Fine(w), NEW a \in Addresses, a \in ToSet(w.list),
           NEW r \in {"refused", "protocol", "cookie"}
    PROVE  LET v == OnDaemonInit(w, a, r) IN Mild(w, v) /\ Fine(v)
  <1>1. r \in Errors /\ "id" \in Errors
    BY DEF Errors
  <1>2. CASE OnDaemonInit(w, a, r) = TurnedAway(w, a, r)
    <2> DEFINE v == TurnedAway(w, a, r)
    <2>1. Leaves(w, v, a)
      BY <1>1, TurnedAwayLeaves
    <2> HIDE DEF v
    <2>2. Mild(w, v) /\ Fine(v)
      BY <2>1, LeavesFine DEF Leaves, Calm
    <2>3. QED
      BY <1>2, <2>2 DEF v
  <1>3. CASE OnDaemonInit(w, a, r) = RemoveDaemon(TurnedAway(w, a, "id"), a)
    <2> DEFINE u == TurnedAway(w, a, "id")
               v == RemoveDaemon(u, a)
    <2>1. Leaves(w, u, a)
      BY <1>1, TurnedAwayLeaves
    <2> HIDE DEF u
    <2>2. u \in MaestroW /\ Mild(w, u) /\ Fine(u)
      BY <2>1, LeavesFine DEF Leaves, Calm, Mild
    <2>3. Removes(u, v, a)
      BY <2>2, RemoveDaemonRemoves
    <2> HIDE DEF v
    <2>4. Mild(w, v) /\ Fine(v)
      BY <2>2, <2>3, RemovesFine, MildTrans DEF Removes
    <2>5. QED
      BY <1>3, <2>4 DEF u, v
  <1>4. \/ OnDaemonInit(w, a, r) = TurnedAway(w, a, r)
        \/ OnDaemonInit(w, a, r) = RemoveDaemon(TurnedAway(w, a, "id"), a)
    BY DEF OnDaemonInit
  <1>5. QED
    BY <1>2, <1>3, <1>4

(* The node is let in, up to the comparison of the file systems: it is       *)
(* logged in and shown so, its file system is known, and connect-all may     *)
(* have gone on with another.                                                *)
Enters(w, v, a) ==
    /\ v \in MaestroW /\ v.list = w.list /\ v.client = w.client /\ v.nfsid = w.nfsid
    /\ v.node[a].state = "LOGGED" /\ v.node[a].sock = w.node[a].sock
    /\ v.node[a].reply = w.node[a].reply /\ v.node[a].nfsid = NfsOf[HostOf[a]]
    /\ (w.client => v.seen[a] = "LOGGED")
    /\ \A b \in Addresses :
         \/ b = a
         \/ v.node[b] = w.node[b] /\ v.seen[b] = w.seen[b]
         \/ /\ b \in ToSet(w.list) /\ w.node[b].state = "DISCONNECTED" /\ Steady(w.node[b], v.node[b])
            /\ v.node[b].state = "RUN" /\ (w.client => v.seen[b] = "RUN")

(* gebrm_server_op_parse_messages, up to on_daemon_init                      *)
LEMMA LoginEnters ==
    ASSUME NEW w \in MaestroW, NEW a \in Addresses, w.node[a].nfsid \in {NoNfs, NfsOf[HostOf[a]]}
    PROVE  \E v : Enters(w, v, a) /\ Login(w, a) = OnDaemonInit(v, a, "ok")
  <1> DEFINE n  == w.node[a]
             k  == [n EXCEPT !.state = "LOGGED", !.timer = "none", !.canceled = FALSE]
             l  == [w EXCEPT !.node[a] = k]
             c  == ContinueIfAll(l)
             t  == Tell(c, a, "LOGGED")
             j  == t.node[a]
             f  == IF j.nfsid = NoNfs THEN NfsOf[HostOf[a]] ELSE j.nfsid
             id == IF j.id = NoHost THEN HostOf[a] ELSE j.id
             ke == a \in KeyUsers
             i  == [j EXCEPT !.init = TRUE, !.keying = ke, !.nfsid = f, !.id = id]
             v  == [t EXCEPT !.node[a] = i]
  <1>1. n \in NodeW
    BY Fields
  <1>2. Logged(w, a) = t
    BY DEF Logged, MaestroW
  <1> HIDE DEF n
  <1>3. /\ k \in NodeW /\ k.state = "LOGGED" /\ k.nfsid = n.nfsid /\ k.sock = n.sock
        /\ k.reply = n.reply
    BY <1>1 DEF NodeW, States
  <1> HIDE DEF k
  <1>4. /\ l \in MaestroW /\ l.list = w.list /\ l.nfsid = w.nfsid /\ l.node[a] = k
        /\ l.seen = w.seen /\ l.client = w.client
        /\ \A b \in Addresses : b # a => l.node[b] = w.node[b]
    BY <1>3, NodeChanged
  <1> HIDE DEF l
  <1>5. Connects(l, c)
    BY <1>4, GoesOn
  <1> HIDE DEF c
  <1>6. /\ c \in MaestroW /\ c.list = l.list /\ c.nfsid = l.nfsid /\ c.client = l.client
        /\ c.node[a] = k /\ \A b \in Addresses : Steady(l.node[b], c.node[b])
    BY <1>3, <1>4, <1>5 DEF Connects, Calm, Mild
  <1>7. "LOGGED" \in States
    BY DEF States
  <1>8. /\ Calm(c, t) /\ t.node = c.node /\ t.client = c.client
        /\ c.client => t.seen[a] = "LOGGED"
        /\ \A b \in Addresses : b # a => t.seen[b] = c.seen[b]
    BY <1>6, <1>7, TellCalm
  <1> HIDE DEF t
  <1>9. t \in MaestroW /\ t.list = c.list /\ t.nfsid = c.nfsid /\ j = k
    BY <1>6, <1>8 DEF Calm, Mild
  <1>10. Login(w, a) = OnDaemonInit(v, a, "ok")
    <2> DEFINE y == [t EXCEPT !.node[a].init  = TRUE,
                              !.node[a].keying = ke,
                              !.node[a].nfsid = f,
                              !.node[a].id    = id]
    <2>1. Login(w, a) = OnDaemonInit(y, a, "ok")
      BY <1>2 DEF Login
    <2>2. t.node[a] \in NodeW
      BY <1>3, <1>9
    <2> HIDE DEF f, id, ke
    <2>3. y = v
      BY <1>9, <2>2 DEF MaestroW
    <2> HIDE DEF y, v
    <2>4. QED
      BY <2>1, <2>3
  <1> HIDE DEF j
  <1>11. f = NfsOf[HostOf[a]] /\ f \in Nfs \cup {NoNfs}
    <2>1. HostOf[a] \in Hosts
      BY ConnectionsAssumption
    <2>2. j.nfsid \in {NoNfs, NfsOf[HostOf[a]]}
      BY <1>3, <1>9 DEF n
    <2>3. QED
      BY <2>1, <2>2 DEF Nfs
  <1>12. id \in Hosts \cup {NoHost}
    BY <1>3, <1>9, ConnectionsAssumption DEF NodeW
  <1>13. ke \in BOOLEAN
    OBVIOUS
  <1> HIDE DEF f, id, ke
  <1>14. /\ i \in NodeW /\ i.state = "LOGGED" /\ i.sock = n.sock /\ i.reply = n.reply
         /\ i.nfsid = NfsOf[HostOf[a]]
    BY <1>3, <1>9, <1>11, <1>12, <1>13 DEF NodeW
  <1> HIDE DEF i
  <1>15. /\ v \in MaestroW /\ v.list = t.list /\ v.nfsid = t.nfsid /\ v.node[a] = i
         /\ v.seen = t.seen /\ v.client = t.client
         /\ \A b \in Addresses : b # a => v.node[b] = t.node[b]
    BY <1>9, <1>14, NodeChanged
  <1> HIDE DEF v
  <1>16. ASSUME NEW b \in Addresses, b # a
         PROVE  \/ v.node[b] = w.node[b] /\ v.seen[b] = w.seen[b]
                \/ /\ b \in ToSet(w.list) /\ w.node[b].state = "DISCONNECTED"
                   /\ Steady(w.node[b], v.node[b])
                   /\ v.node[b].state = "RUN" /\ (w.client => v.seen[b] = "RUN")
    <2>1. \/ c.node[b] = l.node[b] /\ c.seen[b] = l.seen[b]
          \/ /\ b \in ToSet(l.list) /\ l.node[b].state = "DISCONNECTED"
             /\ c.node[b].state = "RUN" /\ (l.client => c.seen[b] = "RUN")
      BY <1>5 DEF Connects
    <2>2. v.node[b] = c.node[b] /\ v.seen[b] = c.seen[b] /\ l.node[b] = w.node[b] /\ l.seen[b] = w.seen[b]
      BY <1>4, <1>8, <1>15, <1>16
    <2>3. Steady(l.node[b], c.node[b])
      BY <1>6
    <2>4. QED
      BY <1>4, <2>1, <2>2, <2>3
  <1>17. /\ v.list = w.list /\ v.client = w.client /\ v.nfsid = w.nfsid
         /\ (w.client => v.seen[a] = "LOGGED")
    BY <1>4, <1>6, <1>8, <1>9, <1>15
  <1>18. Enters(w, v, a)
    BY <1>14, <1>15, <1>16, <1>17 DEF Enters, n
  <1>19. QED
    BY <1>10, <1>18

(* The login of a node: it is turned away again when its file system is not  *)
(* the maestro's; the first that logs in gives the maestro its own.          *)
LEMMA LoginMoves ==
    ASSUME NEW w \in MaestroW, Fine(w), NEW a \in Addresses, a \in ToSet(w.list),
           w.node[a].nfsid \in {NoNfs, NfsOf[HostOf[a]]}, w.node[a].sock = "up"
    PROVE  Moves(w, Login(w, a)) /\ Fine(Login(w, a))
  <1>1. PICK e : Enters(w, e, a) /\ Login(w, a) = OnDaemonInit(e, a, "ok")
    BY LoginEnters
  <1> DEFINE N == NfsOf[HostOf[a]]
             f == IF e.nfsid = NoNfs THEN N ELSE e.nfsid
             x == [e EXCEPT !.nfsid = f]
  <1>2. e \in MaestroW /\ e.node[a].nfsid = N /\ e.node[a].state = "LOGGED"
    BY <1>1 DEF Enters
  <1>3. OnDaemonInit(e, a, "ok") =
          IF x.nfsid # N THEN TurnedAway(x, a, "nfs")
          ELSE Tell([x EXCEPT !.node[a].err = "none"], a, "LOGGED")
    BY <1>2 DEF OnDaemonInit
  <1>4. N \in Nfs
    BY ConnectionsAssumption DEF Nfs
  <1> HIDE DEF N
  <1>5. f \in Nfs \cup {NoNfs} /\ (f = e.nfsid \/ e.nfsid = NoNfs) /\ (f = N \/ f = e.nfsid)
    BY <1>2, <1>4, Fields
  <1> HIDE DEF f
  <1>6. /\ x \in MaestroW /\ x.list = e.list /\ x.node = e.node /\ x.seen = e.seen
        /\ x.client = e.client /\ x.nfsid = f
    BY <1>2, <1>5 DEF MaestroW
  <1> HIDE DEF x
  <1>7. /\ x.list = w.list /\ x.client = w.client /\ (x.nfsid = w.nfsid \/ w.nfsid = NoNfs)
        /\ x.node[a].state = "LOGGED" /\ x.node[a].sock = w.node[a].sock
        /\ x.node[a].reply = w.node[a].reply /\ x.node[a].nfsid = N
        /\ (w.client => x.seen[a] = "LOGGED")
    BY <1>1, <1>5, <1>6 DEF Enters, N
  <1>8. ASSUME NEW b \in Addresses, b # a
        PROVE  /\ Steady(w.node[b], x.node[b])
               /\ \/ x.node[b] = w.node[b] /\ x.seen[b] = w.seen[b]
                  \/ /\ b \in ToSet(w.list) /\ w.node[b].state = "DISCONNECTED"
                     /\ x.node[b].state = "RUN" /\ (w.client => x.seen[b] = "RUN")
    <2>1. Steady(w.node[b], w.node[b])
      BY DEF Steady
    <2>2. QED
      BY <1>1, <1>6, <1>8, <2>1 DEF Enters
  <1>9. Fine(x)
    <2>1. FineAt(x, a)
      BY <1>7 DEF FineAt
    <2>2. \A b \in Addresses : b # a => FineAt(x, b)
      BY <1>7, <1>8 DEF Fine, FineAt
    <2>3. QED
      BY <1>7, <2>1, <2>2 DEF Fine
  <1>10. ASSUME NEW v, Calm(x, v), v.node[a].state = "LOGGED" => f = N PROVE Moves(w, v)
    <2>1. MovesAt(w, v, a)
      <3>1. Steady(x.node[a], v.node[a]) /\ v.nfsid = f
        BY <1>6, <1>10 DEF Calm, Mild
      <3>2. QED
        BY <1>7, <1>10, <3>1 DEF Steady, MovesAt, N
    <2>2. ASSUME NEW b \in Addresses, b # a PROVE MovesAt(w, v, b)
      <3>1. Steady(w.node[b], x.node[b]) /\ Steady(x.node[b], v.node[b])
        BY <1>8, <1>10, <2>2 DEF Calm, Mild
      <3>2. QED
        BY <3>1 DEF Steady, MovesAt
    <2>3. QED
      BY <1>6, <1>7, <1>10, <2>1, <2>2 DEF Moves, Calm, Mild
  <1>11. CASE f # N
    <2> DEFINE v == TurnedAway(x, a, "nfs")
    <2>1. "nfs" \in Errors
      BY DEF Errors
    <2>2. Leaves(x, v, a)
      BY <1>6, <2>1, TurnedAwayLeaves
    <2>3. Login(w, a) = v
      BY <1>1, <1>3, <1>6, <1>11
    <2> HIDE DEF v
    <2>4. Calm(x, v) /\ v.node[a].state # "LOGGED" /\ Fine(v)
      BY <1>7, <1>9, <2>2, LeavesFine DEF Leaves
    <2>5. QED
      BY <1>10, <2>3, <2>4
  <1>12. CASE f = N
    <2> DEFINE k == [x.node[a] EXCEPT !.err = "none"]
               y == [x EXCEPT !.node[a] = k]
               v == Tell(y, a, "LOGGED")
    <2>1. x.node[a] \in NodeW
      BY <1>6, Fields
    <2>2. k \in NodeW /\ k.state = "LOGGED" /\ Steady(x.node[a], k)
      BY <1>7, <2>1 DEF NodeW, Steady, Errors
    <2>3. Login(w, a) = v
      <3>1. [x EXCEPT !.node[a].err = "none"] = y
        BY <1>6 DEF MaestroW
      <3> HIDE DEF y
      <3>2. QED
        BY <1>1, <1>3, <1>6, <1>12, <3>1
    <2> HIDE DEF k
    <2>4. /\ y \in MaestroW /\ y.list = x.list /\ y.node[a] = k /\ Calm(x, y)
          /\ y.seen = x.seen /\ y.client = x.client
          /\ \A b \in Addresses : b # a => y.node[b] = x.node[b]
      BY <1>6, <2>2, NodeChanged
    <2> HIDE DEF y
    <2>5. "LOGGED" \in States
      BY DEF States
    <2>6. /\ Calm(y, v) /\ v.node = y.node /\ v.client = y.client
          /\ y.client => v.seen[a] = "LOGGED"
          /\ \A b \in Addresses : b # a => v.seen[b] = y.seen[b]
      BY <2>4, <2>5, TellCalm
    <2> HIDE DEF v
    <2>7. Calm(x, v)
      BY <2>4, <2>6, CalmTrans
    <2>8. FineAt(v, a)
      BY <1>7, <2>2, <2>4, <2>6, <2>7 DEF FineAt, Calm
    <2>9. \A b \in Addresses : b # a => FineAt(v, b)
      BY <1>9, <2>4, <2>6, <2>7 DEF Fine, FineAt, Calm
    <2>10. Fine(v)
      BY <1>9, <2>7, <2>8, <2>9 DEF Fine, Calm
    <2>11. QED
      BY <1>10, <1>12, <2>3, <2>7, <2>10
  <1>13. QED
    BY <1>11, <1>12

(* A change before a step that logs a node in.                               *)
LEMMA MildThenMoves ==
    ASSUME NEW u, NEW w, NEW v, Mild(u, w), Moves(w, v)
    PROVE  Moves(u, v)
  <1>1. ASSUME NEW a \in Addresses PROVE MovesAt(u, v, a)
    <2>1. Steady(u.node[a], w.node[a]) /\ MovesAt(w, v, a)
      BY DEF Mild, Moves
    <2>2. QED
      BY <2>1 DEF Steady, MovesAt
  <1>2. QED
    BY <1>1 DEF Mild, Moves

(* gebrm_server_op_parse_messages: the answer to INI, or ERR                 *)
LEMMA AnswerKept ==
    ASSUME Kept, NEW a \in Addresses, Answer(a)
    PROVE  Kept'
  <1> DEFINE n == m.node[a]
             r == n.reply
             k == [n EXCEPT !.reply = "none"]
             w == [m EXCEPT !.node[a] = k]
             v == IF r = "ok" THEN Login(w, a) ELSE IF n.init THEN w ELSE OnDaemonInit(w, a, r)
  <1>1. m \in MaestroW /\ Fine(m) /\ n \in NodeW
    BY KeptFields, Fields
  <1>2. r # "none"
    BY DEF Answer
  <1>3. a \in ToSet(m.list)
    BY <1>1, <1>2, BusyListed
  <1>4. Event(v, held)
    <2>1. w = [m EXCEPT !.node[a].reply = "none"]
      BY <1>1 DEF MaestroW
    <2> HIDE DEF w
    <2>2. QED
      BY <2>1 DEF Answer
  <1>5. TiedAt(m, held, a)
    BY DEF Kept, Tied
  <1>6. /\ n.nfsid \in {NoNfs, NfsOf[HostOf[a]]} /\ (r = "ok" => n.sock = "up")
    BY <1>5 DEF TiedAt
  <1>7. r \in {"ok", "refused", "protocol", "cookie"}
    BY <1>1, <1>2 DEF NodeW, Answers
  <1> HIDE DEF n
  <1>8. /\ k \in NodeW /\ k.state = n.state /\ k.err = n.err /\ Steady(n, k)
        /\ k.nfsid = n.nfsid /\ k.sock = n.sock
    BY <1>1 DEF NodeW, Steady
  <1> HIDE DEF k
  <1>9. Calm(m, w) /\ w \in MaestroW /\ Fine(w) /\ w.node[a] = k /\ w.list = m.list
    BY <1>1, <1>3, <1>8, TouchedFine DEF n
  <1> HIDE DEF w, r
  <1>10. Becomes(v, held)
    BY <1>4, StepBecomes
  <1>11. Moves(m, v) /\ Fine(v)
    <2>1. CASE r = "ok"
      <3> DEFINE i == Login(w, a)
      <3>1. Moves(w, i) /\ Fine(i)
        BY <1>3, <1>6, <1>8, <1>9, <2>1, LoginMoves
      <3>2. v = i
        BY <2>1
      <3> HIDE DEF i, v
      <3>3. QED
        BY <1>9, <3>1, <3>2, MildThenMoves DEF Calm
    <2>2. CASE r # "ok" /\ n.init
      <3>1. v = w
        BY <2>2
      <3> HIDE DEF v
      <3>2. QED
        BY <1>9, <3>1, MildMoves DEF Calm
    <2>3. CASE r # "ok" /\ ~n.init
      <3> DEFINE i == OnDaemonInit(w, a, r)
      <3>1. Mild(w, i) /\ Fine(i)
        BY <1>3, <1>7, <1>9, <2>3, RefusedFine
      <3>2. v = i
        BY <2>3
      <3> HIDE DEF i, v
      <3>3. QED
        BY <1>9, <3>1, <3>2, MildTrans, MildMoves DEF Calm
    <2>4. QED
      BY <2>1, <2>2, <2>3
  <1> HIDE DEF v
  <1>12. QED
    BY <1>10, <1>11, MovesKept

-----------------------------------------------------------------------------
(* The theorems.                                                             *)

(* The maestro starts with the nodes of its file, none of them connected.    *)
LEMMA InitCInv == Init => CInv
  <1> SUFFICES ASSUME Init PROVE CInv
    OBVIOUS
  <1> DEFINE nodes == [a \in Addresses |-> NewNode]
             rows  == Shown(Known, nodes)
  <1>1. /\ m = [list |-> Known, node |-> nodes, connectAll |-> FALSE,
                respect |-> FALSE, nfsid |-> NoNfs, client |-> TRUE, orphans |-> 0,
                hampered |-> FALSE, seen |-> rows]
        /\ held = [h \in Hosts |-> "none"] /\ requests = 0 /\ cuts = 0
    BY DEF Init
  <1>2. NewNode \in Node
    BY ConnectionsAssumption DEF NewNode, Node, States, Errors
  <1>3. nodes \in [Addresses -> Node] /\ \A a \in Addresses : nodes[a] = NewNode
    BY <1>2
  <1>4. /\ rows \in [Addresses -> States \cup {"none"}]
        /\ \A a \in Addresses : rows[a] = IF a \notin ToSet(Known) THEN "none" ELSE "DISCONNECTED"
    BY <1>3 DEF Shown, States, NewNode
  <1> HIDE DEF nodes, rows
  <1>5. /\ m.list = Known /\ m.node = nodes /\ m.seen = rows /\ m.client = TRUE
        /\ m \in Maestro
    BY <1>1, <1>3, <1>4, ConnectionsAssumption DEF Maestro
  <1>6. /\ held \in [Hosts -> {"none", "live", "dead"}]
        /\ requests \in 0..MaxRequests /\ cuts \in 0..MaxCuts
    BY <1>1, ConnectionsAssumption
  <1>7. \A a \in Addresses : TiedAt(m, held, a)
    BY <1>3, <1>5 DEF TiedAt, NewNode
  <1>8. \A a \in Addresses : FineAt(m, a)
    BY <1>3, <1>4, <1>5 DEF FineAt, NewNode
  <1>9. IsInjective(m.list)
    BY <1>5, ConnectionsAssumption
  <1>10. QED
    BY <1>5, <1>6, <1>7, <1>8, <1>9 DEF CInv, TypeOK, Tied, Fine

(* What the bounds count stays within them.                                  *)
LEMMA CountsBounded ==
    ASSUME requests \in 0..MaxRequests, cuts \in 0..MaxCuts, [Next]_vars
    PROVE  requests' \in 0..MaxRequests /\ cuts' \in 0..MaxCuts
  <1> USE ConnectionsAssumption
  <1>1. \A w : Request(w) => requests' \in 0..MaxRequests /\ cuts' = cuts
    BY DEF Request
  <1>2. \A w, helds : Event(w, helds) => requests' = requests /\ cuts' = cuts
    BY DEF Event
  <1>3. ASSUME NEW a \in Addresses, AskConnect(a) \/ AskDisconnect(a) \/ AskStop(a) \/ AskRemove(a)
        PROVE  requests' \in 0..MaxRequests /\ cuts' = cuts
    BY <1>1, <1>3, Zenon DEF AskConnect, AskDisconnect, AskStop, AskRemove
  <1>4. ASSUME NEW a \in Addresses, \/ Ask(a) \/ SetPassword(a) \/ InvalidPassword(a) \/ PortError(a)
                                     \/ PortDefined(a) \/ Answer(a) \/ TimeOut(a) \/ KeyAppended(a)
        PROVE  requests' = requests /\ cuts' = cuts
    <2>1. Ask(a) \/ SetPassword(a) \/ PortError(a) => requests' = requests /\ cuts' = cuts
      BY <1>2, Zenon DEF Ask, SetPassword, PortError
    <2>2. InvalidPassword(a) => requests' = requests /\ cuts' = cuts
      BY <1>2, Zenon DEF InvalidPassword
    <2>3. PortDefined(a) => requests' = requests /\ cuts' = cuts
      BY <1>2, Zenon DEF PortDefined
    <2>4. Answer(a) => requests' = requests /\ cuts' = cuts
      BY <1>2, Zenon DEF Answer
    <2>5. TimeOut(a) \/ KeyAppended(a) => requests' = requests /\ cuts' = cuts
      BY <1>2, Zenon DEF TimeOut, KeyAppended
    <2>6. QED
      BY <1>4, <2>1, <2>2, <2>3, <2>4, <2>5
  <1>5. ASSUME NEW a \in Addresses, Lost(a)
        PROVE  requests' = requests /\ cuts' \in 0..MaxCuts
    <2>1. /\ requests' = requests
          /\ m.node[a].sock = "refused" \/ cuts < MaxCuts
          /\ cuts' = cuts + IF m.node[a].sock = "up" THEN 1 ELSE 0
      BY <1>5 DEF Lost
    <2>2. QED
      BY <2>1
  <1>6. ASSUME NEW r \in BOOLEAN, ConnectAll(r) PROVE requests' \in 0..MaxRequests /\ cuts' = cuts
    BY <1>1, <1>6, Zenon DEF ConnectAll
  <1>7. ASSUME NEW h \in Hosts, GebrdNotices(h) PROVE requests' = requests /\ cuts' = cuts
    BY <1>7 DEF GebrdNotices
  <1>8. TimeOutOrphan \/ ClientComes => requests' = requests /\ cuts' = cuts
    BY <1>2, Zenon DEF TimeOutOrphan, ClientComes
  <1>9. ClientLeaves => requests' \in 0..MaxRequests /\ cuts' = cuts
    BY <1>1, Zenon DEF ClientLeaves
  <1>10. CASE UNCHANGED vars
    BY <1>10 DEF vars
  <1>11. CASE Next
    BY <1>3, <1>4, <1>5, <1>6, <1>7, <1>8, <1>9, <1>11 DEF Next
  <1>12. QED
    BY <1>10, <1>11

(* Every step keeps the invariant.                                           *)
LEMMA StepCInv == CInv /\ [Next]_vars => CInv'
  <1> SUFFICES ASSUME CInv, [Next]_vars PROVE CInv'
    OBVIOUS
  <1>1. Kept
    BY DEF CInv, TypeOK, Kept
  <1>2. ASSUME NEW a \in Addresses,
               \/ AskConnect(a) \/ AskDisconnect(a) \/ AskStop(a) \/ AskRemove(a)
               \/ Ask(a) \/ SetPassword(a) \/ InvalidPassword(a) \/ PortError(a) \/ PortDefined(a)
               \/ Answer(a) \/ Lost(a) \/ TimeOut(a) \/ KeyAppended(a)
        PROVE  Kept'
    BY <1>1, <1>2, AskConnectKept, LostKept, AskStopKept, AskRemoveKept, PasswordKept,
       InvalidPasswordKept, PortErrorKept, PortDefinedKept, AnswerKept, TimeOutKept, KeyAppendedKept
  <1>3. ASSUME NEW respect \in BOOLEAN, ConnectAll(respect) PROVE Kept'
    BY <1>1, <1>3, ConnectAllKept
  <1>4. ASSUME NEW h \in Hosts, GebrdNotices(h) PROVE Kept'
    BY <1>1, <1>4, GebrdNoticesKept
  <1>5. TimeOutOrphan \/ ClientLeaves \/ ClientComes => Kept'
    BY <1>1, TimeOutOrphanKept, ClientKept
  <1>6. UNCHANGED vars => Kept'
    BY <1>1 DEF vars, Kept
  <1>7. Kept'
    BY <1>2, <1>3, <1>4, <1>5, <1>6 DEF Next
  <1>8. requests' \in 0..MaxRequests /\ cuts' \in 0..MaxCuts
    BY CountsBounded DEF CInv, TypeOK
  <1>9. QED
    BY <1>7, <1>8 DEF CInv, TypeOK, Kept, Fine

(* The inductive invariant of the connections: the types, the ties of the    *)
(* nodes to their machines and what the client shows hold in every state.    *)
THEOREM ConnectionsInvariant == Spec => []CInv
  <1>1. Init => CInv
    BY InitCInv
  <1>2. CInv /\ [Next]_vars => CInv'
    BY StepCInv
  <1>3. QED
    BY <1>1, <1>2, PTL DEF Spec

(* No address is on the maestro's list twice, and all it keeps of its nodes  *)
(* has its type (gebrm_add_server_to_list).                                  *)
THEOREM ConnectionTypes == Spec => []TypeOK
  <1>1. CInv => TypeOK
    BY DEF CInv
  <1>2. QED
    BY <1>1, ConnectionsInvariant, PTL

(* All the nodes that are logged in share the maestro's file system, however *)
(* many addresses, machines and file systems there are and whatever ids are  *)
(* left over from earlier connections (on_daemon_init).                      *)
THEOREM DomainIsOne == Spec => []OneDomain
  <1>1. CInv => OneDomain
    <2> SUFFICES ASSUME CInv, NEW a \in Listed, m.node[a].state = "LOGGED"
                 PROVE  NfsOf[HostOf[a]] = m.nfsid
      BY DEF OneDomain
    <2>1. a \in Addresses
      BY DEF CInv, TypeOK, Maestro, Listed, ToSet
    <2>2. QED
      BY <2>1 DEF CInv, Tied, TiedAt
  <1>2. QED
    BY <1>1, ConnectionsInvariant, PTL

(* A machine is logged in once, whatever addresses it has and however its    *)
(* connections break and come back (server_new_connection in gebrd,          *)
(* has_duplicated_daemons in the maestro).                                   *)
THEOREM LoggedInOnce == Spec => []OneLogin
  <1>1. CInv => OneLogin
    <2> SUFFICES ASSUME CInv, NEW a \in Listed, NEW b \in Listed, m.node[a].state = "LOGGED",
                        m.node[b].state = "LOGGED", a # b
                 PROVE  HostOf[a] # HostOf[b]
      BY DEF OneLogin
    <2>1. a \in Addresses /\ b \in Addresses
      BY DEF CInv, TypeOK, Maestro, Listed, ToSet
    <2>2. QED
      BY <2>1 DEF CInv, Tied, TiedAt
  <1>2. QED
    BY <1>1, ConnectionsInvariant, PTL

(* The rows of the GUI are the nodes of the list, in their states, although  *)
(* the callbacks that tell it are nested (send_server_status_message,        *)
(* remove_daemon).                                                           *)
THEOREM RowsRight == Spec => []NodesShown
  <1>1. CInv => NodesShown
    BY DEF CInv, Fine, FineAt, NodesShown, Listed
  <1>2. QED
    BY <1>1, ConnectionsInvariant, PTL

-----------------------------------------------------------------------------
(* Proof that connect-all never stops by itself: as long as it is on and     *)
(* nothing it does not cope with has happened, a timer runs that goes on     *)
(* with the next node, for every list of nodes.                              *)

(* A timer runs that will go on with the next node.                          *)
Live(w) == w.orphans > 0 \/ \E a \in ToSet(w.list) : w.node[a].timer = "live"

(* What connect-all leaves behind it.                                        *)
Tries(w) == w.connectAll /\ ~Obstacle(w) => Live(w)

(* A step that ends with connect-all, or takes no timer away.                *)
Ticks(w, v) ==
    /\ v \in MaestroW /\ v.hampered = w.hampered /\ (v.connectAll => w.connectAll)
    /\ v.respect = w.respect
    /\ Tries(v) \/ (Live(w) => Live(v))

(* A change that connect-all does not look at.                               *)
Quiet(w, v) ==
    /\ v \in MaestroW /\ v.list = w.list /\ v.client = w.client /\ v.respect = w.respect
    /\ v.connectAll = w.connectAll /\ v.hampered = w.hampered /\ v.orphans = w.orphans
    /\ \A b \in Addresses :
         /\ v.node[b].state = w.node[b].state /\ v.node[b].timer = w.node[b].timer
         /\ v.node[b].canceled = w.node[b].canceled \/ w.node[b].state = "DISCONNECTED"

(* The invariant: as long as nothing stood in its way, a timer runs.         *)
Attempt == m.connectAll /\ ~m.hampered => Live(m) /\ ~Obstacle(m)

(* It sees no difference.                                                    *)
LEMMA QuietSame ==
    ASSUME NEW w \in MaestroW, NEW v, Quiet(w, v)
    PROVE  (Live(v) <=> Live(w)) /\ (Obstacle(v) <=> Obstacle(w)) /\ (Tries(w) => Tries(v))
  <1>1. ToSet(w.list) \subseteq Addresses
    BY Fields DEF ToSet
  <1>2. Live(v) <=> Live(w)
    BY <1>1 DEF Quiet, Live
  <1>3. ASSUME NEW a \in ToSet(w.list)
        PROVE  /\ KeyLogged(v, a) <=> KeyLogged(w, a)
               /\ (v.respect /\ a \notin AutoOn) <=> (w.respect /\ a \notin AutoOn)
               /\ (v.node[a].state \in {"RUN", "CONNECT"} /\ ~v.node[a].canceled)
                    <=> (w.node[a].state \in {"RUN", "CONNECT"} /\ ~w.node[a].canceled)
    BY <1>1, <1>3 DEF Quiet, KeyLogged
  <1>4. v.client = w.client /\ v.list = w.list
    BY DEF Quiet
  <1>5. Obstacle(v) <=> Obstacle(w)
    BY <1>3, <1>4 DEF Obstacle
  <1>6. QED
    BY <1>2, <1>5 DEF Tries, Quiet

(* One change after the other.                                               *)
LEMMA QuietTrans ==
    ASSUME NEW u, NEW v, NEW w, Quiet(u, v), Quiet(v, w)
    PROVE  Quiet(u, w)
  BY DEF Quiet

(* Such a change before a step, or after it.                                 *)
LEMMA QuietTicks ==
    ASSUME NEW u \in MaestroW, NEW v, NEW w
    PROVE  /\ Quiet(u, v) => Ticks(u, v)
           /\ Quiet(u, v) /\ Ticks(v, w) => Ticks(u, w)
           /\ Ticks(u, v) /\ Quiet(v, w) => Ticks(u, w)
  <1>1. Quiet(u, v) => Ticks(u, v)
    BY QuietSame DEF Quiet, Ticks
  <1>2. ASSUME Quiet(u, v), Ticks(v, w) PROVE Ticks(u, w)
    BY <1>2, QuietSame DEF Quiet, Ticks
  <1>3. ASSUME Ticks(u, v), Quiet(v, w) PROVE Ticks(u, w)
    <2>1. v \in MaestroW
      BY <1>3 DEF Ticks
    <2>2. (Live(w) <=> Live(v)) /\ (Tries(v) => Tries(w))
      BY <1>3, <2>1, QuietSame
    <2>3. QED
      BY <1>3, <2>2 DEF Ticks, Quiet
  <1>4. QED
    BY <1>1, <1>2, <1>3

(* A node is changed.                                                        *)
LEMMA NodeQuiet ==
    ASSUME NEW w \in MaestroW, NEW a \in Addresses, NEW n \in NodeW,
           n.state = w.node[a].state, n.timer = w.node[a].timer,
           n.canceled = w.node[a].canceled \/ w.node[a].state = "DISCONNECTED"
    PROVE  Quiet(w, [w EXCEPT !.node[a] = n])
  <1> DEFINE v == [w EXCEPT !.node[a] = n]
  <1>1. /\ v \in MaestroW /\ v.list = w.list /\ v.node[a] = n
        /\ v.client = w.client /\ v.orphans = w.orphans
        /\ v.connectAll = w.connectAll /\ v.respect = w.respect
        /\ \A b \in Addresses : b # a => v.node[b] = w.node[b]
    BY NodeChanged
  <1>2. v.hampered = w.hampered
    BY DEF MaestroW
  <1> HIDE DEF v
  <1>3. Quiet(w, v)
    BY <1>1, <1>2 DEF Quiet
  <1>4. QED
    BY <1>3 DEF v

(* A client is told of a node.                                               *)
LEMMA TellQuiet ==
    ASSUME NEW w \in MaestroW, NEW a \in Addresses, NEW s \in States
    PROVE  Quiet(w, Tell(w, a, s))
  <1> DEFINE v == Tell(w, a, s)
  <1>1. /\ Calm(w, v) /\ v.node = w.node /\ v.client = w.client /\ v.orphans = w.orphans
        /\ v.connectAll = w.connectAll /\ v.respect = w.respect
    BY TellCalm
  <1>2. v.hampered = w.hampered
    BY DEF Tell, MaestroW
  <1> HIDE DEF v
  <1>3. Quiet(w, v)
    BY <1>1, <1>2 DEF Quiet, Calm, Mild
  <1>4. QED
    BY <1>3 DEF v

(* gebr_comm_server_connect takes no timer away, and starts one while        *)
(* connect-all is on.                                                        *)
LEMMA ConnectTimer ==
    ASSUME NEW w \in MaestroW, NEW a \in Addresses
    PROVE  LET v == Connect(w, a)
           IN /\ v \in MaestroW /\ v.list = w.list /\ v.client = w.client /\ v.respect = w.respect
              /\ v.connectAll = w.connectAll /\ v.hampered = w.hampered
              /\ v.orphans \in Nat /\ v.orphans >= w.orphans
              /\ \A b \in Addresses : w.node[b].timer = "live" => v.node[b].timer = "live"
              /\ w.connectAll /\ w.node[a].state = "DISCONNECTED" => v.node[a].timer = "live"
  <1>1. CASE w.node[a].state # "DISCONNECTED"
    BY <1>1, Fields DEF Connect
  <1>2. CASE w.node[a].state = "DISCONNECTED"
    <2> DEFINE n == w.node[a]
               o == w.orphans + IF w.connectAll /\ n.timer = "live" THEN 1 ELSE 0
               c == IF w.connectAll THEN TRUE ELSE n.canceled
               t == IF w.connectAll THEN "live" ELSE n.timer
               r == n.running + 1
               k == [n EXCEPT !.state = "RUN", !.running = r, !.canceled = c, !.timer = t]
               u == [w EXCEPT !.orphans = o, !.node[a] = k]
               v == Tell(u, a, "RUN")
    <2>1. n \in NodeW
      BY Fields
    <2>2. k \in NodeW
      <3>1. n.running \in Nat /\ n.canceled \in BOOLEAN /\ n.timer \in {"none", "live"}
        BY <2>1 DEF NodeW
      <3>2. r \in Nat /\ t \in {"none", "live"}
        BY <3>1
      <3>3. c \in BOOLEAN
        BY <3>1
      <3> HIDE DEF c, t, r, n
      <3>4. QED
        BY <2>1, <3>2, <3>3 DEF NodeW, States
    <2>3. k.timer = t
      BY <2>1 DEF NodeW
    <2>4. o \in Nat /\ o >= w.orphans
      BY Fields
    <2>5. Connect(w, a) = v
      BY <1>2 DEF Connect
    <2> HIDE DEF k, o
    <2>6. /\ u \in MaestroW /\ u.list = w.list /\ u.node[a] = k /\ u.orphans = o
          /\ u.client = w.client /\ u.connectAll = w.connectAll /\ u.respect = w.respect
          /\ u.hampered = w.hampered
          /\ \A b \in Addresses : b # a => u.node[b] = w.node[b]
      BY <2>2, <2>4 DEF MaestroW
    <2> HIDE DEF u
    <2>7. "RUN" \in States
      BY DEF States
    <2>8. Quiet(u, v)
      BY <2>6, <2>7, TellQuiet
    <2> HIDE DEF v
    <2>9. /\ v \in MaestroW /\ v.list = w.list /\ v.client = w.client /\ v.respect = w.respect
          /\ v.connectAll = w.connectAll /\ v.hampered = w.hampered /\ v.orphans = o
          /\ v.node[a].timer = k.timer
      BY <2>6, <2>8 DEF Quiet
    <2>10. \A b \in Addresses : w.node[b].timer = "live" => v.node[b].timer = "live"
      BY <2>3, <2>6, <2>8 DEF Quiet
    <2>11. w.connectAll => v.node[a].timer = "live"
      BY <2>3, <2>9
    <2>12. QED
      BY <2>4, <2>5, <2>9, <2>10, <2>11
  <1>3. QED
    BY <1>1, <1>2

(* verify_connect_all, when connect-all has started a timer, met an obstacle *)
(* or tried every node.                                                      *)
LEMMA VerifyTries ==
    ASSUME NEW w \in MaestroW, ~w.connectAll \/ Live(w) \/ Obstacle(w) \/
             \A a \in ToSet(w.list) : w.node[a].state = "LOGGED" \/ w.node[a].canceled
    PROVE  LET v == VerifyConnectAll(w)
           IN /\ v \in MaestroW /\ v.hampered = w.hampered /\ (v.connectAll => w.connectAll)
              /\ v.respect = w.respect /\ Tries(v)
  <1> DEFINE v == VerifyConnectAll(w)
  <1>1. CASE \A i \in DOMAIN w.list :
                w.node[w.list[i]].state = "LOGGED" \/ w.node[w.list[i]].canceled
    <2>1. v = [w EXCEPT !.connectAll = FALSE]
      BY <1>1 DEF VerifyConnectAll
    <2>2. /\ v \in MaestroW /\ v.hampered = w.hampered /\ v.respect = w.respect /\ v.connectAll = FALSE
      BY <2>1 DEF MaestroW
    <2>3. QED
      BY <2>2 DEF Tries
  <1>2. CASE ~\A i \in DOMAIN w.list :
                w.node[w.list[i]].state = "LOGGED" \/ w.node[w.list[i]].canceled
    <2>1. v = w
      BY <1>2 DEF VerifyConnectAll
    <2>2. ~\A a \in ToSet(w.list) : w.node[a].state = "LOGGED" \/ w.node[a].canceled
      BY <1>2 DEF ToSet
    <2>3. QED
      BY <2>1, <2>2 DEF Tries
  <1>3. QED
    BY <1>1, <1>2

(* gebrm_app_continue_connections_of_daemons: it starts the timer of a node, *)
(* something is in its way, or every node has been tried.                    *)
LEMMA ContinueTries ==
    ASSUME NEW w \in MaestroW
    PROVE  LET v == Continue(w)
           IN /\ v \in MaestroW /\ v.hampered = w.hampered /\ v.connectAll = w.connectAll
              /\ v.respect = w.respect
              /\ \/ ~v.connectAll \/ Live(v) \/ Obstacle(v)
                 \/ \A a \in ToSet(v.list) : v.node[a].state = "LOGGED" \/ v.node[a].canceled
  <1> DEFINE stops == {i \in DOMAIN w.list : Waiting(w, w.list[i]) \/ KeyLogged(w, w.list[i])}
             i     == Min(stops)
             a     == w.list[i]
  <1>1. CASE ~w.client
    <2>1. Continue(w) = w
      BY <1>1 DEF Continue
    <2>2. Obstacle(w)
      BY <1>1 DEF Obstacle
    <2>3. QED
      BY <2>1, <2>2
  <1>2. CASE stops = {}
    <2>1. Continue(w) = w
      BY <1>2 DEF Continue
    <2>2. \A b \in ToSet(w.list) : ~Waiting(w, b)
      BY <1>2 DEF ToSet
    <2>3. (\A b \in ToSet(w.list) : w.node[b].state = "LOGGED" \/ w.node[b].canceled) \/ Obstacle(w)
      BY <2>2 DEF Waiting, Obstacle
    <2>4. QED
      BY <2>1, <2>3
  <1>3. CASE w.client /\ stops # {}
    <2>1. i \in stops
      <3>1. stops \in SUBSET Nat
        BY Fields
      <3>2. QED
        BY <1>3, <3>1, MinIn
    <2>2. i \in DOMAIN w.list /\ (Waiting(w, a) \/ KeyLogged(w, a))
      BY <2>1
    <2>3. Continue(w) = IF KeyLogged(w, a) THEN w ELSE Connect(w, a)
      BY <1>3 DEF Continue
    <2> HIDE DEF i, stops
    <2>4. a \in Addresses /\ a \in ToSet(w.list)
      BY <2>2, Fields DEF ToSet
    <2> HIDE DEF a
    <2>5. CASE KeyLogged(w, a)
      <3>1. Obstacle(w)
        BY <2>4, <2>5 DEF Obstacle
      <3>2. QED
        BY <2>3, <2>5, <3>1
    <2>6. CASE ~KeyLogged(w, a)
      <3> DEFINE v == Connect(w, a)
      <3>1. Waiting(w, a) /\ Continue(w) = v
        BY <2>2, <2>3, <2>6
      <3>2. /\ v \in MaestroW /\ v.list = w.list /\ v.hampered = w.hampered /\ v.respect = w.respect
            /\ v.connectAll = w.connectAll
            /\ w.connectAll /\ w.node[a].state = "DISCONNECTED" => v.node[a].timer = "live"
        BY <2>4, ConnectTimer
      <3>3. CASE w.node[a].state = "DISCONNECTED"
        <4> HIDE DEF v
        <4>1. ~v.connectAll \/ Live(v)
          BY <2>4, <3>2, <3>3 DEF Live
        <4>2. QED
          BY <3>1, <3>2, <4>1
      <3>4. CASE w.node[a].state # "DISCONNECTED"
        <4>1. v = w
          BY <3>4 DEF Connect
        <4>2. w.node[a].state \in States
          BY <2>4, Fields DEF NodeW
        <4>3. w.node[a].state \in {"RUN", "CONNECT"} /\ ~w.node[a].canceled
          BY <3>1, <3>4, <4>2 DEF Waiting, States
        <4>4. Obstacle(w)
          BY <2>4, <4>3 DEF Obstacle
        <4>5. QED
          BY <3>1, <4>1, <4>4
      <3>5. QED
        BY <3>3, <3>4
    <2>7. QED
      BY <2>5, <2>6
  <1>4. QED
    BY <1>1, <1>2, <1>3

(* ... followed by verify_connect_all.                                       *)
LEMMA GoesOnTries ==
    ASSUME NEW w \in MaestroW
    PROVE  /\ Ticks(w, VerifyConnectAll(Continue(w))) /\ Tries(VerifyConnectAll(Continue(w)))
           /\ Ticks(w, ContinueIfAll(w)) /\ Tries(ContinueIfAll(w))
  <1> DEFINE u == Continue(w)
             v == VerifyConnectAll(u)
  <1>1. /\ u \in MaestroW /\ u.hampered = w.hampered /\ u.connectAll = w.connectAll
        /\ u.respect = w.respect
        /\ \/ ~u.connectAll \/ Live(u) \/ Obstacle(u)
           \/ \A a \in ToSet(u.list) : u.node[a].state = "LOGGED" \/ u.node[a].canceled
    BY ContinueTries
  <1> HIDE DEF u
  <1>2. /\ v \in MaestroW /\ v.hampered = u.hampered /\ (v.connectAll => u.connectAll)
        /\ v.respect = u.respect /\ Tries(v)
    BY <1>1, VerifyTries
  <1> HIDE DEF v
  <1>3. Ticks(w, v) /\ Tries(v)
    BY <1>1, <1>2 DEF Ticks
  <1>4. ASSUME ~w.connectAll PROVE Ticks(w, w) /\ Tries(w)
    BY <1>4 DEF Ticks, Tries
  <1>5. QED
    BY <1>3, <1>4 DEF ContinueIfAll, u, v

(* No timer is started, and none is taken away.                              *)
SameTimers(w, v) ==
    v.orphans = w.orphans /\ \A b \in Addresses : v.node[b].timer = w.node[b].timer

(* The callbacks of a disconnection.  A node that failed has no timer, and   *)
(* connect-all has gone on.                                                  *)
LEMMA DisconnectedTicks ==
    ASSUME NEW w \in MaestroW, NEW a \in Addresses
    PROVE  LET v == Disconnected(w, a)
           IN /\ Ticks(w, v)
              /\ w.node[a].state # "DISCONNECTED" /\ (w.node[a].lastError \/ w.node[a].err # "none")
                   => Tries(v) /\ v.node[a].timer = "none"
              /\ Tries(v) \/ SameTimers(w, v)
  <1> DEFINE v == Disconnected(w, a)
  <1>1. CASE w.node[a].state = "DISCONNECTED"
    <2>1. v = w
      BY <1>1 DEF Disconnected
    <2>2. QED
      BY <1>1, <2>1 DEF Ticks, SameTimers
  <1>2. CASE w.node[a].state # "DISCONNECTED"
    <2> DEFINE n == w.node[a]
               e == IF n.lastError THEN "ssh" ELSE n.err
               t == IF e # "none" THEN "none" ELSE n.timer
               c == n.canceled \/ e # "none"
               k == [n EXCEPT !.state = "DISCONNECTED", !.err = e, !.init = FALSE, !.timer = t,
                              !.canceled = c]
               u == [w EXCEPT !.node[a] = k]
               x == IF u.node[a].canceled THEN ContinueIfAll(u) ELSE u
    <2>1. n \in NodeW
      BY Fields
    <2>2. k \in NodeW /\ k.state = "DISCONNECTED" /\ k.timer = t /\ k.canceled = c
      <3>1. n.err \in Errors /\ n.canceled \in BOOLEAN /\ n.timer \in {"none", "live"}
        BY <2>1 DEF NodeW
      <3>2. e \in Errors
        BY <3>1 DEF Errors
      <3>3. t \in {"none", "live"} /\ c \in BOOLEAN
        BY <3>1
      <3> HIDE DEF e, t, c, n
      <3>4. QED
        BY <2>1, <3>2, <3>3 DEF NodeW, States
    <2>3. v = Tell(x, a, "DISCONNECTED")
      BY <1>2 DEF Disconnected
    <2>4. e # "none" <=> n.lastError \/ n.err # "none"
      OBVIOUS
    <2>5. (e # "none" => t = "none" /\ c) /\ (~c => e = "none" /\ t = n.timer)
      OBVIOUS
    <2> HIDE DEF k, e, t, c
    <2>6. /\ u \in MaestroW /\ u.list = w.list /\ u.node[a] = k /\ u.client = w.client
          /\ u.orphans = w.orphans /\ u.connectAll = w.connectAll /\ u.respect = w.respect
          /\ \A b \in Addresses : b # a => u.node[b] = w.node[b]
      BY <2>2, NodeChanged
    <2>7. u.hampered = w.hampered
      BY DEF MaestroW
    <2> HIDE DEF u, n
    <2>8. /\ x \in MaestroW /\ Ticks(w, x) /\ (e # "none" => Tries(x) /\ x.node[a].timer = "none")
          /\ Tries(x) \/ SameTimers(w, x)
      <3>1. CASE c
        <4>1. x = ContinueIfAll(u)
          BY <2>2, <2>6, <3>1
        <4>2. Ticks(u, x) /\ Tries(x) /\ Connects(u, x)
          BY <2>6, <4>1, GoesOnTries, GoesOn
        <4>3. ~Waiting(u, a)
          BY <2>2, <2>6, <3>1 DEF Waiting
        <4> HIDE DEF x
        <4>4. x.node[a] = k
          BY <2>6, <4>2, <4>3 DEF Connects
        <4>5. QED
          BY <2>2, <2>5, <2>6, <2>7, <4>2, <4>4 DEF Ticks
      <3>2. CASE ~c
        <4>1. x = u
          BY <2>2, <2>6, <3>2
        <4>2. \A b \in Addresses : u.node[b].timer = w.node[b].timer
          BY <2>2, <2>5, <2>6, <3>2 DEF n
        <4>3. ToSet(w.list) \subseteq Addresses
          BY Fields DEF ToSet
        <4>4. Live(w) => Live(u)
          BY <2>6, <4>2, <4>3 DEF Live
        <4> HIDE DEF x
        <4>5. QED
          BY <2>5, <2>6, <2>7, <3>2, <4>1, <4>2, <4>4 DEF Ticks, SameTimers
      <3>3. QED
        BY <3>1, <3>2
    <2> HIDE DEF x
    <2>9. "DISCONNECTED" \in States
      BY DEF States
    <2>10. Quiet(x, v)
      BY <2>3, <2>8, <2>9, TellQuiet
    <2> HIDE DEF v
    <2>11. Ticks(w, v)
      BY <2>8, <2>10, QuietTicks
    <2>12. Tries(x) => Tries(v)
      BY <2>8, <2>10, QuietSame
    <2>13. v.node[a].timer = x.node[a].timer /\ (SameTimers(w, x) => SameTimers(w, v))
      BY <2>10 DEF Quiet, SameTimers
    <2>14. QED
      BY <2>4, <2>8, <2>11, <2>12, <2>13 DEF n, v
  <1>3. QED
    BY <1>1, <1>2

(* The same after a change of the node that leaves these.                    *)
LEMMA DisconnectedAfter ==
    ASSUME NEW w \in MaestroW, NEW a \in Addresses, NEW n \in NodeW,
           n.state = w.node[a].state, n.timer = w.node[a].timer, n.canceled = w.node[a].canceled
    PROVE  LET v == Disconnected([w EXCEPT !.node[a] = n], a)
           IN /\ Ticks(w, v)
              /\ n.state # "DISCONNECTED" /\ (n.lastError \/ n.err # "none")
                   => Tries(v) /\ v.node[a].timer = "none"
              /\ Tries(v) \/ SameTimers(w, v)
              /\ n.state = "DISCONNECTED" => Quiet(w, v)
  <1> DEFINE u == [w EXCEPT !.node[a] = n]
             v == Disconnected(u, a)
  <1>1. Quiet(w, u) /\ u.node[a] = n
    BY NodeQuiet, NodeChanged
  <1> HIDE DEF u
  <1>2. u \in MaestroW
    BY <1>1 DEF Quiet
  <1>3. /\ Ticks(u, v)
        /\ n.state # "DISCONNECTED" /\ (n.lastError \/ n.err # "none")
             => Tries(v) /\ v.node[a].timer = "none"
        /\ Tries(v) \/ SameTimers(u, v)
    BY <1>1, <1>2, DisconnectedTicks
  <1>4. n.state = "DISCONNECTED" => v = u
    BY <1>1 DEF Disconnected
  <1> HIDE DEF v
  <1>5. Ticks(w, v)
    BY <1>1, <1>3, QuietTicks
  <1>6. SameTimers(u, v) => SameTimers(w, v)
    BY <1>1 DEF Quiet, SameTimers
  <1>7. QED
    BY <1>1, <1>3, <1>4, <1>5, <1>6 DEF u, v

(* gebr_comm_server_disconnected_state with a message, the end of a socket,  *)
(* and gebrm_daemon_disconnect.                                              *)
LEMMA LeaveTicks ==
    ASSUME NEW w \in MaestroW, NEW a \in Addresses
    PROVE  /\ Ticks(w, Failed(w, a))
           /\ w.node[a].state # "DISCONNECTED" => Tries(Failed(w, a))
           /\ w.node[a].state = "DISCONNECTED" => Quiet(w, Failed(w, a)) /\ Quiet(w, Leave(w, a))
           /\ Ticks(w, Disconnected(Closed(w, a), a))
           /\ Ticks(w, Leave(w, a))
           /\ w.node[a].state # "DISCONNECTED" /\ w.node[a].err # "none"
                => Tries(Leave(w, a)) /\ Leave(w, a).node[a].timer = "none"
           /\ Tries(Leave(w, a)) \/ SameTimers(w, Leave(w, a))
  <1> DEFINE n == w.node[a]
             f == [n EXCEPT !.lastError = TRUE]
             c == [n EXCEPT !.sock = "down", !.reply = "none"]
             o == [n EXCEPT !.nfsid = NoNfs, !.id = NoHost]
             oc == [o EXCEPT !.sock = "down", !.reply = "none"]
  <1>1. n \in NodeW
    BY Fields
  <1> HIDE DEF n
  <1>2. /\ f \in NodeW /\ f.state = n.state /\ f.timer = n.timer /\ f.canceled = n.canceled
        /\ f.lastError = TRUE
    BY <1>1 DEF NodeW
  <1>3. /\ c \in NodeW /\ c.state = n.state /\ c.timer = n.timer /\ c.canceled = n.canceled
    BY <1>1 DEF NodeW
  <1>4. /\ o \in NodeW /\ o.state = n.state /\ o.timer = n.timer /\ o.canceled = n.canceled
        /\ o.err = n.err
    BY <1>1 DEF NodeW
  <1> HIDE DEF o
  <1>5. /\ oc \in NodeW /\ oc.state = n.state /\ oc.timer = n.timer /\ oc.canceled = n.canceled
        /\ oc.err = n.err
    BY <1>4 DEF NodeW
  <1> HIDE DEF f, c, oc
  <1>6. Failed(w, a) = Disconnected([w EXCEPT !.node[a] = f], a)
    BY DEF Failed, f, n
  <1>7. Closed(w, a) = [w EXCEPT !.node[a] = c]
    BY Fields DEF Closed, c, n, MaestroW
  <1>8. Leave(w, a) = Disconnected([w EXCEPT !.node[a] = o], a)
        \/ Leave(w, a) = Disconnected([w EXCEPT !.node[a] = oc], a)
    <2> DEFINE u == [w EXCEPT !.node[a].nfsid = NoNfs, !.node[a].id = NoHost]
    <2>1. u = [w EXCEPT !.node[a] = o]
      BY DEF o, n, MaestroW
    <2>2. Closed(u, a) = [w EXCEPT !.node[a] = oc]
      BY DEF Closed, o, oc, n, MaestroW
    <2>3. Leave(w, a) = Disconnected(u, a) \/ Leave(w, a) = Disconnected(Closed(u, a), a)
      BY DEF Leave
    <2>4. QED
      BY <2>1, <2>2, <2>3
  <1>9. LET v == Disconnected([w EXCEPT !.node[a] = f], a)
        IN /\ Ticks(w, v) /\ (n.state # "DISCONNECTED" => Tries(v))
           /\ n.state = "DISCONNECTED" => Quiet(w, v)
    BY <1>2, DisconnectedAfter DEF n
  <1>10. Ticks(w, Disconnected([w EXCEPT !.node[a] = c], a))
    BY <1>3, DisconnectedAfter DEF n
  <1>11. LET v == Disconnected([w EXCEPT !.node[a] = o], a)
         IN /\ Ticks(w, v) /\ (Tries(v) \/ SameTimers(w, v))
            /\ n.state # "DISCONNECTED" /\ n.err # "none" => Tries(v) /\ v.node[a].timer = "none"
            /\ n.state = "DISCONNECTED" => Quiet(w, v)
    BY <1>4, DisconnectedAfter DEF n
  <1>12. LET v == Disconnected([w EXCEPT !.node[a] = oc], a)
         IN /\ Ticks(w, v) /\ (Tries(v) \/ SameTimers(w, v))
            /\ n.state # "DISCONNECTED" /\ n.err # "none" => Tries(v) /\ v.node[a].timer = "none"
            /\ n.state = "DISCONNECTED" => Quiet(w, v)
    BY <1>5, DisconnectedAfter DEF n
  <1>13. LET v == Leave(w, a)
         IN /\ Ticks(w, v) /\ (Tries(v) \/ SameTimers(w, v))
            /\ n.state # "DISCONNECTED" /\ n.err # "none" => Tries(v) /\ v.node[a].timer = "none"
            /\ n.state = "DISCONNECTED" => Quiet(w, v)
    BY <1>8, <1>11, <1>12, Zenon
  <1>14. QED
    BY <1>6, <1>7, <1>9, <1>10, <1>13 DEF n

(* on_daemon_init with an error.                                             *)
LEMMA TurnedAwayTicks ==
    ASSUME NEW w \in MaestroW, NEW a \in Addresses, NEW e \in Errors, e # "none"
    PROVE  LET v == TurnedAway(w, a, e)
           IN /\ Ticks(w, v)
              /\ w.node[a].state # "DISCONNECTED" => Tries(v) /\ v.node[a].timer = "none"
              /\ w.node[a].state = "DISCONNECTED" => Quiet(w, v)
  <1> DEFINE n == [w.node[a] EXCEPT !.err = e]
             u == [w EXCEPT !.node[a] = n]
             v == Leave(u, a)
  <1>1. w.node[a] \in NodeW
    BY Fields
  <1>2. /\ n \in NodeW /\ n.state = w.node[a].state /\ n.timer = w.node[a].timer
        /\ n.canceled = w.node[a].canceled /\ n.err = e
    BY <1>1 DEF NodeW
  <1>3. TurnedAway(w, a, e) = v
    BY DEF TurnedAway, MaestroW
  <1> HIDE DEF n
  <1>4. Quiet(w, u) /\ u.node[a] = n /\ u \in MaestroW
    BY <1>2, NodeQuiet, NodeChanged
  <1> HIDE DEF u
  <1>5. /\ Ticks(u, v)
        /\ n.state # "DISCONNECTED" => Tries(v) /\ v.node[a].timer = "none"
        /\ n.state = "DISCONNECTED" => Quiet(u, v)
    BY <1>2, <1>4, LeaveTicks
  <1> HIDE DEF v
  <1>6. Ticks(w, v) /\ (Quiet(u, v) => Quiet(w, v))
    BY <1>4, <1>5, QuietTicks, QuietTrans
  <1>7. QED
    BY <1>2, <1>3, <1>5, <1>6

(* remove_daemon: the timer of the node runs on.  A node that has none and   *)
(* was no obstacle takes nothing away.                                       *)
LEMMA RemoveTicks ==
    ASSUME NEW w \in MaestroW, IsInjective(w.list), NEW a \in Addresses
    PROVE  LET v == RemoveDaemon(w, a)
           IN /\ Ticks(w, v)
              /\ /\ Tries(w) /\ w.node[a].state = "DISCONNECTED" /\ w.node[a].timer = "none"
                 /\ w.respect => a \in AutoOn
                 => Tries(v)
  <1> DEFINE l == RemoveFirst(w.list, a)
             x == [w EXCEPT !.list = l]
             y == Leave(x, a)
             o == y.orphans + IF y.node[a].timer = "live" THEN 1 ELSE 0
             z == [y EXCEPT !.node[a] = NewNode, !.orphans = o]
             v == TellRemoved(z, a)
  <1>1. v = RemoveDaemon(w, a)
    BY DEF RemoveDaemon, RemoveFromList
  <1>2. /\ l \in Seq(Addresses) /\ ToSet(l) \subseteq ToSet(w.list) /\ a \notin ToSet(l)
        /\ ToSet(w.list) \subseteq ToSet(l) \cup {a} /\ ToSet(l) \subseteq Addresses
    <2>1. /\ l \in Seq(Addresses) /\ ToSet(l) \subseteq ToSet(w.list) /\ a \notin ToSet(l)
          /\ ToSet(w.list) \subseteq ToSet(l) \cup {a}
      BY Fields, RemoveElements
    <2> HIDE DEF l
    <2>2. ToSet(l) \subseteq Addresses
      BY <2>1 DEF ToSet
    <2>3. QED
      BY <2>1, <2>2
  <1> HIDE DEF l
  <1>3. /\ x \in MaestroW /\ x.list = l /\ x.node = w.node /\ x.orphans = w.orphans
        /\ x.client = w.client /\ x.connectAll = w.connectAll /\ x.hampered = w.hampered
        /\ x.respect = w.respect
    BY <1>2 DEF MaestroW
  <1> HIDE DEF x
  <1>4. /\ Leaves(x, y, a) /\ Ticks(x, y) /\ (Tries(y) \/ SameTimers(x, y))
        /\ x.node[a].state = "DISCONNECTED" => Quiet(x, y)
    BY <1>3, LeaveLeaves, LeaveTicks
  <1> HIDE DEF y
  <1>5. y \in MaestroW /\ y.list = l /\ y.client = w.client
    BY <1>3, <1>4 DEF Leaves, Calm, Mild
  <1>6. o \in Nat /\ o >= y.orphans /\ (y.node[a].timer = "live" => o > 0)
    BY <1>5, Fields
  <1>7. y.node[a].timer # "live" => o = y.orphans
    BY <1>5, Fields
  <1> HIDE DEF o
  <1>8. /\ z \in MaestroW /\ z.list = l /\ z.client = y.client /\ z.connectAll = y.connectAll
        /\ z.hampered = y.hampered /\ z.respect = y.respect /\ z.orphans = o
        /\ \A b \in Addresses : b # a => z.node[b] = y.node[b]
    BY <1>5, <1>6, NewNodeW DEF MaestroW
  <1> HIDE DEF z
  <1>9. Quiet(z, v)
    <2>1. CASE ~z.client
      BY <1>8, <2>1 DEF TellRemoved, Quiet
    <2>2. CASE z.client
      <3>1. /\ v \in MaestroW /\ v.list = z.list /\ v.client = z.client /\ v.connectAll = z.connectAll
            /\ v.hampered = z.hampered /\ v.respect = z.respect /\ v.orphans = z.orphans
            /\ v.node = z.node
        BY <1>8, <2>2 DEF TellRemoved, MaestroW
      <3> HIDE DEF v
      <3>2. QED
        BY <3>1 DEF Quiet
    <2>3. QED
      BY <2>1, <2>2
  <1> HIDE DEF v
  <1>10. \A b \in ToSet(l) : z.node[b] = y.node[b]
    BY <1>2, <1>8
  <1>11. Obstacle(z) <=> Obstacle(y)
    BY <1>5, <1>8, <1>10 DEF Obstacle, KeyLogged
  <1>12. Live(y) => Live(z)
    <2>1. y.orphans \in Nat /\ z.orphans \in Nat /\ z.orphans >= y.orphans
      BY <1>5, <1>6, <1>8, Fields
    <2>2. QED
      BY <1>5, <1>8, <1>10, <2>1 DEF Live
  <1>13. Tries(y) => Tries(z)
    BY <1>8, <1>11, <1>12 DEF Tries
  <1>14. SameTimers(x, y) => (Live(w) => Live(z))
    <2> SUFFICES ASSUME SameTimers(x, y), Live(w) PROVE Live(z)
      OBVIOUS
    <2>1. y.orphans = w.orphans /\ \A b \in Addresses : y.node[b].timer = w.node[b].timer
      BY <1>3 DEF SameTimers
    <2>2. Live(y) \/ y.node[a].timer = "live"
      BY <1>2, <1>5, <2>1 DEF Live
    <2>3. y.node[a].timer = "live" => Live(z)
      BY <1>6, <1>8 DEF Live
    <2>4. QED
      BY <1>12, <2>2, <2>3
  <1>15. Ticks(w, z)
    BY <1>3, <1>4, <1>8, <1>13, <1>14 DEF Ticks
  <1>16. ASSUME Tries(w), w.node[a].state = "DISCONNECTED", w.node[a].timer = "none",
                w.respect => a \in AutoOn
         PROVE  Tries(z)
    <2>1. Quiet(x, y)
      BY <1>3, <1>4, <1>16
    <2>2. /\ y.orphans = w.orphans /\ y.connectAll = w.connectAll /\ y.respect = w.respect
          /\ \A b \in Addresses :
               /\ y.node[b].state = w.node[b].state /\ y.node[b].timer = w.node[b].timer
               /\ y.node[b].canceled = w.node[b].canceled \/ w.node[b].state = "DISCONNECTED"
      BY <1>3, <2>1 DEF Quiet
    <2>3. Obstacle(w) => Obstacle(y)
      <3>1. ~w.client => Obstacle(y)
        BY <1>5 DEF Obstacle
      <3>2. ASSUME NEW b \in ToSet(w.list),
                   \/ KeyLogged(w, b)
                   \/ w.respect /\ b \notin AutoOn
                   \/ w.node[b].state \in {"RUN", "CONNECT"} /\ ~w.node[b].canceled
            PROVE  Obstacle(y)
        <4>1. b # a
          BY <1>16, <3>2 DEF KeyLogged
        <4>2. b \in ToSet(y.list) /\ b \in Addresses
          BY <1>2, <1>5, <4>1
        <4>3. \/ KeyLogged(y, b)
              \/ y.respect /\ b \notin AutoOn
              \/ y.node[b].state \in {"RUN", "CONNECT"} /\ ~y.node[b].canceled
          BY <2>2, <3>2, <4>2 DEF KeyLogged
        <4>4. QED
          BY <4>2, <4>3 DEF Obstacle
      <3>3. QED
        BY <3>1, <3>2 DEF Obstacle
    <2>4. Live(w) => Live(y)
      <3>1. \A b \in ToSet(w.list) : w.node[b].timer = "live" => b \in ToSet(y.list) /\ b \in Addresses
        BY <1>2, <1>5, <1>16
      <3>2. QED
        BY <2>2, <3>1 DEF Live
    <2>5. Tries(y)
      BY <1>16, <2>2, <2>3, <2>4 DEF Tries
    <2>6. QED
      BY <1>13, <2>5
  <1>17. Ticks(w, v) /\ (Tries(z) => Tries(v))
    BY <1>8, <1>9, <1>15, QuietTicks, QuietSame
  <1>18. QED
    BY <1>1, <1>16, <1>17

(* The step as a whole: it keeps the history of what stood in the way.       *)
LEMMA LiveAttempt ==
    ASSUME NEW v \in MaestroW, NEW helds, Becomes(v, helds),
           v.connectAll /\ ~v.hampered /\ ~Obstacle(v) => Live(v)
    PROVE  Attempt'
  <1> DEFINE o == v.connectAll /\ (v.hampered \/ Obstacle(v))
  <1>1. m' = [v EXCEPT !.hampered = o]
    BY DEF Becomes
  <1>2. o <=> v.connectAll /\ (v.hampered \/ Obstacle(v))
    OBVIOUS
  <1> HIDE DEF o
  <1>3. /\ m'.list = v.list /\ m'.node = v.node /\ m'.client = v.client /\ m'.respect = v.respect
        /\ m'.connectAll = v.connectAll /\ m'.orphans = v.orphans /\ m'.hampered = o
    BY <1>1 DEF MaestroW
  <1>4. (Live(m') <=> Live(v)) /\ (Obstacle(m') <=> Obstacle(v))
    BY <1>3 DEF Live, Obstacle, KeyLogged
  <1>5. QED
    BY <1>2, <1>3, <1>4 DEF Attempt

(* The steps of connect-all, and those that take no timer away, keep the     *)
(* invariant.                                                                *)
LEMMA TicksAttempt ==
    ASSUME Attempt, NEW v, NEW helds, Ticks(m, v), Becomes(v, helds)
    PROVE  Attempt'
  <1>1. v.connectAll /\ ~v.hampered => m.connectAll /\ ~m.hampered
    BY DEF Ticks
  <1>2. v.connectAll /\ ~v.hampered /\ ~Obstacle(v) => Live(v)
    BY <1>1 DEF Attempt, Ticks, Tries
  <1>3. QED
    BY <1>2, LiveAttempt DEF Ticks

(* /disconnect, /remove, and a connection that breaks                        *)
LEMMA LostAttempt ==
    ASSUME Kept, Attempt, NEW a \in Addresses, AskDisconnect(a) \/ AskRemove(a) \/ Lost(a)
    PROVE  Attempt'
  <1>1. m \in MaestroW /\ IsInjective(m.list)
    BY KeptFields DEF Fine
  <1>2. CASE AskDisconnect(a)
    <2>1. Becomes(Leave(m, a), held)
      BY <1>2, StepBecomes DEF AskDisconnect
    <2>2. Ticks(m, Leave(m, a))
      BY <1>1, LeaveTicks
    <2>3. QED
      BY <2>1, <2>2, TicksAttempt
  <1>3. CASE AskRemove(a)
    <2>1. Becomes(RemoveDaemon(m, a), held)
      BY <1>3, StepBecomes DEF AskRemove
    <2>2. Ticks(m, RemoveDaemon(m, a))
      BY <1>1, RemoveTicks
    <2>3. QED
      BY <2>1, <2>2, TicksAttempt
  <1>4. CASE Lost(a)
    <2>1. Becomes(Disconnected(Closed(m, a), a), held)
      BY <1>4 DEF Lost
    <2>2. Ticks(m, Disconnected(Closed(m, a), a))
      BY <1>1, LeaveTicks
    <2>3. QED
      BY <2>1, <2>2, TicksAttempt
  <1>5. QED
    BY <1>2, <1>3, <1>4

(* /stop                                                                     *)
LEMMA AskStopAttempt ==
    ASSUME Kept, Attempt, NEW a \in Addresses, AskStop(a)
    PROVE  Attempt'
  <1> DEFINE n == m.node[a]
             k == [n EXCEPT !.err = "stop"]
             w == [m EXCEPT !.node[a] = k]
             v == Tell(w, a, "DISCONNECTED")
  <1>1. m \in MaestroW /\ n \in NodeW
    BY KeptFields, Fields
  <1>2. Request(v)
    BY <1>1 DEF AskStop, MaestroW
  <1> HIDE DEF n
  <1>3. k \in NodeW /\ k.state = n.state /\ k.timer = n.timer /\ k.canceled = n.canceled
    BY <1>1 DEF NodeW, Errors
  <1> HIDE DEF k
  <1>4. Quiet(m, w)
    BY <1>1, <1>3, NodeQuiet DEF n
  <1> HIDE DEF w
  <1>5. w \in MaestroW /\ "DISCONNECTED" \in States
    BY <1>4 DEF Quiet, States
  <1>6. Quiet(w, v)
    BY <1>5, TellQuiet
  <1>7. Becomes(v, held)
    BY <1>2, StepBecomes
  <1> HIDE DEF v
  <1>8. Ticks(m, v)
    BY <1>1, <1>4, <1>6, QuietTrans, QuietTicks
  <1>9. QED
    BY <1>7, <1>8, TicksAttempt

(* on_comm_ssh_password, /set-password                                       *)
LEMMA PasswordAttempt ==
    ASSUME Kept, Attempt, NEW a \in Addresses, Ask(a) \/ SetPassword(a)
    PROVE  Attempt'
  <1> DEFINE n == m.node[a]
             r == n.running - 1
             s == n.asking + 1
             t == n.running + n.asking
             k == [n EXCEPT !.running = r, !.asking = s]
             j == [n EXCEPT !.running = t, !.asking = 0]
  <1>1. m \in MaestroW /\ n \in NodeW
    BY KeptFields, Fields
  <1>2. n.running \in Nat /\ n.asking \in Nat
    BY <1>1 DEF NodeW
  <1>3. CASE Ask(a)
    <2>1. r \in Nat /\ s \in Nat
      BY <1>2, <1>3 DEF Ask
    <2>2. Event([m EXCEPT !.node[a] = k], held)
      BY <1>1, <1>3 DEF Ask, MaestroW
    <2> HIDE DEF r, s, n
    <2>3. k \in NodeW /\ k.state = n.state /\ k.timer = n.timer /\ k.canceled = n.canceled
      BY <1>1, <2>1 DEF NodeW
    <2> HIDE DEF k
    <2> DEFINE v == [m EXCEPT !.node[a] = k]
    <2>4. Quiet(m, v)
      BY <1>1, <2>3, NodeQuiet DEF n
    <2>5. Becomes(v, held)
      BY <2>2, StepBecomes
    <2> HIDE DEF v
    <2>6. QED
      BY <1>1, <2>4, <2>5, QuietTicks, TicksAttempt
  <1>4. CASE SetPassword(a)
    <2>1. t \in Nat
      BY <1>2
    <2>2. Event([m EXCEPT !.node[a] = j], held)
      BY <1>1, <1>4 DEF SetPassword, MaestroW
    <2> HIDE DEF t, n
    <2>3. j \in NodeW /\ j.state = n.state /\ j.timer = n.timer /\ j.canceled = n.canceled
      BY <1>1, <2>1 DEF NodeW
    <2> HIDE DEF j
    <2> DEFINE v == [m EXCEPT !.node[a] = j]
    <2>4. Quiet(m, v)
      BY <1>1, <2>3, NodeQuiet DEF n
    <2>5. Becomes(v, held)
      BY <2>2, StepBecomes
    <2> HIDE DEF v
    <2>6. QED
      BY <1>1, <2>4, <2>5, QuietTicks, TicksAttempt
  <1>5. QED
    BY <1>3, <1>4

(* on_comm_ssh_error                                                         *)
LEMMA PortErrorAttempt ==
    ASSUME Kept, Attempt, NEW a \in Addresses, PortError(a)
    PROVE  Attempt'
  <1> DEFINE n == m.node[a]
             r == n.running - 1
             k == [n EXCEPT !.running = r]
             u == [m EXCEPT !.node[a] = k]
             v == Failed(u, a)
  <1>1. m \in MaestroW /\ n \in NodeW
    BY KeptFields, Fields
  <1>2. r \in Nat
    BY <1>1 DEF PortError, NodeW
  <1>3. Event(v, held)
    BY <1>1 DEF PortError, MaestroW
  <1> HIDE DEF r, n
  <1>4. k \in NodeW /\ k.state = n.state /\ k.timer = n.timer /\ k.canceled = n.canceled
    BY <1>1, <1>2 DEF NodeW
  <1> HIDE DEF k
  <1>5. Quiet(m, u)
    BY <1>1, <1>4, NodeQuiet DEF n
  <1> HIDE DEF u
  <1>6. Ticks(u, v)
    BY <1>5, LeaveTicks DEF Quiet
  <1>7. Becomes(v, held)
    BY <1>3, StepBecomes
  <1> HIDE DEF v
  <1>8. Ticks(m, v)
    BY <1>1, <1>5, <1>6, QuietTicks
  <1>9. QED
    BY <1>7, <1>8, TicksAttempt

(* gebrm_daemon_invalid_password: the node has failed, or was disconnected,  *)
(* when it is taken off the list of those that wait.                         *)
LEMMA InvalidPasswordAttempt ==
    ASSUME Kept, Attempt, NEW a \in Addresses, InvalidPassword(a)
    PROVE  Attempt'
  <1> DEFINE n == m.node[a]
             k == [n EXCEPT !.asking = 0]
             u == [m EXCEPT !.node[a] = k]
             w == Failed(u, a)
             j == [w.node[a] EXCEPT !.err = "ssh", !.canceled = TRUE]
             x == [w EXCEPT !.node[a] = j]
             v == Leave(x, a)
  <1>1. m \in MaestroW /\ n \in NodeW
    BY KeptFields, Fields
  <1>2. Event(Leave([w EXCEPT !.node[a].err = "ssh", !.node[a].canceled = TRUE], a), held)
    BY <1>1 DEF InvalidPassword, MaestroW
  <1> HIDE DEF n
  <1>3. k \in NodeW /\ k.state = n.state /\ k.timer = n.timer /\ k.canceled = n.canceled
    BY <1>1 DEF NodeW
  <1> HIDE DEF k
  <1>4. Quiet(m, u)
    BY <1>1, <1>3, NodeQuiet DEF n
  <1> HIDE DEF u
  <1>5. Ticks(u, w) /\ Leaves(u, w, a)
    BY <1>4, LeaveTicks, LeaveLeaves DEF Quiet
  <1> HIDE DEF w
  <1>6. w \in MaestroW /\ w.node[a] \in NodeW /\ w.node[a].state = "DISCONNECTED"
    BY <1>5, Fields DEF Ticks, Leaves
  <1>7. j \in NodeW /\ j.state = w.node[a].state /\ j.timer = w.node[a].timer
    BY <1>6 DEF NodeW, Errors
  <1>8. Event(v, held)
    BY <1>2, <1>6 DEF MaestroW
  <1> HIDE DEF j
  <1>9. Quiet(w, x) /\ x.node[a].state = "DISCONNECTED"
    BY <1>6, <1>7, NodeQuiet, NodeChanged
  <1> HIDE DEF x
  <1>10. Quiet(x, v)
    BY <1>9, LeaveTicks DEF Quiet
  <1>11. Becomes(v, held)
    BY <1>8, StepBecomes
  <1> HIDE DEF v
  <1>12. Ticks(m, v)
    BY <1>1, <1>4, <1>5, <1>9, <1>10, QuietTrans, QuietTicks
  <1>13. QED
    BY <1>11, <1>12, TicksAttempt

(* time_out_daemon                                                           *)
LEMMA TimeOutAttempt ==
    ASSUME Kept, Attempt, TimeOutOrphan \/ \E a \in Addresses : TimeOut(a)
    PROVE  Attempt'
  <1>1. m \in MaestroW
    BY KeptFields
  <1>2. ASSUME NEW w \in MaestroW, w.hampered = m.hampered, w.connectAll = m.connectAll,
               w.respect = m.respect, Event(VerifyConnectAll(Continue(w)), held)
        PROVE  Attempt'
    <2> DEFINE v == VerifyConnectAll(Continue(w))
    <2>1. Ticks(w, v) /\ Tries(v)
      BY GoesOnTries
    <2>2. Becomes(v, held)
      BY <1>2, StepBecomes
    <2> HIDE DEF v
    <2>3. Ticks(m, v)
      BY <1>2, <2>1 DEF Ticks
    <2>4. QED
      BY <2>2, <2>3, TicksAttempt
  <1>3. ASSUME NEW a \in Addresses, TimeOut(a) PROVE Attempt'
    <2> DEFINE n == m.node[a]
               k == [n EXCEPT !.timer = "none"]
               w == [m EXCEPT !.node[a] = k]
    <2>1. n \in NodeW
      BY <1>1, Fields
    <2>2. Event(VerifyConnectAll(Continue(w)), held)
      BY <1>1, <1>3 DEF TimeOut, MaestroW
    <2> HIDE DEF n
    <2>3. k \in NodeW
      BY <2>1 DEF NodeW
    <2> HIDE DEF k
    <2>4. w \in MaestroW /\ w.hampered = m.hampered /\ w.connectAll = m.connectAll
          /\ w.respect = m.respect
      BY <1>1, <2>3 DEF MaestroW
    <2> HIDE DEF w
    <2>5. QED
      BY <1>2, <2>2, <2>4
  <1>4. ASSUME TimeOutOrphan PROVE Attempt'
    <2> DEFINE o == m.orphans - 1
               w == [m EXCEPT !.orphans = o]
    <2>1. o \in Nat
      BY <1>1, <1>4, Fields DEF TimeOutOrphan
    <2>2. Event(VerifyConnectAll(Continue(w)), held)
      BY <1>1, <1>4 DEF TimeOutOrphan, MaestroW
    <2> HIDE DEF o
    <2>3. w \in MaestroW /\ w.hampered = m.hampered /\ w.connectAll = m.connectAll
          /\ w.respect = m.respect
      BY <1>1, <2>1 DEF MaestroW
    <2> HIDE DEF w
    <2>4. QED
      BY <1>2, <2>2, <2>3
  <1>5. QED
    BY <1>3, <1>4

(* Nodes and timers are only added.                                          *)
Grows(w, v) ==
    /\ v \in MaestroW /\ ToSet(w.list) \subseteq ToSet(v.list) /\ v.orphans >= w.orphans
    /\ \A b \in Addresses : w.node[b].timer = "live" => v.node[b].timer = "live"

(* A timer that ran runs still.                                              *)
LEMMA GrowsLive ==
    ASSUME NEW w \in MaestroW, NEW v, Grows(w, v)
    PROVE  /\ Live(w) => Live(v)
           /\ v.hampered = w.hampered /\ v.connectAll = w.connectAll /\ v.respect = w.respect
                => Ticks(w, v)
  <1>1. w.orphans \in Nat /\ v.orphans \in Nat /\ ToSet(w.list) \subseteq Addresses
    BY Fields DEF Grows, ToSet
  <1>2. Live(w) => Live(v)
    BY <1>1 DEF Grows, Live
  <1>3. QED
    BY <1>2 DEF Grows, Ticks

(* One after the other.                                                      *)
LEMMA GrowsTrans ==
    ASSUME NEW u \in MaestroW, NEW v, NEW w, Grows(u, v), Grows(v, w)
    PROVE  Grows(u, w)
  <1>1. u.orphans \in Nat /\ v.orphans \in Nat /\ w.orphans \in Nat
    BY Fields DEF Grows
  <1>2. QED
    BY <1>1 DEF Grows

(* gebr_comm_server_connect and gebrm_add_server_to_list                     *)
LEMMA AddGrows ==
    ASSUME NEW w \in MaestroW, NEW a \in Addresses
    PROVE  /\ Grows(w, Connect(w, a))
           /\ LET v == Add(w, a)
              IN /\ Grows(w, v) /\ v.node = w.node
                 /\ v.hampered = w.hampered /\ v.connectAll = w.connectAll
                 /\ v.respect = w.respect
  <1>1. Grows(w, Connect(w, a))
    BY ConnectTimer DEF Grows
  <1>2. ASSUME a \notin ToSet(w.list)
        PROVE  LET v == Add(w, a)
               IN /\ Grows(w, v) /\ v.node = w.node
                  /\ v.hampered = w.hampered /\ v.connectAll = w.connectAll
                  /\ v.respect = w.respect
    <2> DEFINE l == <<a>> \o w.list
               v == Add(w, a)
    <2>1. l \in Seq(Addresses) /\ ToSet(l) = {a} \cup ToSet(w.list)
      BY Fields, PrependElements
    <2>2. v = [w EXCEPT !.list = l]
      BY <1>2 DEF Add
    <2> HIDE DEF l
    <2>3. /\ v \in MaestroW /\ v.list = l /\ v.node = w.node /\ v.orphans = w.orphans
          /\ v.hampered = w.hampered /\ v.connectAll = w.connectAll /\ v.respect = w.respect
      BY <2>1, <2>2 DEF MaestroW
    <2> HIDE DEF v
    <2>4. Grows(w, v)
      BY <2>1, <2>3, Fields DEF Grows
    <2>5. QED
      BY <2>3, <2>4 DEF v
  <1>3. ASSUME a \in ToSet(w.list) PROVE Add(w, a) = w /\ Grows(w, w)
    BY <1>3, Fields DEF Add, Grows
  <1>4. QED
    BY <1>1, <1>2, <1>3

(* /server                                                                   *)
LEMMA AskConnectAttempt ==
    ASSUME Kept, Attempt, NEW a \in Addresses, AskConnect(a)
    PROVE  Attempt'
  <1> DEFINE w == Add(m, a)
             v == Connect(w, a)
  <1>1. m \in MaestroW
    BY KeptFields
  <1>2. Becomes(v, held)
    BY StepBecomes DEF AskConnect
  <1>3. /\ Grows(m, w) /\ w.hampered = m.hampered /\ w.connectAll = m.connectAll
        /\ w.respect = m.respect
    BY <1>1, AddGrows
  <1> HIDE DEF w
  <1>4. w \in MaestroW
    BY <1>3 DEF Grows
  <1>5. /\ Grows(w, v) /\ v.hampered = w.hampered /\ v.connectAll = w.connectAll
        /\ v.respect = w.respect
    BY <1>4, AddGrows, ConnectTimer
  <1> HIDE DEF v
  <1>6. Grows(m, v)
    BY <1>1, <1>3, <1>5, GrowsTrans
  <1>7. Ticks(m, v)
    BY <1>1, <1>3, <1>5, <1>6, GrowsLive
  <1>8. QED
    BY <1>2, <1>7, TicksAttempt

(* on_client_disconnect, and the INI of a client                             *)
LEMMA ClientAttempt ==
    ASSUME Kept, Attempt, ClientLeaves \/ ClientComes
    PROVE  Attempt'
  <1>1. m \in MaestroW
    BY KeptFields
  <1>2. ASSUME NEW c \in BOOLEAN, NEW s \in [Addresses -> States \cup {"none"}],
               Becomes([m EXCEPT !.client = c, !.seen = s], held)
        PROVE  Attempt'
    <2> DEFINE v == [m EXCEPT !.client = c, !.seen = s]
    <2>1. /\ v \in MaestroW /\ v.list = m.list /\ v.node = m.node /\ v.orphans = m.orphans
          /\ v.hampered = m.hampered /\ v.connectAll = m.connectAll /\ v.respect = m.respect
      BY <1>1 DEF MaestroW
    <2>2. Becomes(v, held)
      BY <1>2
    <2> HIDE DEF v
    <2>3. Ticks(m, v)
      BY <2>1 DEF Ticks, Live
    <2>4. QED
      BY <2>2, <2>3, TicksAttempt
  <1>3. CASE ClientLeaves
    <2> DEFINE s == [a \in Addresses |-> "none"]
    <2>1. s \in [Addresses -> States \cup {"none"}]
      OBVIOUS
    <2>2. Becomes([m EXCEPT !.client = FALSE, !.seen = s], held)
      BY <1>3, StepBecomes DEF ClientLeaves
    <2> HIDE DEF s
    <2>3. QED
      BY <1>2, <2>1, <2>2
  <1>4. CASE ClientComes
    <2> DEFINE s == Shown(m.list, m.node)
    <2>1. s \in [Addresses -> States \cup {"none"}]
      BY DEF Shown, States
    <2>2. Becomes([m EXCEPT !.client = TRUE, !.seen = s], held)
      BY <1>4, StepBecomes DEF ClientComes
    <2> HIDE DEF s
    <2>3. QED
      BY <1>2, <2>1, <2>2
  <1>5. QED
    BY <1>3, <1>4

(* on_comm_port_defined: the timer of the node runs on.                      *)
LEMMA PortDefinedAttempt ==
    ASSUME Kept, Attempt, NEW a \in Addresses, PortDefined(a)
    PROVE  Attempt'
  <1> DEFINE h == HostOf[a]
  <1>1. ASSUME NEW sock \in {"up", "refused"}, NEW reply \in Answers
        PROVE  Ticks(m, Port(a, sock, reply))
    <2> DEFINE n == m.node[a]
               r == n.running - 1
               k == [n EXCEPT !.running = r, !.sock = "down", !.reply = "none"]
               j == [k EXCEPT !.state = "CONNECT", !.err = "none", !.lastError = FALSE]
               w == Closed([m EXCEPT !.node[a].running = @ - 1], a)
               x == [w EXCEPT !.node[a].state = "CONNECT", !.node[a].err = "none",
                              !.node[a].lastError = FALSE]
               c == IF m.node[a].state = "CONNECT" THEN w ELSE Tell(x, a, "CONNECT")
               v == [c EXCEPT !.node[a].sock = sock, !.node[a].reply = reply]
    <2>1. m \in MaestroW /\ n \in NodeW /\ n.running > 0
      BY KeptFields, Fields DEF PortDefined
    <2>2. r \in Nat
      BY <2>1 DEF NodeW
    <2>3. w = [m EXCEPT !.node[a] = k]
      BY <2>1 DEF Closed, MaestroW
    <2>4. x = [m EXCEPT !.node[a] = j]
      <3> HIDE DEF k, w
      <3>1. QED
        BY <2>1, <2>3 DEF MaestroW
    <2> HIDE DEF r, n
    <2>5. k \in NodeW /\ k.timer = n.timer
      BY <2>1, <2>2 DEF NodeW
    <2> HIDE DEF k
    <2>6. j \in NodeW /\ j.timer = n.timer
      BY <2>5 DEF NodeW, States, Errors
    <2> HIDE DEF j, w, x
    <2>7. ASSUME NEW i \in NodeW, i.timer = n.timer, NEW y, y = [m EXCEPT !.node[a] = i]
          PROVE  y \in MaestroW /\ Ticks(m, y)
      <3>1. /\ y \in MaestroW /\ y.list = m.list /\ y.node[a] = i /\ y.orphans = m.orphans
            /\ y.connectAll = m.connectAll /\ y.respect = m.respect
            /\ \A b \in Addresses : b # a => y.node[b] = m.node[b]
        BY <2>1, <2>7, NodeChanged
      <3>2. y.hampered = m.hampered
        BY <2>1, <2>7 DEF MaestroW
      <3>3. Grows(m, y)
        BY <2>1, <2>7, <3>1, Fields DEF Grows, n
      <3>4. QED
        BY <2>1, <3>1, <3>2, <3>3, GrowsLive
    <2>8. w \in MaestroW /\ Ticks(m, w) /\ x \in MaestroW /\ Ticks(m, x)
      BY <2>3, <2>4, <2>5, <2>6, <2>7
    <2>9. "CONNECT" \in States
      BY DEF States
    <2>10. Quiet(x, Tell(x, a, "CONNECT"))
      BY <2>8, <2>9, TellQuiet
    <2>11. Ticks(m, Tell(x, a, "CONNECT"))
      BY <2>1, <2>8, <2>10, QuietTicks
    <2>12. c \in MaestroW /\ Ticks(m, c)
      BY <2>8, <2>11 DEF Ticks
    <2> HIDE DEF c
    <2> DEFINE l == [c.node[a] EXCEPT !.sock = sock, !.reply = reply]
    <2>13. c.node[a] \in NodeW
      BY <2>12, Fields
    <2>14. /\ l \in NodeW /\ l.state = c.node[a].state /\ l.timer = c.node[a].timer
           /\ l.canceled = c.node[a].canceled
      BY <2>13 DEF NodeW
    <2>15. v = [c EXCEPT !.node[a] = l]
      BY <2>12 DEF MaestroW
    <2> HIDE DEF l, v
    <2>16. Quiet(c, v)
      BY <2>12, <2>14, <2>15, NodeQuiet
    <2>17. Ticks(m, v)
      BY <2>1, <2>12, <2>16, QuietTicks
    <2>18. Port(a, sock, reply) = v
      BY DEF Port, v, c, x, w
    <2>19. QED
      BY <2>17, <2>18
  <1>2. \/ \E r \in Replies : Event(Port(a, "up", r), [held EXCEPT ![h] = "live"])
        \/ Event(Port(a, "refused", "refused"), held)
    BY DEF PortDefined, Port
  <1>3. Replies \subseteq Answers /\ "refused" \in Answers
    BY ConnectionsAssumption DEF Answers
  <1>4. \/ \E r \in Replies : Becomes(Port(a, "up", r), [held EXCEPT ![h] = "live"])
        \/ Becomes(Port(a, "refused", "refused"), held)
    BY <1>2, StepBecomes, Zenon
  <1>5. QED
    BY <1>1, <1>3, <1>4, TicksAttempt

(* on_daemon_append_key: every node that waits gets its timer.               *)
LEMMA KeyAppendedAttempt ==
    ASSUME Kept, Attempt, NEW a \in Addresses, KeyAppended(a)
    PROVE  Attempt'
  <1> DEFINE n == m.node[a]
             k == [n EXCEPT !.keying = FALSE]
             w == [m EXCEPT !.node[a] = k]
             v == IF w.connectAll THEN ContinueAll(w) ELSE w
  <1>1. m \in MaestroW /\ n \in NodeW
    BY KeptFields, Fields
  <1>2. Event(v, held)
    BY <1>1 DEF KeyAppended, MaestroW
  <1> HIDE DEF n
  <1>3. k \in NodeW /\ k.state = n.state /\ k.timer = n.timer /\ k.canceled = n.canceled
    BY <1>1 DEF NodeW
  <1> HIDE DEF k
  <1>4. Quiet(m, w)
    BY <1>1, <1>3, NodeQuiet DEF n
  <1> HIDE DEF w
  <1>5. w \in MaestroW
    BY <1>4 DEF Quiet
  <1>6. Ticks(w, ContinueAll(w))
    <2>1. CASE ~w.client
      BY <1>5, <2>1 DEF ContinueAll, Ticks
    <2>2. CASE w.client
      <3> DEFINE all   == {b \in ToSet(w.list) : Waiting(w, b)}
                 nodes == [b \in Addresses |-> IF b \in all THEN Connect(w, b).node[b] ELSE w.node[b]]
                 rows  == [b \in Addresses |-> IF b \in all THEN Connect(w, b).seen[b] ELSE w.seen[b]]
                 more  == Cardinality({b \in all : Connect(w, b).orphans # w.orphans})
                 o     == w.orphans + more
                 u     == [w EXCEPT !.node = nodes, !.seen = rows, !.orphans = o]
      <3>1. ContinueAll(w) = u
        BY <2>2 DEF ContinueAll
      <3>2. u \in MaestroW /\ u.list = w.list
        BY <1>5, <3>1, ContinueAllConnects DEF Connects, Calm, Mild
      <3>3. more \in Nat
        <4> DEFINE S == {b \in all : Connect(w, b).orphans # w.orphans}
        <4>1. S \in SUBSET Addresses
          BY <1>5, Fields DEF ToSet
        <4>2. Cardinality(S) \in Nat
          BY <4>1, FS_Subset, FS_CardinalityType, ConnectionsAssumption
        <4> HIDE DEF S, all
        <4>3. QED
          BY <4>2 DEF S
      <3> HIDE DEF more
      <3>4. o >= w.orphans
        BY <1>5, <3>3, Fields
      <3>5. \A b \in Addresses : w.node[b].timer = "live" => nodes[b].timer = "live"
        <4> HIDE DEF all
        <4>1. \A b \in Addresses : w.node[b].timer = "live" => Connect(w, b).node[b].timer = "live"
          BY <1>5, ConnectTimer
        <4>2. QED
          BY <4>1
      <3> HIDE DEF nodes, rows, o
      <3>6. /\ u.node = nodes /\ u.orphans = o /\ u.hampered = w.hampered
            /\ u.connectAll = w.connectAll /\ u.respect = w.respect
        BY <1>5 DEF MaestroW
      <3> HIDE DEF u
      <3>7. Grows(w, u)
        BY <3>2, <3>4, <3>5, <3>6 DEF Grows
      <3>8. QED
        BY <1>5, <3>1, <3>6, <3>7, GrowsLive
    <2>3. QED
      BY <2>1, <2>2
  <1>7. Ticks(w, v)
    BY <1>5, <1>6 DEF Ticks
  <1>8. Becomes(v, held)
    BY <1>2, StepBecomes
  <1> HIDE DEF v
  <1>9. Ticks(m, v)
    BY <1>1, <1>4, <1>7, QuietTicks
  <1>10. QED
    BY <1>8, <1>9, TicksAttempt

(* connect_all_daemons: the first node has its timer, or nothing begins.     *)
LEMMA ConnectAllAttempt ==
    ASSUME Kept, NEW respect \in BOOLEAN, ConnectAll(respect)
    PROVE  Attempt'
  <1> DEFINE nodes == [a \in Addresses |->
                         IF a \in Listed THEN [m.node[a] EXCEPT !.canceled = FALSE] ELSE m.node[a]]
             begun == [m EXCEPT !.connectAll = TRUE, !.respect = respect, !.hampered = FALSE,
                                !.node = nodes]
             may(a) == a \in AutoOn \/ ~respect
             idle  == {i \in DOMAIN m.list : m.node[m.list[i]].state = "DISCONNECTED" /\ may(m.list[i])}
             i     == Min(idle)
             one   == IF idle = {} THEN begun ELSE Connect(begun, m.list[i])
             add   == Add(one, Own)
             own   == IF may(Own) THEN Connect(add, Own) ELSE add
             all   == idle # {}
             v     == [own EXCEPT !.connectAll = all]
  <1>1. m \in MaestroW /\ Own \in Addresses
    BY KeptFields, ConnectionsAssumption
  <1>2. Request(v)
    BY DEF ConnectAll
  <1>3. Becomes(v, held)
    BY <1>2, StepBecomes
  <1>4. ASSUME NEW a \in Addresses
        PROVE  nodes[a] \in NodeW /\ nodes[a].state = m.node[a].state
    <2> DEFINE n == m.node[a]
               k == [n EXCEPT !.canceled = FALSE]
    <2>1. n \in NodeW
      BY <1>1, Fields
    <2>2. nodes[a] = k \/ nodes[a] = n
      OBVIOUS
    <2> HIDE DEF n, nodes
    <2>3. k \in NodeW /\ k.state = n.state
      BY <2>1 DEF NodeW
    <2> HIDE DEF k
    <2>4. QED
      BY <2>1, <2>2, <2>3 DEF n
  <1>5. nodes \in [Addresses -> NodeW]
    BY <1>4
  <1> HIDE DEF nodes
  <1>6. /\ begun \in MaestroW /\ begun.list = m.list /\ begun.node = nodes
        /\ begun.connectAll = TRUE
    BY <1>1, <1>5 DEF MaestroW
  <1> HIDE DEF begun
  <1>7. one \in MaestroW /\ (all => Live(one))
    <2>1. CASE idle = {}
      BY <1>6, <2>1
    <2>2. CASE idle # {}
      <3>1. i \in idle
        <4>1. idle \in SUBSET Nat
          BY <1>1, Fields
        <4>2. QED
          BY <2>2, <4>1, MinIn
      <3> HIDE DEF i
      <3> DEFINE a == m.list[i]
      <3>2. i \in DOMAIN m.list /\ m.node[a].state = "DISCONNECTED"
        BY <3>1
      <3>3. one = Connect(begun, a)
        BY <2>2
      <3> HIDE DEF idle, may, one
      <3>4. a \in Addresses /\ a \in ToSet(m.list)
        BY <1>1, <3>2, Fields DEF ToSet
      <3> HIDE DEF a
      <3>5. begun.node[a].state = "DISCONNECTED"
        BY <1>4, <1>6, <3>2, <3>4
      <3>6. one \in MaestroW /\ one.list = m.list /\ one.node[a].timer = "live"
        BY <1>6, <3>3, <3>4, <3>5, ConnectTimer
      <3>7. QED
        BY <3>4, <3>6 DEF Live
    <2>3. QED
      BY <2>1, <2>2
  <1> HIDE DEF one
  <1>8. Grows(one, add) /\ add \in MaestroW
    BY <1>1, <1>7, AddGrows DEF Grows
  <1> HIDE DEF add
  <1>9. own \in MaestroW /\ (Live(add) => Live(own))
    <2>1. Grows(add, Connect(add, Own))
      BY <1>1, <1>8, AddGrows
    <2>2. Connect(add, Own) \in MaestroW /\ (Live(add) => Live(Connect(add, Own)))
      BY <1>8, <2>1, GrowsLive DEF Grows
    <2>3. QED
      BY <1>8, <2>2
  <1>10. all \in BOOLEAN
    OBVIOUS
  <1> HIDE DEF own, all
  <1>11. /\ v \in MaestroW /\ v.list = own.list /\ v.node = own.node /\ v.orphans = own.orphans
         /\ v.connectAll = all
    BY <1>9, <1>10 DEF MaestroW
  <1> HIDE DEF v
  <1>12. v.connectAll => Live(v)
    <2>1. Live(one) => Live(add)
      BY <1>7, <1>8, GrowsLive
    <2>2. Live(own) => Live(v)
      BY <1>11 DEF Live
    <2>3. QED
      BY <1>7, <1>9, <1>11, <2>1, <2>2
  <1>13. QED
    BY <1>3, <1>11, <1>12, LiveAttempt

(* gebrm_server_op_parse_messages, up to on_daemon_init: connect-all has     *)
(* gone on.                                                                  *)
LEMMA LoginGoesOn ==
    ASSUME NEW w \in MaestroW, NEW a \in Addresses
    PROVE  \E v : /\ v \in MaestroW /\ v.hampered = w.hampered /\ (v.connectAll => w.connectAll)
                  /\ v.respect = w.respect /\ Tries(v) /\ v.node[a].state = "LOGGED"
                  /\ Login(w, a) = OnDaemonInit(v, a, "ok")
  <1> DEFINE n  == w.node[a]
             k  == [n EXCEPT !.state = "LOGGED", !.timer = "none", !.canceled = FALSE]
             l  == [w EXCEPT !.node[a] = k]
             c  == ContinueIfAll(l)
             t  == Tell(c, a, "LOGGED")
             j  == t.node[a]
             f  == IF j.nfsid = NoNfs THEN NfsOf[HostOf[a]] ELSE j.nfsid
             id == IF j.id = NoHost THEN HostOf[a] ELSE j.id
             ke == a \in KeyUsers
             i  == [j EXCEPT !.init = TRUE, !.keying = ke, !.nfsid = f, !.id = id]
             v  == [t EXCEPT !.node[a] = i]
  <1>1. n \in NodeW
    BY Fields
  <1>2. Logged(w, a) = t
    BY DEF Logged, MaestroW
  <1> HIDE DEF n
  <1>3. k \in NodeW /\ k.state = "LOGGED"
    BY <1>1 DEF NodeW, States
  <1> HIDE DEF k
  <1>4. /\ l \in MaestroW /\ l.node[a] = k /\ l.connectAll = w.connectAll /\ l.respect = w.respect
    BY <1>3, NodeChanged
  <1>5. l.hampered = w.hampered
    BY DEF MaestroW
  <1> HIDE DEF l
  <1>6. Connects(l, c) /\ Ticks(l, c) /\ Tries(c)
    BY <1>4, GoesOn, GoesOnTries
  <1> HIDE DEF c
  <1>7. c \in MaestroW /\ c.node[a].state = "LOGGED"
    BY <1>3, <1>4, <1>6 DEF Connects, Ticks
  <1>8. "LOGGED" \in States
    BY DEF States
  <1>9. Quiet(c, t)
    BY <1>7, <1>8, TellQuiet
  <1> HIDE DEF t
  <1>10. t \in MaestroW /\ j \in NodeW /\ j.state = "LOGGED"
    BY <1>7, <1>9, Fields DEF Quiet
  <1>11. Login(w, a) = OnDaemonInit(v, a, "ok")
    <2> DEFINE y == [t EXCEPT !.node[a].init  = TRUE,
                              !.node[a].keying = ke,
                              !.node[a].nfsid = f,
                              !.node[a].id    = id]
    <2>1. Login(w, a) = OnDaemonInit(y, a, "ok")
      BY <1>2 DEF Login
    <2> HIDE DEF f, id, ke
    <2>2. y = v
      BY <1>10 DEF MaestroW
    <2> HIDE DEF y, v
    <2>3. QED
      BY <2>1, <2>2
  <1> HIDE DEF j
  <1>12. HostOf[a] \in Hosts /\ NfsOf[HostOf[a]] \in Nfs
    BY ConnectionsAssumption DEF Nfs
  <1>13. f \in Nfs \cup {NoNfs} /\ id \in Hosts \cup {NoHost} /\ ke \in BOOLEAN
    BY <1>10, <1>12 DEF NodeW
  <1> HIDE DEF f, id, ke
  <1>14. i \in NodeW /\ i.state = j.state /\ i.timer = j.timer /\ i.canceled = j.canceled
    BY <1>10, <1>13 DEF NodeW
  <1> HIDE DEF i
  <1>15. Quiet(t, v) /\ v.node[a] = i
    BY <1>10, <1>14, NodeQuiet, NodeChanged DEF j
  <1> HIDE DEF v
  <1>16. Quiet(c, v)
    BY <1>9, <1>15, QuietTrans
  <1>17. v \in MaestroW /\ v.node[a].state = "LOGGED" /\ Tries(v)
    BY <1>6, <1>7, <1>10, <1>14, <1>15, <1>16, QuietSame DEF Quiet
  <1>18. v.hampered = w.hampered /\ (v.connectAll => w.connectAll) /\ v.respect = w.respect
    BY <1>4, <1>5, <1>6, <1>16 DEF Ticks, Quiet
  <1>19. QED
    BY <1>11, <1>17, <1>18

(* The login: a node that is turned away lets connect-all go on once more.   *)
LEMMA LoginTicks ==
    ASSUME NEW w \in MaestroW, NEW a \in Addresses
    PROVE  Ticks(w, Login(w, a))
  <1>1. PICK e : /\ e \in MaestroW /\ e.hampered = w.hampered /\ (e.connectAll => w.connectAll)
                 /\ e.respect = w.respect /\ Tries(e) /\ e.node[a].state = "LOGGED"
                 /\ Login(w, a) = OnDaemonInit(e, a, "ok")
    BY LoginGoesOn
  <1> DEFINE N == e.node[a].nfsid
             f == IF e.nfsid = NoNfs THEN N ELSE e.nfsid
             x == [e EXCEPT !.nfsid = f]
  <1>2. OnDaemonInit(e, a, "ok") =
          IF x.nfsid # N THEN TurnedAway(x, a, "nfs")
          ELSE Tell([x EXCEPT !.node[a].err = "none"], a, "LOGGED")
    BY <1>1 DEF OnDaemonInit
  <1>3. e.nfsid \in Nfs \cup {NoNfs} /\ N \in Nfs \cup {NoNfs}
    BY <1>1, Fields DEF NodeW
  <1>4. f \in Nfs \cup {NoNfs}
    BY <1>3
  <1> HIDE DEF f, N
  <1>5. /\ x \in MaestroW /\ x.list = e.list /\ x.node = e.node /\ x.orphans = e.orphans
        /\ x.client = e.client /\ x.connectAll = e.connectAll /\ x.hampered = e.hampered
        /\ x.respect = e.respect
    BY <1>1, <1>4 DEF MaestroW
  <1> HIDE DEF x
  <1>6. Quiet(e, x)
    BY <1>5 DEF Quiet
  <1>7. Tries(x) /\ Ticks(w, x)
    <2>1. Tries(x)
      BY <1>1, <1>6, QuietSame
    <2>2. QED
      BY <1>1, <1>5, <2>1 DEF Ticks
  <1>8. CASE x.nfsid # N
    <2> DEFINE v == TurnedAway(x, a, "nfs")
    <2>1. "nfs" \in Errors /\ "nfs" # "none" /\ x.node[a].state # "DISCONNECTED"
      BY <1>1, <1>5 DEF Errors
    <2>2. Ticks(x, v) /\ Tries(v)
      BY <1>5, <2>1, TurnedAwayTicks
    <2>3. Login(w, a) = v
      BY <1>1, <1>2, <1>8
    <2> HIDE DEF v
    <2>4. QED
      BY <1>7, <2>2, <2>3 DEF Ticks
  <1>9. CASE x.nfsid = N
    <2> DEFINE k == [x.node[a] EXCEPT !.err = "none"]
               y == [x EXCEPT !.node[a] = k]
               v == Tell(y, a, "LOGGED")
    <2>1. x.node[a] \in NodeW
      BY <1>5, Fields
    <2>2. /\ k \in NodeW /\ k.state = x.node[a].state /\ k.timer = x.node[a].timer
          /\ k.canceled = x.node[a].canceled
      BY <2>1 DEF NodeW, Errors
    <2>3. Login(w, a) = v
      <3>1. [x EXCEPT !.node[a].err = "none"] = y
        BY <1>5 DEF MaestroW
      <3> HIDE DEF y
      <3>2. QED
        BY <1>1, <1>2, <1>9, <3>1
    <2> HIDE DEF k
    <2>4. Quiet(x, y)
      BY <1>5, <2>2, NodeQuiet
    <2> HIDE DEF y
    <2>5. y \in MaestroW /\ "LOGGED" \in States
      BY <2>4 DEF Quiet, States
    <2>6. Quiet(y, v)
      BY <2>5, TellQuiet
    <2> HIDE DEF v
    <2>7. QED
      BY <1>7, <2>3, <2>4, <2>6, QuietTrans, QuietTicks
  <1>10. QED
    BY <1>8, <1>9

(* on_daemon_init for a node that was not let in.  Where a second address is *)
(* also taken off the list, it must not have been in connect-all's way.      *)
LEMMA RefusedTicks ==
    ASSUME NEW w \in MaestroW, IsInjective(w.list), NEW a \in Addresses,
           NEW r \in {"refused", "protocol", "cookie"}
    PROVE  LET v == OnDaemonInit(w, a, r)
           IN /\ v \in MaestroW /\ v.hampered = w.hampered /\ (v.connectAll => w.connectAll)
              /\ (w.respect => a \in AutoOn) => Ticks(w, v)
  <1>1. r \in Errors /\ r # "none" /\ "id" \in Errors /\ "id" # "none"
    BY DEF Errors
  <1>2. CASE OnDaemonInit(w, a, r) = TurnedAway(w, a, r)
    BY <1>1, <1>2, TurnedAwayTicks DEF Ticks
  <1>3. CASE OnDaemonInit(w, a, r) = RemoveDaemon(TurnedAway(w, a, "id"), a)
    <2> DEFINE u == TurnedAway(w, a, "id")
               v == RemoveDaemon(u, a)
    <2>1. /\ Leaves(w, u, a) /\ Ticks(w, u)
          /\ w.node[a].state # "DISCONNECTED" => Tries(u) /\ u.node[a].timer = "none"
          /\ w.node[a].state = "DISCONNECTED" => Quiet(w, u)
      BY <1>1, TurnedAwayLeaves, TurnedAwayTicks
    <2> HIDE DEF u
    <2>2. u \in MaestroW /\ IsInjective(u.list) /\ u.node[a].state = "DISCONNECTED"
          /\ u.respect = w.respect
      BY <2>1 DEF Leaves, Calm, Mild, Ticks
    <2>3. /\ Ticks(u, v)
          /\ Tries(u) /\ u.node[a].timer = "none" /\ (u.respect => a \in AutoOn) => Tries(v)
      BY <2>2, RemoveTicks
    <2> HIDE DEF v
    <2>4. /\ v \in MaestroW /\ v.hampered = w.hampered /\ (v.connectAll => w.connectAll)
          /\ v.respect = w.respect
      BY <2>1, <2>3 DEF Ticks
    <2>5. ASSUME w.respect => a \in AutoOn PROVE Ticks(w, v)
      <3>1. CASE w.node[a].state # "DISCONNECTED"
        BY <2>1, <2>2, <2>3, <2>4, <2>5, <3>1 DEF Ticks
      <3>2. CASE w.node[a].state = "DISCONNECTED"
        BY <2>1, <2>3, <3>2, QuietTicks
      <3>3. QED
        BY <3>1, <3>2
    <2>6. QED
      BY <1>3, <2>4, <2>5 DEF u, v
  <1>4. \/ OnDaemonInit(w, a, r) = TurnedAway(w, a, r)
        \/ OnDaemonInit(w, a, r) = RemoveDaemon(TurnedAway(w, a, "id"), a)
    BY DEF OnDaemonInit
  <1>5. QED
    BY <1>2, <1>3, <1>4

(* The answer to INI, or ERR.                                                *)
LEMMA AnswerAttempt ==
    ASSUME Kept, Attempt, NEW a \in Addresses, Answer(a)
    PROVE  Attempt'
  <1> DEFINE n == m.node[a]
             r == n.reply
             k == [n EXCEPT !.reply = "none"]
             w == [m EXCEPT !.node[a] = k]
             v == IF r = "ok" THEN Login(w, a) ELSE IF n.init THEN w ELSE OnDaemonInit(w, a, r)
  <1>1. m \in MaestroW /\ Fine(m) /\ n \in NodeW
    BY KeptFields, Fields
  <1>2. r # "none"
    BY DEF Answer
  <1>3. a \in ToSet(m.list)
    BY <1>1, <1>2, BusyListed
  <1>4. Event(v, held)
    <2>1. w = [m EXCEPT !.node[a].reply = "none"]
      BY <1>1 DEF MaestroW
    <2> HIDE DEF w
    <2>2. QED
      BY <2>1 DEF Answer
  <1>5. r \in {"ok", "refused", "protocol", "cookie"}
    BY <1>1, <1>2 DEF NodeW, Answers
  <1> HIDE DEF n
  <1>6. k \in NodeW /\ k.state = n.state /\ k.timer = n.timer /\ k.canceled = n.canceled
    BY <1>1 DEF NodeW
  <1> HIDE DEF k
  <1>7. Quiet(m, w)
    BY <1>1, <1>6, NodeQuiet DEF n
  <1> HIDE DEF w, r
  <1>8. /\ w \in MaestroW /\ w.list = m.list /\ w.hampered = m.hampered
        /\ w.connectAll = m.connectAll /\ w.respect = m.respect /\ IsInjective(w.list)
    BY <1>1, <1>7 DEF Quiet, Fine
  <1>9. Becomes(v, held)
    BY <1>4, StepBecomes
  <1>10. CASE r = "ok"
    <2> DEFINE i == Login(w, a)
    <2>1. Ticks(w, i)
      BY <1>8, LoginTicks
    <2>2. v = i
      BY <1>10
    <2> HIDE DEF i, v
    <2>3. QED
      BY <1>1, <1>7, <1>9, <2>1, <2>2, QuietTicks, TicksAttempt
  <1>11. CASE r # "ok" /\ n.init
    <2>1. v = w
      BY <1>11
    <2> HIDE DEF v
    <2>2. QED
      BY <1>1, <1>7, <1>9, <2>1, QuietTicks, TicksAttempt
  <1>12. CASE r # "ok" /\ ~n.init
    <2> DEFINE i == OnDaemonInit(w, a, r)
    <2>1. /\ i \in MaestroW /\ i.hampered = w.hampered /\ (i.connectAll => w.connectAll)
          /\ (w.respect => a \in AutoOn) => Ticks(w, i)
      BY <1>5, <1>8, <1>12, RefusedTicks
    <2>2. v = i
      BY <1>12
    <2> HIDE DEF i, v
    <2>3. CASE m.connectAll /\ ~m.hampered
      <3>1. w.respect => a \in AutoOn
        BY <1>3, <1>8, <2>3 DEF Attempt, Obstacle
      <3>2. Ticks(m, i)
        BY <1>1, <1>7, <2>1, <3>1, QuietTicks
      <3>3. QED
        BY <1>9, <2>2, <3>2, TicksAttempt
    <2>4. CASE ~(m.connectAll /\ ~m.hampered)
      <3>1. ~(i.connectAll /\ ~i.hampered)
        BY <1>8, <2>1, <2>4
      <3>2. QED
        BY <1>9, <2>1, <2>2, <3>1, LiveAttempt
    <2>5. QED
      BY <2>3, <2>4
  <1>13. QED
    BY <1>10, <1>11, <1>12

(* Every step keeps the timer of connect-all.                                *)
LEMMA StepAttempt == CInv /\ Attempt /\ [Next]_vars => Attempt'
  <1> SUFFICES ASSUME CInv, Attempt, [Next]_vars PROVE Attempt'
    OBVIOUS
  <1>1. Kept
    BY DEF CInv, TypeOK, Kept
  <1>2. ASSUME NEW a \in Addresses,
               \/ AskConnect(a) \/ AskDisconnect(a) \/ AskStop(a) \/ AskRemove(a)
               \/ Ask(a) \/ SetPassword(a) \/ InvalidPassword(a) \/ PortError(a) \/ PortDefined(a)
               \/ Answer(a) \/ Lost(a) \/ TimeOut(a) \/ KeyAppended(a)
        PROVE  Attempt'
    BY <1>1, <1>2, AskConnectAttempt, LostAttempt, AskStopAttempt, PasswordAttempt,
       InvalidPasswordAttempt, PortErrorAttempt, PortDefinedAttempt, AnswerAttempt, TimeOutAttempt,
       KeyAppendedAttempt
  <1>3. ASSUME NEW respect \in BOOLEAN, ConnectAll(respect) PROVE Attempt'
    BY <1>1, <1>3, ConnectAllAttempt
  <1>4. ASSUME UNCHANGED m PROVE Attempt'
    BY <1>4 DEF Attempt
  <1>5. TimeOutOrphan \/ ClientLeaves \/ ClientComes => Attempt'
    BY <1>1, TimeOutAttempt, ClientAttempt
  <1>6. QED
    BY <1>2, <1>3, <1>4, <1>5 DEF Next, vars, GebrdNotices

(* While connect-all is on, and nothing stands in its way, a timer runs that *)
(* will go on with the next node, whatever fails, is refused, is taken away  *)
(* or comes back (gebrm_app_continue_connections_of_daemons).                *)
THEOREM ConnectAllTries == Spec => []SomebodyTries
  <1>1. Init => Attempt
    BY DEF Init, Attempt
  <1>2. CInv /\ Attempt /\ [Next]_vars => Attempt'
    BY StepAttempt
  <1>3. Attempt => SomebodyTries
    BY DEF Attempt, SomebodyTries, Live, Listed
  <1>4. QED
    BY <1>1, <1>2, <1>3, ConnectionsInvariant, PTL DEF Spec

=============================================================================
