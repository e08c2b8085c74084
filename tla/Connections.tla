---------------------------- MODULE Connections ----------------------------
(***************************************************************************)
(* How the maestro connects to the processing nodes: the states of a          *)
(* GebrCommServer (libgebr/comm/gebr-comm-server.c), what a GebrmDaemon keeps  *)
(* of the node behind it (maestro/gebrm-daemon.c), "connect all", which         *)
(* connects the nodes one after the other with a timer for each, and the       *)
(* login, in which nodes of another file system and second addresses of the    *)
(* same host are turned away (maestro/gebrm-app.c).                           *)
(*                                                                         *)
(* The handlers of the maestro are operators on a record m:                    *)
(*   list        daemons, the addresses in the order of the list              *)
(*   node        what is kept for each address                                *)
(*   connectAll, respect, nfsid   connect_all, respect_ac and nfsid           *)
(*   client      whether a GUI is connected                                   *)
(*   seen        the states its rows show once it has read what was sent to it   *)
(*   orphans     timers that run although their id was overwritten or freed     *)
(*   hampered    history: something "connect all" does not cope with          *)
(* They call each other as in the code: a change of state runs its callback     *)
(* before the caller goes on.                                                 *)
(***************************************************************************)
EXTENDS Integers, Sequences, FiniteSets, SequencesExt

CONSTANTS
    Addresses,      \* addresses a user may type
    Hosts,          \* the machines behind them
    HostOf,         \* the machine of an address
    NfsOf,          \* the file system a machine has its home on
    NoNfs, NoHost,  \* no id known
    Own,            \* the address of the maestro's own host
    Replies,        \* what a node may answer to a login it accepts
    Known,          \* the list of nodes the maestro starts with
    AutoOn,         \* addresses with autoconnect "on"
    KeyUsers,       \* addresses whose user asked for a public key
    MaxRequests,    \* bound: requests of the user
    MaxProviders,   \* bound: port providers of one address
    MaxCuts         \* bound: connections that break without a request

ASSUME ConnectionsAssumption ==
    /\ HostOf \in [Addresses -> Hosts]
    /\ NoHost \notin Hosts
    /\ NoNfs \notin {NfsOf[h] : h \in Hosts}
    /\ Known \in Seq(Addresses) /\ IsInjective(Known)
    /\ Own \in Addresses
    /\ Replies \subseteq {"ok", "protocol", "cookie"}
    /\ IsFiniteSet(Addresses)
    /\ MaxRequests \in Nat /\ MaxProviders \in Nat /\ MaxCuts \in Nat

States  == {"DISCONNECTED", "RUN", "CONNECT", "LOGGED"}
Errors  == {"none", "ssh", "id", "refused", "protocol", "cookie", "nfs", "stop"}
Answers == {"ok", "protocol", "cookie", "refused"}
Nfs     == {NfsOf[h] : h \in Hosts}

\* gebrm_daemon_new.  Besides the fields of the code: the port providers that
\* are running or wait for a password, whether a key is being appended, the
\* socket (down, up, or refused by the node) and what was answered on it.
NewNode == [state |-> "DISCONNECTED", err |-> "none", lastError |-> FALSE, init |-> FALSE,
            canceled |-> FALSE, timer |-> "none", nfsid |-> NoNfs, id |-> NoHost,
            running |-> 0, asking |-> 0, keying |-> FALSE, sock |-> "down", reply |-> "none"]

VARIABLES
    m,              \* the maestro
    held,           \* the one connection a gebrd allows: none, live, or dead (not noticed yet)
    requests, cuts

vars == <<m, held, requests, cuts>>

Listed == ToSet(m.list)

Node == [state: States, err: Errors, lastError: BOOLEAN, init: BOOLEAN, canceled: BOOLEAN,
         timer: {"none", "live"}, nfsid: Nfs \cup {NoNfs}, id: Hosts \cup {NoHost},
         running: 0..MaxProviders, asking: 0..MaxProviders, keying: BOOLEAN,
         sock: {"down", "up", "refused"}, reply: Answers \cup {"none"}]

Maestro == [list: Seq(Addresses), node: [Addresses -> Node], connectAll: BOOLEAN,
            respect: BOOLEAN, nfsid: Nfs \cup {NoNfs}, client: BOOLEAN,
            seen: [Addresses -> States \cup {"none"}], orphans: Nat, hampered: BOOLEAN]

\* The types; no address is on the list twice (add_server_to_list).
TypeOK ==
    /\ m \in Maestro /\ IsInjective(m.list)
    /\ held \in [Hosts -> {"none", "live", "dead"}]
    /\ requests \in 0..MaxRequests
    /\ cuts \in 0..MaxCuts

\* on_client_parse_messages, the INI of a GUI, which has no rows yet: a node that
\* is being connected is shown as disconnected.
Shown(list, node) ==
    [a \in Addresses |-> IF a \notin ToSet(list) THEN "none"
                        ELSE IF node[a].state = "LOGGED" THEN "LOGGED" ELSE "DISCONNECTED"]

Init ==
    /\ m = [list |-> Known, node |-> [a \in Addresses |-> NewNode], connectAll |-> FALSE,
            respect |-> FALSE, nfsid |-> NoNfs, client |-> TRUE, orphans |-> 0, hampered |-> FALSE,
            seen |-> Shown(Known, [a \in Addresses |-> NewNode])]
    /\ held = [h \in Hosts |-> "none"]
    /\ requests = 0
    /\ cuts = 0
-----------------------------------------------------------------------------
(* gebrm-app.c: connect all                                                 *)

\* send_server_status_message, and the SST handler of the GUI, which makes a row
\* when it has none
Tell(w, a, state) == IF w.client THEN [w EXCEPT !.seen[a] = state] ELSE w

\* the SRM handler of the GUI
TellRemoved(w, a) == IF w.client THEN [w EXCEPT !.seen[a] = "none"] ELSE w

\* gebr_comm_server_connect and the callback for SERVER_STATE_RUN
Connect(w, a) ==
    LET n == w.node[a]
    IN IF n.state # "DISCONNECTED" THEN w
       ELSE Tell([w EXCEPT
                !.orphans = @ + IF w.connectAll /\ n.timer = "live" THEN 1 ELSE 0,
                !.node[a] = [n EXCEPT
                !.state    = "RUN",
                !.running  = @ + 1,
                !.canceled = IF w.connectAll THEN TRUE ELSE @,
                !.timer    = IF w.connectAll THEN "live" ELSE @]], a, "RUN")

\* mutant: a node that was tried without success still counts
VerifyConnectAllLogged(w) ==
    IF \A i \in DOMAIN w.list : w.node[w.list[i]].state = "LOGGED"
      THEN [w EXCEPT !.connectAll = FALSE]
      ELSE w

\* verify_connect_all
VerifyConnectAll(w) ==
    IF \A i \in DOMAIN w.list :
          w.node[w.list[i]].state = "LOGGED" \/ w.node[w.list[i]].canceled
      THEN [w EXCEPT !.connectAll = FALSE]
      ELSE w

\* The nodes gebrm_app_continue_connections_of_daemons would connect.
Waiting(w, a) ==
    /\ w.node[a].state # "LOGGED"
    /\ a \in AutoOn \/ ~w.respect
    /\ ~w.node[a].canceled

\* ... and the nodes that make it wait for their key.
KeyLogged(w, a) == w.node[a].state = "LOGGED" /\ a \in KeyUsers

\* gebrm_app_continue_connections_of_daemons, after a change of state or a timer:
\* the first node that waits, unless one with a key comes before it.
Continue(w) ==
    LET stops == {i \in DOMAIN w.list : Waiting(w, w.list[i]) \/ KeyLogged(w, w.list[i])}
        a     == w.list[Min(stops)]
    IN IF stops = {} \/ ~w.client \/ KeyLogged(w, a) THEN w ELSE Connect(w, a)

\* ... and after the key of a node was appended: all that wait, each on its own,
\* since the connection of one touches no other.
ContinueAll(w) ==
    LET all == {a \in ToSet(w.list) : Waiting(w, a)}
    IN IF ~w.client THEN w
       ELSE [w EXCEPT
              !.node    = [a \in Addresses |-> IF a \in all THEN Connect(w, a).node[a] ELSE w.node[a]],
              !.seen    = [a \in Addresses |-> IF a \in all THEN Connect(w, a).seen[a] ELSE w.seen[a]],
              !.orphans = @ + Cardinality({a \in all : Connect(w, a).orphans # w.orphans})]

ContinueIfAll(w) == IF w.connectAll THEN VerifyConnectAll(Continue(w)) ELSE w

\* mutant: an error stops the timer, and nobody goes on with the next node
DisconnectedStops(w, a) ==
    LET n == w.node[a]
    IN IF n.state = "DISCONNECTED" THEN w
       ELSE Tell([w EXCEPT !.node[a] = [n EXCEPT
                !.state = "DISCONNECTED",
                !.err   = IF n.lastError THEN "ssh" ELSE @,
                !.init  = FALSE,
                !.timer = IF n.lastError THEN "none" ELSE @]], a, "DISCONNECTED")

\* gebrm_server_op_state_changed and gebrm_app_daemon_on_state_change for
\* SERVER_STATE_DISCONNECTED, after gebr_comm_server_change_state
Disconnected(w, a) ==
    LET n     == w.node[a]
        err   == IF n.lastError THEN "ssh" ELSE n.err
        known == [w EXCEPT !.node[a] = [n EXCEPT
                    !.state    = "DISCONNECTED",
                    !.err      = err,
                    !.init     = FALSE,
                    !.timer    = IF err # "none" THEN "none" ELSE @,
                    !.canceled = @ \/ err # "none"]]
    IN IF n.state = "DISCONNECTED" THEN w
       ELSE Tell(IF known.node[a].canceled THEN ContinueIfAll(known) ELSE known, a, "DISCONNECTED")

\* The callbacks for SERVER_STATE_LOGGED
Logged(w, a) ==
    Tell(ContinueIfAll([w EXCEPT !.node[a].state = "LOGGED", !.node[a].timer = "none",
                                 !.node[a].canceled = FALSE]), a, "LOGGED")

\* gebr_comm_server_disconnected_state, with a message
Failed(w, a) == Disconnected([w EXCEPT !.node[a].lastError = TRUE], a)

\* gebr_comm_stream_socket_disconnect, or a new connection in its place
Closed(w, a) == [w EXCEPT !.node[a].sock = "down", !.node[a].reply = "none"]

\* gebrm_daemon_disconnect and gebr_comm_server_disconnect
Leave(w, a) ==
    LET out == [w EXCEPT !.node[a].nfsid = NoNfs, !.node[a].id = NoHost]
    IN Disconnected(IF w.node[a].state \in {"CONNECT", "LOGGED"} THEN Closed(out, a) ELSE out, a)

\* gebrm_remove_server_from_list
RemoveFromList(w, a) ==
    LET out == Leave([w EXCEPT !.list = RemoveFirst(@, a)], a)
    IN [out EXCEPT !.node[a] = NewNode,
                   !.orphans = @ + IF out.node[a].timer = "live" THEN 1 ELSE 0]

\* mutant: the clients are not told
RemoveDaemonSilent(w, a) == RemoveFromList(w, a)

\* remove_daemon
RemoveDaemon(w, a) == TellRemoved(RemoveFromList(w, a), a)

\* mutant: an address is added without looking for it
AddAgain(w, a) == [w EXCEPT !.list = <<a>> \o @]

\* gebrm_add_server_to_list
Add(w, a) == IF a \in ToSet(w.list) THEN w ELSE [w EXCEPT !.list = <<a>> \o @]
-----------------------------------------------------------------------------
(* gebrm-app.c: the login                                                   *)

\* has_duplicated_daemons.  The error types it compares with are never set: a
\* node counts as just added when it has neither an id nor an error.
HasDuplicated(w, id) ==
    /\ \E a \in ToSet(w.list) : w.node[a].id = NoHost /\ w.node[a].err = "none"
    /\ \E a \in ToSet(w.list) : w.node[a].id = id

\* on_daemon_init with an error, or for a node of another file system
TurnedAway(w, a, err) == Leave([w EXCEPT !.node[a].err = err], a)

\* mutant: file systems are not compared
OnDaemonInitAnyNfs(w, a, reply) ==
    CASE reply = "refused" -> TurnedAway(w, a, "refused")
      [] reply \in {"protocol", "cookie"} -> TurnedAway(w, a, reply)
      [] reply = "ok" -> [w EXCEPT !.nfsid = w.node[a].nfsid, !.node[a].err = "none"]

\* on_daemon_init
OnDaemonInit(w, a, reply) ==
    LET nfsid == w.node[a].nfsid
        first == [w EXCEPT !.nfsid = IF @ = NoNfs THEN nfsid ELSE @]
    IN CASE reply = "refused" ->
              IF HasDuplicated(w, HostOf[a]) THEN RemoveDaemon(TurnedAway(w, a, "id"), a)
                                             ELSE TurnedAway(w, a, "refused")
         [] reply \in {"protocol", "cookie"} -> TurnedAway(w, a, reply)
         [] reply = "ok" ->
              IF first.nfsid # nfsid THEN TurnedAway(first, a, "nfs")
                                     ELSE Tell([first EXCEPT !.node[a].err = "none"], a, w.node[a].state)

\* gebrm_server_op_parse_messages, the answer to INI.  An id that is still there
\* from an earlier connection is kept.
Login(w, a) ==
    LET in == Logged(w, a)
    IN OnDaemonInit([in EXCEPT
            !.node[a].init  = TRUE,
            !.node[a].keying = a \in KeyUsers,
            !.node[a].nfsid = IF @ = NoNfs THEN NfsOf[HostOf[a]] ELSE @,
            !.node[a].id    = IF @ = NoHost THEN HostOf[a] ELSE @], a, "ok")
-----------------------------------------------------------------------------
(* Steps                                                                    *)

\* What "connect all" does not cope with: no GUI to connect for, a node with a
\* key, nodes that are not to be connected, a connection it did not start.
Obstacle(w) ==
    \/ ~w.client
    \/ \E a \in ToSet(w.list) :
          \/ KeyLogged(w, a)
          \/ w.respect /\ a \notin AutoOn
          \/ w.node[a].state \in {"RUN", "CONNECT"} /\ ~w.node[a].canceled

\* w is the maestro's next state; daemons whose socket it closed will notice.
Becomes(w, helds) ==
    /\ \A a \in Addresses : w.node[a].running + w.node[a].asking <= MaxProviders
    /\ m' = [w EXCEPT !.hampered = w.connectAll /\ (w.hampered \/ Obstacle(w))]
    /\ held' = [h \in Hosts |->
          IF \E a \in Addresses : /\ HostOf[a] = h
                                 /\ m.node[a].sock = "up" /\ w.node[a].sock # "up"
            THEN "dead" ELSE helds[h]]

Request(w) ==
    /\ m.client
    /\ requests < MaxRequests
    /\ requests' = requests + 1
    /\ \E v \in {w} : Becomes(v, held)
    /\ UNCHANGED cuts

Event(w, helds) == (\E v \in {w} : Becomes(v, helds)) /\ UNCHANGED <<requests, cuts>>

\* /server
AskConnect(a) == Request(Connect(Add(m, a), a))

\* connect_all_daemons (/connect-daemons), which adds the maestro's own host
ConnectAll(respect) ==
    LET begun == [m EXCEPT !.connectAll = TRUE, !.respect = respect, !.hampered = FALSE,
                           !.node = [a \in Addresses |->
                              IF a \in Listed THEN [m.node[a] EXCEPT !.canceled = FALSE] ELSE m.node[a]]]
        may(a) == a \in AutoOn \/ ~respect
        idle  == {i \in DOMAIN m.list : m.node[m.list[i]].state = "DISCONNECTED" /\ may(m.list[i])}
        one   == IF idle = {} THEN begun ELSE Connect(begun, m.list[Min(idle)])
        own   == IF may(Own) THEN Connect(Add(one, Own), Own) ELSE Add(one, Own)
    IN Request([own EXCEPT !.connectAll = idle # {}])

\* /disconnect of a node without tasks
AskDisconnect(a) == a \in Listed /\ Request(Leave(m, a))

\* /stop: a signal is sent to gebrd, which goes when it arrives; the GUI is told
\* that it is gone.
AskStop(a) == a \in Listed /\ Request(Tell([m EXCEPT !.node[a].err = "stop"], a, "DISCONNECTED"))

\* /remove
AskRemove(a) == a \in Listed /\ Request(RemoveDaemon(m, a))

\* on_comm_ssh_password, on_comm_ssh_question
Ask(a) ==
    /\ m.node[a].running > 0
    /\ Event([m EXCEPT !.node[a].running = @ - 1, !.node[a].asking = @ + 1], held)

\* /set-password, /ssh-answer
SetPassword(a) ==
    /\ m.client
    /\ m.node[a].asking > 0
    /\ Event([m EXCEPT !.node[a].running = @ + m.node[a].asking, !.node[a].asking = 0], held)

\* gebrm_daemon_invalid_password (/set-password without one)
InvalidPassword(a) ==
    LET w == Failed([m EXCEPT !.node[a].asking = 0], a)
    IN /\ m.client
       /\ m.node[a].asking > 0
       /\ Event(Leave([w EXCEPT !.node[a].err = "ssh", !.node[a].canceled = TRUE], a), held)

\* on_comm_ssh_error, gebr_comm_server_socket_error
PortError(a) ==
    /\ m.node[a].running > 0
    /\ Event(Failed([m EXCEPT !.node[a].running = @ - 1], a), held)

\* mutant: gebrd takes every connection
PortDefinedAlways(a) ==
    /\ m.node[a].running > 0
    /\ Event(Tell([m EXCEPT !.node[a].running = @ - 1, !.node[a].state = "CONNECT",
                       !.node[a].sock = "up", !.node[a].reply = "ok"], a, "CONNECT"),
             [held EXCEPT ![HostOf[a]] = "live"])

\* on_comm_port_defined, gebr_comm_server_socket_connected and, in gebrd,
\* server_new_connection.  A connection that was open is closed without a word.
PortDefined(a) ==
    LET h == HostOf[a]
        w == Closed([m EXCEPT !.node[a].running = @ - 1], a)
        c == IF m.node[a].state = "CONNECT" THEN w
             ELSE Tell([w EXCEPT !.node[a].state = "CONNECT", !.node[a].err = "none",
                                 !.node[a].lastError = FALSE], a, "CONNECT")
    IN /\ m.node[a].running > 0
       /\ \/ /\ held[h] = "none"
             /\ \E r \in Replies :
                   Event([c EXCEPT !.node[a].sock = "up", !.node[a].reply = r], [held EXCEPT ![h] = "live"])
          \/ /\ held[h] # "none"
             /\ Event([c EXCEPT !.node[a].sock = "refused", !.node[a].reply = "refused"], held)

\* gebrm_server_op_parse_messages: the answer to INI, or ERR.  A node that has
\* logged in ignores ERR.
Answer(a) ==
    LET r == m.node[a].reply
        w == [m EXCEPT !.node[a].reply = "none"]
    IN /\ r # "none"
       /\ Event(IF r = "ok" THEN Login(w, a)
                ELSE IF m.node[a].init THEN w ELSE OnDaemonInit(w, a, r), held)

\* gebr_comm_server_socket_disconnected: the connection breaks, or gebrd closes
\* the one it has refused.
Lost(a) ==
    /\ m.node[a].sock # "down"
    /\ m.node[a].sock = "refused" \/ cuts < MaxCuts
    /\ cuts' = cuts + IF m.node[a].sock = "up" THEN 1 ELSE 0
    /\ Becomes(Disconnected(Closed(m, a), a), held)
    /\ UNCHANGED requests

\* client_disconnected: gebrd notices, and quits; ssh starts another.
GebrdNotices(h) ==
    /\ held[h] = "dead"
    /\ held' = [held EXCEPT ![h] = "none"]
    /\ UNCHANGED <<m, requests, cuts>>

\* time_out_daemon.  The id of the timer stays in the node: removing it again does
\* nothing.
TimeOut(a) ==
    /\ m.node[a].timer = "live"
    /\ \E w \in {[m EXCEPT !.node[a].timer = "none"]} : \E v \in {Continue(w)} :
          Event(VerifyConnectAll(v), held)

TimeOutOrphan ==
    /\ m.orphans > 0
    /\ \E w \in {[m EXCEPT !.orphans = @ - 1]} : \E v \in {Continue(w)} :
          Event(VerifyConnectAll(v), held)

\* on_daemon_append_key
KeyAppended(a) ==
    /\ m.node[a].keying
    /\ LET w == [m EXCEPT !.node[a].keying = FALSE]
       IN Event(IF w.connectAll THEN ContinueAll(w) ELSE w, held)

\* on_client_disconnect, on_new_connection.  A GUI that comes (back) has made a new
\* GebrMaestroServer.
ClientLeaves ==
    m.client /\ Request([m EXCEPT !.client = FALSE, !.seen = [a \in Addresses |-> "none"]])
ClientComes ==
    ~m.client /\ Event([m EXCEPT !.client = TRUE, !.seen = Shown(m.list, m.node)], held)

Next ==
    \/ \E a \in Addresses :
          \/ AskConnect(a) \/ AskDisconnect(a) \/ AskStop(a) \/ AskRemove(a)
          \/ Ask(a) \/ SetPassword(a) \/ InvalidPassword(a) \/ PortError(a) \/ PortDefined(a)
          \/ Answer(a) \/ Lost(a) \/ TimeOut(a) \/ KeyAppended(a)
    \/ \E respect \in BOOLEAN : ConnectAll(respect)
    \/ \E h \in Hosts : GebrdNotices(h)
    \/ TimeOutOrphan
    \/ ClientLeaves
    \/ ClientComes

\* GLib fires its timers.
Fairness == /\ \A a \in Addresses : WF_vars(TimeOut(a))
            /\ WF_vars(TimeOutOrphan)

Spec == Init /\ [][Next]_vars /\ Fairness
-----------------------------------------------------------------------------
(* Properties                                                               *)

\* All the nodes that are logged in share one file system, the maestro's, though
\* the ids the login compares may be left over from an earlier connection
\* (on_daemon_init, gebrm_daemon_set_nfsid).
OneDomain ==
    \A a \in Listed : m.node[a].state = "LOGGED" => NfsOf[HostOf[a]] = m.nfsid

\* A machine is logged in once, whatever addresses it has and however often
\* connections to it break and come back (server_new_connection,
\* has_duplicated_daemons).
OneLogin ==
    \A a, b \in Listed :
        m.node[a].state = "LOGGED" /\ m.node[b].state = "LOGGED" /\ a # b => HostOf[a] # HostOf[b]

\* The rows of the GUI are the nodes of the list, in the states they are in, although
\* the callbacks that tell it are nested and a node may be taken away inside its own
\* login.  Excepted: a node it was told the end of when it asked for it (/stop), one
\* that was being connected when it came, and the own host of the maestro, which
\* /connect-daemons adds without a word (send_server_status_message, remove_daemon).
NodesShown ==
    m.client => \A a \in Addresses :
        LET state == m.node[a].state
        IN IF m.seen[a] = "none" THEN a \in Listed => a = Own /\ state = "DISCONNECTED"
           ELSE /\ a \in Listed
                /\ \/ m.seen[a] = state
                   \/ /\ m.seen[a] = "DISCONNECTED"
                      /\ state \in {"RUN", "CONNECT"} \/ m.node[a].err = "stop"

\* While "connect all" is on, and nothing stands in its way, a timer runs that
\* will go on with the next node (gebrm_app_continue_connections_of_daemons).
SomebodyTries ==
    m.connectAll /\ ~m.hampered =>
        m.orphans > 0 \/ \E a \in Listed : m.node[a].timer = "live"

\* "Connect all" ends, whatever the nodes do, even if none ever answers
\* (time_out_daemon, verify_connect_all).
ConnectAllEnds == m.connectAll ~> (~m.connectAll \/ m.hampered)
=============================================================================
