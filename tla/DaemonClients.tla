---------------------------- MODULE DaemonClients ---------------------------
(***************************************************************************)
(* The clients of the daemon, one of a chat session each, and how a        *)
(* daemon knows which of them a reminder of a session goes to.  A client   *)
(* keeps one socket and reconnects when any socket it ever opened closes;  *)
(* the host keeps every connection, and of each client the one that last   *)
(* said hello; the registry keeps of each session the client that last     *)
(* connected.  The two ends of a socket see it close at different times.   *)
(* Nothing keeps a second daemon from starting: it takes the socket path   *)
(* over, and the first one goes on with the connections that it has.       *)
(***************************************************************************)
EXTENDS Naturals

CONSTANTS
  Clients,    \* client instances
  Sessions,
  SessionOf,  \* the session of a client, which it never changes
  Sockets,    \* bound: sockets that a client may have at a time; closed ones are reused
  Daemons,    \* bound: daemons that run at a time; ended ones are reused
  NoOne,
  MaxFaults   \* bound: stops of daemons and heartbeats that come late

ASSUME SessionAssumption == SessionOf \in [Clients -> Sessions]
ASSUME NoOneAssumption == NoOne \notin Clients \cup Sockets \cup Daemons
ASSUME SocketsAssumption == Sockets # {}
ASSUME FaultsAssumption == MaxFaults \in Nat

Ends == Clients \X Sockets

VARIABLES
  alive,       \* whether a client runs
  connecting,  \* where its connect stands
  socket,      \* its socket
  beating,     \* whether its heartbeat timer runs
  waiting,     \* whether its reconnect timer runs
  clientEnd,   \* a socket as the client sees it
  serverEnd,   \* a connection as its host sees it
  host,        \* the daemon that has the connection
  clientsById, \* of each daemon: the connection that a client last said hello on
  bySession,   \* of each daemon: the client that is registered for a session
  known,       \* of each daemon: whether sessionByClient has the client
  running,     \* where a daemon stands
  path,        \* the daemon that the socket path leads to
  faults

clientVars == <<alive, connecting, socket, beating, waiting>>
connectionVars == <<clientEnd, serverEnd, host>>
registryVars == <<bySession, known>>
daemonVars == <<running, path>>
vars == <<clientVars, connectionVars, clientsById, registryVars, daemonVars, faults>>

-----------------------------------------------------------------------------
TypeOK ==
  /\ alive \in [Clients -> BOOLEAN]
  \* The first attempt has "failed"; the second hello is that of the attempt after
  \* a daemon has been launched.
  /\ connecting \in [Clients -> {"no", "opening", "hello", "failed", "launched", "second hello"}]
  /\ socket \in [Clients -> Sockets \cup {NoOne}]
  /\ beating \in [Clients -> BOOLEAN]
  /\ waiting \in [Clients -> BOOLEAN]
  \* A "dropped" socket is not writable, and its 'close' has yet to be seen.
  /\ clientEnd \in [Ends -> {"none", "open", "acked", "dropped"}]
  \* So has that of a "closing" connection; a "stale" one has said hello, and is
  \* without a heartbeat for 30 seconds.
  /\ serverEnd \in [Ends -> {"none", "accepted", "greeted", "stale", "closing"}]
  /\ host \in [Ends -> Daemons \cup {NoOne}]
  /\ clientsById \in [Daemons -> [Clients -> Sockets \cup {NoOne}]]
  /\ bySession \in [Daemons -> [Sessions -> Clients \cup {NoOne}]]
  /\ known \in [Daemons -> [Clients -> BOOLEAN]]
  /\ running \in [Daemons -> {"off", "starting", "up"}]
  /\ path \in Daemons \cup {NoOne}
  /\ faults \in Nat

Init ==
  /\ alive = [c \in Clients |-> TRUE]
  /\ connecting = [c \in Clients |-> "opening"]
  /\ socket = [c \in Clients |-> NoOne]
  /\ beating = [c \in Clients |-> FALSE]
  /\ waiting = [c \in Clients |-> FALSE]
  /\ clientEnd = [e \in Ends |-> "none"]
  /\ serverEnd = [e \in Ends |-> "none"]
  /\ host = [e \in Ends |-> NoOne]
  /\ clientsById = [d \in Daemons |-> [c \in Clients |-> NoOne]]
  /\ bySession = [d \in Daemons |-> [s \in Sessions |-> NoOne]]
  /\ known = [d \in Daemons |-> [c \in Clients |-> FALSE]]
  /\ running = [d \in Daemons |-> "off"]
  /\ path = NoOne
  /\ faults = 0

-----------------------------------------------------------------------------
(* The client.                                                              *)

Usable(c) == socket[c] # NoOne /\ clientEnd[<<c, socket[c]>>] \in {"open", "acked"}

InHello(c) == connecting[c] \in {"hello", "second hello"}

\* ensureConnected without a usable socket joins the connect in hand or starts one.
EnsureConnected(c) ==
  connecting' = IF ~Usable(c) /\ connecting[c] = "no" THEN [connecting EXCEPT ![c] = "opening"] ELSE connecting

\* A call needs a connection.
CallRpc(c) ==
  /\ alive[c] /\ ~Usable(c) /\ connecting[c] = "no"
  /\ EnsureConnected(c)
  /\ UNCHANGED <<alive, socket, beating, waiting, connectionVars, clientsById, registryVars, daemonVars, faults>>

\* The socket is connected to the daemon that the path leads to, becomes the client's,
\* and says hello.
OpenSocket(c) ==
  /\ connecting[c] \in {"opening", "launched"} /\ path # NoOne
  /\ \E k \in Sockets :
       /\ clientEnd[<<c, k>>] = "none" /\ serverEnd[<<c, k>>] = "none"
       /\ clientEnd' = [clientEnd EXCEPT ![<<c, k>>] = "open"]
       /\ serverEnd' = [serverEnd EXCEPT ![<<c, k>>] = "accepted"]
       /\ host' = [host EXCEPT ![<<c, k>>] = path]
       /\ socket' = [socket EXCEPT ![c] = k]
  /\ connecting' = [connecting EXCEPT ![c] = IF @ = "opening" THEN "hello" ELSE "second hello"]
  /\ UNCHANGED <<alive, beating, waiting, clientsById, registryVars, daemonVars, faults>>

\* The first attempt has failed, for want of a daemon or because its hello has been
\* rejected: the client launches a daemon, whatever is running, and tries once more.
\* The launch may come to nothing (as it does beyond the bound).
Launch(c) ==
  /\ connecting[c] = "failed" \/ (connecting[c] = "opening" /\ path = NoOne)
  /\ connecting' = [connecting EXCEPT ![c] = "launched"]
  /\ \/ \E d \in Daemons : running[d] = "off" /\ running' = [running EXCEPT ![d] = "starting"]
     \/ UNCHANGED running
  /\ UNCHANGED <<alive, socket, beating, waiting, connectionVars, clientsById, registryVars, path, faults>>

\* The second attempt, 300 ms after the launch, comes before any daemon listens:
\* nothing is tried again before the next call.
GiveUp(c) ==
  /\ connecting[c] = "launched" /\ path = NoOne
  /\ connecting' = [connecting EXCEPT ![c] = "no"]
  /\ UNCHANGED <<alive, socket, beating, waiting, connectionVars, clientsById, registryVars, daemonVars, faults>>

Greeted(c, k) == serverEnd[<<c, k>>] \in {"greeted", "stale"}

\* A hello_ack, on whatever socket, ends the hello in hand.
HelloAck(c, k) ==
  /\ Greeted(c, k) /\ clientEnd[<<c, k>>] = "open"
  /\ clientEnd' = [clientEnd EXCEPT ![<<c, k>>] = "acked"]
  /\ connecting' = IF InHello(c) THEN [connecting EXCEPT ![c] = "no"] ELSE connecting
  /\ beating' = [beating EXCEPT ![c] = @ \/ InHello(c)]
  /\ UNCHANGED <<alive, socket, waiting, serverEnd, host, clientsById, registryVars, daemonVars, faults>>

\* handleDisconnect, for the 'close' of any of the client's sockets: it forgets the
\* one it has, rejects the hello in hand, and will reconnect.
ClientClose(c, k) ==
  /\ clientEnd[<<c, k>>] = "dropped"
  /\ clientEnd' = [clientEnd EXCEPT ![<<c, k>>] = "none"]
  /\ socket' = [socket EXCEPT ![c] = NoOne]
  /\ beating' = [beating EXCEPT ![c] = FALSE]
  /\ connecting' = [connecting EXCEPT ![c] = CASE @ = "hello" -> "failed" [] @ = "second hello" -> "no" [] OTHER -> @]
  /\ waiting' = [waiting EXCEPT ![c] = TRUE]
  /\ UNCHANGED <<alive, serverEnd, host, clientsById, registryVars, daemonVars, faults>>

Reconnect(c) ==
  /\ waiting[c]
  /\ waiting' = [waiting EXCEPT ![c] = FALSE]
  /\ EnsureConnected(c)
  /\ UNCHANGED <<alive, socket, beating, connectionVars, clientsById, registryVars, daemonVars, faults>>

\* The client's process ends, and with it all its sockets.
Leave(c) ==
  /\ alive[c]
  /\ alive' = [alive EXCEPT ![c] = FALSE]
  /\ connecting' = [connecting EXCEPT ![c] = "no"]
  /\ socket' = [socket EXCEPT ![c] = NoOne]
  /\ beating' = [beating EXCEPT ![c] = FALSE]
  /\ waiting' = [waiting EXCEPT ![c] = FALSE]
  /\ clientEnd' = [e \in Ends |-> IF e[1] = c THEN "none" ELSE clientEnd[e]]
  /\ serverEnd' = [e \in Ends |-> IF e[1] = c /\ serverEnd[e] # "none" THEN "closing" ELSE serverEnd[e]]
  /\ UNCHANGED <<host, clientsById, registryVars, daemonVars, faults>>

-----------------------------------------------------------------------------
(* The registry of the reminder service, one in each daemon.                 *)

Register(d, c) ==
  /\ bySession' = [bySession EXCEPT ![d][SessionOf[c]] = c]
  /\ known' = [known EXCEPT ![d][c] = TRUE]

\* The session's entry goes, whichever client's it is.
UnregisterClient(d, c) ==
  /\ bySession' = IF known[d][c] THEN [bySession EXCEPT ![d][SessionOf[c]] = NoOne] ELSE bySession
  /\ known' = [known EXCEPT ![d][c] = FALSE]

-----------------------------------------------------------------------------
(* The host.                                                                *)

\* handleHello: the client's latest connection takes the place of any earlier one
\* that this daemon has.
HandleHello(c, k) ==
  /\ serverEnd[<<c, k>>] = "accepted"
  /\ serverEnd' = [serverEnd EXCEPT ![<<c, k>>] = "greeted"]
  /\ clientsById' = [clientsById EXCEPT ![host[<<c, k>>]][c] = k]
  /\ Register(host[<<c, k>>], c)
  /\ UNCHANGED <<clientVars, clientEnd, host, daemonVars, faults>>

\* handleHeartbeat: the latest connection of the client at the daemon has a heartbeat,
\* and the registry forgets a client whose session has lost its entry.
Heartbeat(c) ==
  /\ beating[c] /\ Usable(c) /\ Greeted(c, socket[c])
  /\ LET d == host[<<c, socket[c]>>] IN
     /\ clientsById[d][c] # NoOne
     /\ serverEnd' = [serverEnd EXCEPT ![<<c, clientsById[d][c]>>] = IF @ = "stale" THEN "greeted" ELSE @]
     /\ known' = [known EXCEPT ![d][c] = @ /\ bySession[d][SessionOf[c]] # NoOne]
  /\ UNCHANGED <<clientVars, clientEnd, host, clientsById, bySession, daemonVars, faults>>

\* Variant of Disconnected: only the latest connection unregisters its client.
DisconnectedLatest(c, k) ==
  IF clientsById[host[<<c, k>>]][c] = k THEN UnregisterClient(host[<<c, k>>], c) ELSE UNCHANGED registryVars

\* What the end of a connection means for the registry.
Disconnected(c, k) == UnregisterClient(host[<<c, k>>], c)

\* handleDisconnect: the client is forgotten, whichever its latest connection is.
HandleDisconnect(c, k) ==
  /\ serverEnd[<<c, k>>] = "closing"
  /\ serverEnd' = [serverEnd EXCEPT ![<<c, k>>] = "none"]
  /\ host' = [host EXCEPT ![<<c, k>>] = NoOne]
  /\ clientsById' = [clientsById EXCEPT ![host[<<c, k>>]][c] = NoOne]
  /\ Disconnected(c, k)
  /\ UNCHANGED <<clientVars, clientEnd, daemonVars, faults>>

\* The client's heartbeats go to this daemon.
BeatsAt(c, d) == beating[c] /\ Usable(c) /\ host[<<c, socket[c]>>] = d

\* The heartbeats of its client do not reach this connection, or there are none.
Starving(c, k) == ~(BeatsAt(c, host[<<c, k>>]) /\ clientsById[host[<<c, k>>]][c] = k)

\* 30 seconds without a heartbeat; when the connection is not starving, this takes a
\* client or a daemon that was suspended.
GoStale(c, k) ==
  /\ serverEnd[<<c, k>>] = "greeted"
  /\ Starving(c, k) \/ faults < MaxFaults
  /\ faults' = IF Starving(c, k) THEN faults ELSE faults + 1
  /\ serverEnd' = [serverEnd EXCEPT ![<<c, k>>] = "stale"]
  /\ UNCHANGED <<clientVars, clientEnd, host, clientsById, registryVars, daemonVars>>

\* Variant of Expires: only the latest connections of clients are looked at.
ExpiresLatest(c, k) == serverEnd[<<c, k>>] = "stale" /\ clientsById[host[<<c, k>>]][c] = k

\* expireStaleConnections looks at every connection that has said hello.
Expires(c, k) == serverEnd[<<c, k>>] = "stale"

\* It destroys the stale one.
Expire(c, k) ==
  /\ Expires(c, k)
  /\ serverEnd' = [serverEnd EXCEPT ![<<c, k>>] = "closing"]
  /\ clientEnd' = [clientEnd EXCEPT ![<<c, k>>] = IF @ = "none" THEN "none" ELSE "dropped"]
  /\ UNCHANGED <<clientVars, host, clientsById, registryVars, daemonVars, faults>>

\* A reminder of a session finds the registered client's connection destroyed.
DeliverOffline(d, s) ==
  LET c == bySession[d][s] IN
  /\ c # NoOne
  /\ clientsById[d][c] = NoOne \/ serverEnd[<<c, clientsById[d][c]>>] = "closing"
  /\ UnregisterClient(d, c)
  /\ UNCHANGED <<clientVars, connectionVars, clientsById, daemonVars, faults>>

-----------------------------------------------------------------------------
(* The daemon's process.                                                    *)

\* Somebody runs "daemon serve", which does not ask for a running daemon either.
Serve(d) ==
  /\ running[d] = "off"
  /\ running' = [running EXCEPT ![d] = "starting"]
  /\ UNCHANGED <<clientVars, connectionVars, clientsById, registryVars, path, faults>>

\* start removes the socket file, whoever listens on it, and listens itself.
StartDaemon(d) ==
  /\ running[d] = "starting"
  /\ running' = [running EXCEPT ![d] = "up"]
  /\ path' = d
  /\ UNCHANGED <<clientVars, connectionVars, clientsById, registryVars, faults>>

\* stop removes the socket file too, whoever listens on it by now; when the process
\* is killed, nobody listens on its own.
Stop(d) ==
  /\ running[d] = "up" /\ faults < MaxFaults
  /\ running' = [running EXCEPT ![d] = "off"]
  /\ path' \in {NoOne, IF path = d THEN NoOne ELSE path}
  /\ serverEnd' = [e \in Ends |-> IF host[e] = d THEN "none" ELSE serverEnd[e]]
  /\ clientEnd' = [e \in Ends |-> IF host[e] = d /\ clientEnd[e] # "none" THEN "dropped" ELSE clientEnd[e]]
  /\ host' = [e \in Ends |-> IF host[e] = d THEN NoOne ELSE host[e]]
  /\ clientsById' = [clientsById EXCEPT ![d] = [c \in Clients |-> NoOne]]
  /\ bySession' = [bySession EXCEPT ![d] = [s \in Sessions |-> NoOne]]
  /\ known' = [known EXCEPT ![d] = [c \in Clients |-> FALSE]]
  /\ faults' = faults + 1
  /\ UNCHANGED clientVars

-----------------------------------------------------------------------------
Client(c) ==
  \/ OpenSocket(c) \/ Launch(c) \/ Reconnect(c)
  \/ \E k \in Sockets : HelloAck(c, k) \/ ClientClose(c, k)

Next ==
  \/ \E c \in Clients : Client(c) \/ CallRpc(c) \/ GiveUp(c) \/ Leave(c) \/ Heartbeat(c)
  \/ \E c \in Clients, k \in Sockets : HandleHello(c, k) \/ HandleDisconnect(c, k) \/ GoStale(c, k) \/ Expire(c, k)
  \/ \E d \in Daemons : Serve(d) \/ StartDaemon(d) \/ Stop(d)
  \/ \E d \in Daemons, s \in Sessions : DeliverOffline(d, s)

Spec == Init /\ [][Next]_vars

\* Both ends see what happens to a socket, timers fire, and a connection that
\* starves expires.  No call and no fault has to happen, and no daemon has to start.
Fairness ==
  /\ \A c \in Clients : WF_vars(OpenSocket(c)) /\ WF_vars(Launch(c)) /\ WF_vars(GiveUp(c)) /\ WF_vars(Reconnect(c))
  /\ \A c \in Clients, k \in Sockets :
       /\ WF_vars(HelloAck(c, k)) /\ WF_vars(ClientClose(c, k))
       /\ WF_vars(HandleHello(c, k)) /\ WF_vars(HandleDisconnect(c, k))
       /\ WF_vars(Starving(c, k) /\ GoStale(c, k)) /\ WF_vars(Expire(c, k))

FairSpec == Spec /\ Fairness

-----------------------------------------------------------------------------
(* What a session may count on.                                             *)

\* A daemon has a session registered for a client only while it runs and has a
\* connection of that client to send its reminders on, which has said hello to this
\* daemon and whose end has not been handled yet, however the ends of the client's old
\* and new connections cross and whichever daemon each of them is with.
RegistryHonest ==
  /\ TypeOK
  /\ \A d \in Daemons, s \in Sessions : bySession[d][s] # NoOne =>
       LET c == bySession[d][s]
           k == clientsById[d][c]
       IN  /\ SessionOf[c] = s /\ known[d][c]
           /\ k # NoOne /\ host[<<c, k>>] = d /\ serverEnd[<<c, k>>] \in {"greeted", "stale", "closing"}
           /\ running[d] = "up"

\* A client that tries nothing, since its last attempt to connect has failed.
GivenUp(c) == ~Usable(c) /\ connecting[c] = "no" /\ ~waiting[c]

Alone(c) == \A other \in Clients : SessionOf[other] = SessionOf[c] => other = c

\* Some daemon has the client's session registered, and can send over the connection.
Reached(c) ==
  \E d \in Daemons : bySession[d][SessionOf[c]] = c /\ clientsById[d][c] # NoOne /\ Greeted(c, clientsById[d][c])

\* The only client of a session does not stay unknown to every daemon while it
\* believes to be connected or to be connecting: no order of closes, hellos, expiries,
\* stops and takeovers leaves a connection over which no reminder comes.  (It says
\* nothing of the other daemons that may run: they find the session offline.)
SessionReachable ==
  \A c \in Clients : Alone(c) => []<>(Reached(c) \/ GivenUp(c) \/ ~alive[c])
=============================================================================
