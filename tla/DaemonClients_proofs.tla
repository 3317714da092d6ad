----------------------- MODULE DaemonClients_proofs ------------------------
(***************************************************************************)
(* That the registry of each daemon names only clients it has a connection *)
(* of, and that a client which has a session of its own is never forgotten *)
(* by every daemon, for any number of clients, also of one session, of     *)
(* sockets, of daemons that take each other's socket path over, and of     *)
(* faults.                                                                 *)
(***************************************************************************)
EXTENDS DaemonClients, TLAPS

ClientEnds == {"none", "open", "acked", "dropped"}
ServerEnds == {"none", "accepted", "greeted", "stale", "closing"}
Stages == {"no", "opening", "hello", "failed", "launched", "second hello"}
Held == {"greeted", "stale", "closing"}

\* The steps of a client that leave its connections at the hosts alone.
Quiet(c) ==
  \/ CallRpc(c) \/ GiveUp(c) \/ Reconnect(c)
  \/ \E k \in Sockets : HelloAck(c, k) \/ ClientClose(c, k)

\* The steps that change what runs.
Begin == (\E c \in Clients : Launch(c)) \/ (\E d \in Daemons : Serve(d) \/ StartDaemon(d))

LEMMA NextCases ==
  ASSUME [Next]_vars
  PROVE  \/ UNCHANGED vars
         \/ \E c \in Clients : Quiet(c)
         \/ Begin
         \/ \E c \in Clients : OpenSocket(c)
         \/ \E c \in Clients : Leave(c)
         \/ \E c \in Clients : Heartbeat(c)
         \/ \E c \in Clients, k \in Sockets : HandleHello(c, k)
         \/ \E c \in Clients, k \in Sockets : HandleDisconnect(c, k)
         \/ \E c \in Clients, k \in Sockets : GoStale(c, k) \/ Expire(c, k)
         \/ \E d \in Daemons, s \in Sessions : DeliverOffline(d, s)
         \/ \E d \in Daemons : Stop(d)
<1>1. ASSUME NEW c \in Clients, Client(c) \/ CallRpc(c) \/ GiveUp(c)
      PROVE  Quiet(c) \/ Launch(c) \/ OpenSocket(c)
  BY <1>1 DEF Client, Quiet
<1>2. QED
  BY <1>1 DEF Next, Begin

-----------------------------------------------------------------------------
(* What the registries rest on.                                             *)

\* Connections belong to daemons that run, and so does the socket path.
Hosted ==
  /\ path # NoOne => running[path] = "up"
  /\ \A e \in Ends : serverEnd[e] # "none" => host[e] \in Daemons /\ running[host[e]] = "up"

\* The latest connection of a client is with the daemon, and has said hello.
LatestHosted(d, c) ==
  clientsById[d][c] # NoOne => host[<<c, clientsById[d][c]>>] = d /\ serverEnd[<<c, clientsById[d][c]>>] \in Held

\* What an entry of a registry rests on.
Backed(d, s) ==
  bySession[d][s] # NoOne =>
    /\ SessionOf[bySession[d][s]] = s /\ known[d][bySession[d][s]]
    /\ clientsById[d][bySession[d][s]] # NoOne

\* The inductive invariant of the registries.
Honest ==
  /\ TypeOK
  /\ Hosted
  /\ \A d \in Daemons, c \in Clients : LatestHosted(d, c)
  /\ \A d \in Daemons, s \in Sessions : Backed(d, s)

LEMMA RegisterEffect ==
  ASSUME TypeOK, NEW d \in Daemons, NEW c \in Clients, Register(d, c)
  PROVE  /\ bySession' \in [Daemons -> [Sessions -> Clients \cup {NoOne}]] /\ known' \in [Daemons -> [Clients -> BOOLEAN]]
         /\ bySession'[d][SessionOf[c]] = c /\ known'[d][c]
         /\ \A x \in Daemons, s \in Sessions : x # d \/ s # SessionOf[c] => bySession'[x][s] = bySession[x][s]
         /\ \A x \in Daemons, y \in Clients : x # d \/ y # c => known'[x][y] = known[x][y]
<1>1. SessionOf[c] \in Sessions
  BY SessionAssumption
<1>2. bySession' = [bySession EXCEPT ![d][SessionOf[c]] = c] /\ known' = [known EXCEPT ![d][c] = TRUE]
  BY DEF Register
<1>3. bySession \in [Daemons -> [Sessions -> Clients \cup {NoOne}]] /\ known \in [Daemons -> [Clients -> BOOLEAN]]
  BY DEF TypeOK
<1>4. /\ bySession' \in [Daemons -> [Sessions -> Clients \cup {NoOne}]]
      /\ bySession'[d][SessionOf[c]] = c
      /\ \A x \in Daemons, s \in Sessions : x # d \/ s # SessionOf[c] => bySession'[x][s] = bySession[x][s]
  BY <1>1, <1>2, <1>3
<1>5. /\ known' \in [Daemons -> [Clients -> BOOLEAN]]
      /\ known'[d][c]
      /\ \A x \in Daemons, y \in Clients : x # d \/ y # c => known'[x][y] = known[x][y]
  BY <1>2, <1>3
<1>6. QED
  BY <1>4, <1>5

LEMMA UnregisterEffect ==
  ASSUME TypeOK, NEW d \in Daemons, NEW c \in Clients, UnregisterClient(d, c)
  PROVE  /\ bySession' \in [Daemons -> [Sessions -> Clients \cup {NoOne}]] /\ known' \in [Daemons -> [Clients -> BOOLEAN]]
         /\ known[d][c] => bySession'[d][SessionOf[c]] = NoOne
         /\ ~known[d][c] => bySession' = bySession
         /\ \A x \in Daemons, s \in Sessions : x # d \/ s # SessionOf[c] => bySession'[x][s] = bySession[x][s]
         /\ \A x \in Daemons, y \in Clients : x # d \/ y # c => known'[x][y] = known[x][y]
<1>1. SessionOf[c] \in Sessions
  BY SessionAssumption
<1>2. known' = [known EXCEPT ![d][c] = FALSE]
  BY DEF UnregisterClient
<1>3. bySession \in [Daemons -> [Sessions -> Clients \cup {NoOne}]] /\ known \in [Daemons -> [Clients -> BOOLEAN]]
  BY DEF TypeOK
<1>4. CASE known[d][c]
  <2>1. bySession' = [bySession EXCEPT ![d][SessionOf[c]] = NoOne]
    BY <1>4 DEF UnregisterClient
  <2>2. /\ bySession' \in [Daemons -> [Sessions -> Clients \cup {NoOne}]]
        /\ bySession'[d][SessionOf[c]] = NoOne
        /\ \A x \in Daemons, s \in Sessions : x # d \/ s # SessionOf[c] => bySession'[x][s] = bySession[x][s]
    BY <2>1, <1>1, <1>3
  <2>3. QED
    BY <1>2, <1>3, <1>4, <2>2
<1>5. CASE ~known[d][c]
  <2>1. bySession' = bySession
    BY <1>5 DEF UnregisterClient
  <2>2. QED
    BY <1>2, <1>3, <1>5, <2>1
<1>6. QED
  BY <1>4, <1>5

-----------------------------------------------------------------------------
(* Types.                                                                   *)

LEMMA TypeInit == Init => TypeOK
<1> SUFFICES ASSUME Init PROVE TypeOK
  OBVIOUS
<1>1. /\ alive \in [Clients -> BOOLEAN] /\ beating \in [Clients -> BOOLEAN] /\ waiting \in [Clients -> BOOLEAN]
      /\ connecting \in [Clients -> Stages] /\ socket \in [Clients -> Sockets \cup {NoOne}] /\ faults \in Nat
  BY DEF Init, Stages
<1>2. /\ clientEnd \in [Ends -> ClientEnds] /\ serverEnd \in [Ends -> ServerEnds]
      /\ host \in [Ends -> Daemons \cup {NoOne}]
  BY DEF Init, ClientEnds, ServerEnds
<1>3. /\ clientsById \in [Daemons -> [Clients -> Sockets \cup {NoOne}]]
      /\ bySession \in [Daemons -> [Sessions -> Clients \cup {NoOne}]]
      /\ known \in [Daemons -> [Clients -> BOOLEAN]]
  BY DEF Init
<1>4. running \in [Daemons -> {"off", "starting", "up"}] /\ path \in Daemons \cup {NoOne}
  BY DEF Init
<1>5. QED
  BY <1>1, <1>2, <1>3, <1>4 DEF TypeOK, Stages, ClientEnds, ServerEnds

LEMMA QuietType ==
  ASSUME TypeOK, NEW c \in Clients, Quiet(c)
  PROVE  TypeOK' /\ UNCHANGED <<serverEnd, host, clientsById, bySession, known, running, path>>
<1> USE DEF registryVars, daemonVars, connectionVars
<1>1. CASE CallRpc(c) \/ Reconnect(c)
  <2>1. connecting' \in [Clients -> Stages] /\ waiting' \in [Clients -> BOOLEAN]
    BY <1>1 DEF TypeOK, CallRpc, Reconnect, EnsureConnected, Stages
  <2>2. QED
    BY <1>1, <2>1 DEF TypeOK, CallRpc, Reconnect, Stages
<1>2. CASE GiveUp(c)
  <2>1. connecting' \in [Clients -> Stages]
    BY <1>2 DEF TypeOK, GiveUp, Stages
  <2>2. QED
    BY <1>2, <2>1 DEF TypeOK, GiveUp, Stages
<1>3. ASSUME NEW k \in Sockets, HelloAck(c, k)
      PROVE  TypeOK' /\ UNCHANGED <<serverEnd, host, clientsById, bySession, known, running, path>>
  <2>1. clientEnd' \in [Ends -> ClientEnds]
    BY <1>3 DEF TypeOK, HelloAck, Ends, ClientEnds
  <2>2. connecting' \in [Clients -> Stages]
    BY <1>3 DEF TypeOK, HelloAck, Stages
  <2>3. beating' \in [Clients -> BOOLEAN]
    BY <1>3 DEF TypeOK, HelloAck, InHello
  <2>4. QED
    BY <1>3, <2>1, <2>2, <2>3 DEF TypeOK, HelloAck, Stages, ClientEnds
<1>4. ASSUME NEW k \in Sockets, ClientClose(c, k)
      PROVE  TypeOK' /\ UNCHANGED <<serverEnd, host, clientsById, bySession, known, running, path>>
  <2>1. clientEnd' \in [Ends -> ClientEnds]
    BY <1>4 DEF TypeOK, ClientClose, Ends, ClientEnds
  <2>2. connecting' \in [Clients -> Stages]
    BY <1>4 DEF TypeOK, ClientClose, Stages
  <2>3. beating' \in [Clients -> BOOLEAN] /\ waiting' \in [Clients -> BOOLEAN] /\ socket' \in [Clients -> Sockets \cup {NoOne}]
    BY <1>4 DEF TypeOK, ClientClose
  <2>4. QED
    BY <1>4, <2>1, <2>2, <2>3 DEF TypeOK, ClientClose, Stages, ClientEnds
<1>5. QED
  BY <1>1, <1>2, <1>3, <1>4 DEF Quiet

\* A step that starts something.
LEMMA BeginType ==
  ASSUME TypeOK, Begin
  PROVE  /\ TypeOK' /\ UNCHANGED <<connectionVars, clientsById, registryVars, alive, socket, beating, waiting>>
         /\ \A d \in Daemons : running[d] = "up" => running'[d] = "up"
         /\ path' # path => running'[path'] = "up"
<1>1. ASSUME NEW c \in Clients, Launch(c)
      PROVE  /\ TypeOK' /\ UNCHANGED <<connectionVars, clientsById, registryVars, alive, socket, beating, waiting, path>>
             /\ \A d \in Daemons : running[d] = "up" => running'[d] = "up"
  <2>1. connecting' \in [Clients -> Stages]
    BY <1>1 DEF TypeOK, Launch, Stages
  <2>2. running' \in [Daemons -> {"off", "starting", "up"}] /\ \A d \in Daemons : running[d] = "up" => running'[d] = "up"
    <3>1. CASE UNCHANGED running
      BY <3>1 DEF TypeOK
    <3>2. ASSUME NEW d \in Daemons, running[d] = "off", running' = [running EXCEPT ![d] = "starting"]
          PROVE  running' \in [Daemons -> {"off", "starting", "up"}] /\ \A x \in Daemons : running[x] = "up" => running'[x] = "up"
      BY <3>2 DEF TypeOK
    <3>3. QED
      BY <1>1, <3>1, <3>2 DEF Launch
  <2>3. QED
    BY <1>1, <2>1, <2>2 DEF TypeOK, Launch, Stages, connectionVars, registryVars
<1>2. ASSUME NEW d \in Daemons, Serve(d)
      PROVE  /\ TypeOK' /\ UNCHANGED <<connectionVars, clientsById, registryVars, alive, socket, beating, waiting, path>>
             /\ \A x \in Daemons : running[x] = "up" => running'[x] = "up"
  <2>1. running' \in [Daemons -> {"off", "starting", "up"}] /\ \A x \in Daemons : running[x] = "up" => running'[x] = "up"
    BY <1>2 DEF TypeOK, Serve
  <2>2. QED
    BY <1>2, <2>1 DEF TypeOK, Serve, clientVars, connectionVars, registryVars
<1>3. ASSUME NEW d \in Daemons, StartDaemon(d)
      PROVE  /\ TypeOK' /\ UNCHANGED <<connectionVars, clientsById, registryVars, alive, socket, beating, waiting>>
             /\ \A x \in Daemons : running[x] = "up" => running'[x] = "up"
             /\ running'[path'] = "up"
  <2>1. /\ running' \in [Daemons -> {"off", "starting", "up"}] /\ \A x \in Daemons : running[x] = "up" => running'[x] = "up"
        /\ path' = d /\ running'[d] = "up"
    BY <1>3 DEF TypeOK, StartDaemon
  <2>2. QED
    BY <1>3, <2>1 DEF TypeOK, StartDaemon, clientVars, connectionVars, registryVars
<1>4. QED
  BY <1>1, <1>2, <1>3 DEF Begin

LEMMA OpenType ==
  ASSUME TypeOK, NEW c \in Clients, OpenSocket(c)
  PROVE  /\ TypeOK' /\ UNCHANGED <<clientsById, bySession, known, running, path, alive, beating, waiting>>
         /\ path \in Daemons
         /\ connecting' = [connecting EXCEPT ![c] = IF @ = "opening" THEN "hello" ELSE "second hello"]
         /\ connecting[c] \in {"opening", "launched"}
         /\ \E k \in Sockets :
              /\ serverEnd[<<c, k>>] = "none" /\ clientEnd[<<c, k>>] = "none"
              /\ clientEnd' = [clientEnd EXCEPT ![<<c, k>>] = "open"]
              /\ serverEnd' = [serverEnd EXCEPT ![<<c, k>>] = "accepted"]
              /\ host' = [host EXCEPT ![<<c, k>>] = path]
              /\ socket' = [socket EXCEPT ![c] = k]
<1>1. PICK k \in Sockets : /\ serverEnd[<<c, k>>] = "none" /\ clientEnd[<<c, k>>] = "none"
                           /\ clientEnd' = [clientEnd EXCEPT ![<<c, k>>] = "open"]
                           /\ serverEnd' = [serverEnd EXCEPT ![<<c, k>>] = "accepted"]
                           /\ host' = [host EXCEPT ![<<c, k>>] = path]
                           /\ socket' = [socket EXCEPT ![c] = k]
  BY DEF OpenSocket
<1>2. /\ UNCHANGED <<clientsById, bySession, known, running, path, alive, beating, waiting, faults>>
      /\ path \in Daemons /\ connecting[c] \in {"opening", "launched"}
      /\ connecting' = [connecting EXCEPT ![c] = IF @ = "opening" THEN "hello" ELSE "second hello"]
  BY DEF OpenSocket, TypeOK, registryVars, daemonVars
<1>3. clientEnd' \in [Ends -> ClientEnds] /\ serverEnd' \in [Ends -> ServerEnds]
  BY <1>1 DEF TypeOK, Ends, ClientEnds, ServerEnds
<1>4. host' \in [Ends -> Daemons \cup {NoOne}] /\ socket' \in [Clients -> Sockets \cup {NoOne}]
  BY <1>1, <1>2 DEF TypeOK, Ends
<1>5. connecting' \in [Clients -> Stages]
  BY <1>2 DEF TypeOK, Stages
<1>6. TypeOK'
  BY <1>2, <1>3, <1>4, <1>5 DEF TypeOK, ClientEnds, ServerEnds, Stages
<1>7. QED
  BY <1>1, <1>2, <1>6

LEMMA LeaveType ==
  ASSUME TypeOK, NEW c \in Clients, Leave(c)
  PROVE  TypeOK' /\ UNCHANGED <<host, clientsById, bySession, known, running, path>>
<1>1. /\ alive' \in [Clients -> BOOLEAN] /\ beating' \in [Clients -> BOOLEAN] /\ waiting' \in [Clients -> BOOLEAN]
      /\ connecting' \in [Clients -> Stages] /\ socket' \in [Clients -> Sockets \cup {NoOne}]
  BY DEF Leave, TypeOK, Stages
<1>2. clientEnd' \in [Ends -> ClientEnds] /\ serverEnd' \in [Ends -> ServerEnds]
  BY DEF Leave, TypeOK, ClientEnds, ServerEnds
<1>3. UNCHANGED <<host, clientsById, bySession, known, running, path, faults>>
  BY DEF Leave, registryVars, daemonVars
<1>4. QED
  BY <1>1, <1>2, <1>3 DEF TypeOK, Stages, ClientEnds, ServerEnds

\* A heartbeat touches the client's latest connection at the daemon that it reaches.
LEMMA HeartbeatType ==
  ASSUME TypeOK, Hosted, NEW c \in Clients, Heartbeat(c)
  PROVE  /\ TypeOK' /\ UNCHANGED <<clientVars, clientEnd, host, clientsById, bySession, running, path>>
         /\ \E d \in Daemons :
              /\ clientsById[d][c] \in Sockets
              /\ serverEnd' = [serverEnd EXCEPT ![<<c, clientsById[d][c]>>] = IF @ = "stale" THEN "greeted" ELSE @]
              /\ known' = [known EXCEPT ![d][c] = @ /\ bySession[d][SessionOf[c]] # NoOne]
<1> DEFINE d == host[<<c, socket[c]>>]
<1>1. d \in Daemons
  <2>1. socket[c] \in Sockets /\ Greeted(c, socket[c])
    BY DEF Heartbeat, Usable, TypeOK
  <2>2. <<c, socket[c]>> \in Ends
    BY <2>1 DEF Ends
  <2>3. QED
    BY <2>1, <2>2 DEF Hosted, Greeted
<1>2. /\ clientsById[d][c] # NoOne
      /\ serverEnd' = [serverEnd EXCEPT ![<<c, clientsById[d][c]>>] = IF @ = "stale" THEN "greeted" ELSE @]
      /\ known' = [known EXCEPT ![d][c] = @ /\ bySession[d][SessionOf[c]] # NoOne]
  BY DEF Heartbeat
<1>3. UNCHANGED <<clientVars, clientEnd, host, clientsById, bySession, running, path, faults>>
  BY DEF Heartbeat, daemonVars
<1> HIDE DEF d
<1>4. clientsById[d][c] \in Sockets
  <2>1. clientsById[d][c] \in Sockets \cup {NoOne}
    BY <1>1 DEF TypeOK
  <2>2. QED
    BY <1>2, <2>1
<1>5. serverEnd' \in [Ends -> ServerEnds]
  BY <1>2, <1>4 DEF TypeOK, Ends, ServerEnds
<1>6. known' \in [Daemons -> [Clients -> BOOLEAN]]
  BY <1>1, <1>2 DEF TypeOK
<1>7. TypeOK'
  BY <1>3, <1>5, <1>6 DEF TypeOK, clientVars, ServerEnds
<1>8. QED
  BY <1>1, <1>2, <1>3, <1>4, <1>7

LEMMA HelloType ==
  ASSUME TypeOK, Hosted, NEW c \in Clients, NEW k \in Sockets, HandleHello(c, k)
  PROVE  /\ TypeOK' /\ UNCHANGED <<clientVars, clientEnd, host, running, path>>
         /\ host[<<c, k>>] \in Daemons /\ Register(host[<<c, k>>], c)
         /\ serverEnd' = [serverEnd EXCEPT ![<<c, k>>] = "greeted"]
         /\ clientsById'[host[<<c, k>>]][c] = k
         /\ \A x \in Daemons, y \in Clients : x # host[<<c, k>>] \/ y # c => clientsById'[x][y] = clientsById[x][y]
<1> DEFINE d == host[<<c, k>>]
<1>1. d \in Daemons
  BY DEF HandleHello, Hosted, Ends
<1>2. /\ Register(d, c) /\ serverEnd' = [serverEnd EXCEPT ![<<c, k>>] = "greeted"]
      /\ clientsById' = [clientsById EXCEPT ![d][c] = k]
      /\ UNCHANGED <<clientVars, clientEnd, host, running, path, faults>>
  BY DEF HandleHello, daemonVars
<1>3. d = host[<<c, k>>]
  OBVIOUS
<1> HIDE DEF d
<1>4. serverEnd' \in [Ends -> ServerEnds]
  BY <1>2 DEF TypeOK, ServerEnds
<1>5. /\ clientsById' \in [Daemons -> [Clients -> Sockets \cup {NoOne}]] /\ clientsById'[d][c] = k
      /\ \A x \in Daemons, y \in Clients : x # d \/ y # c => clientsById'[x][y] = clientsById[x][y]
  BY <1>1, <1>2 DEF TypeOK
<1>6. bySession' \in [Daemons -> [Sessions -> Clients \cup {NoOne}]] /\ known' \in [Daemons -> [Clients -> BOOLEAN]]
  BY <1>1, <1>2, RegisterEffect
<1>7. TypeOK'
  BY <1>2, <1>4, <1>5, <1>6 DEF TypeOK, clientVars, ServerEnds
<1>8. QED
  BY <1>1, <1>2, <1>3, <1>5, <1>7

LEMMA DisconnectType ==
  ASSUME TypeOK, Hosted, NEW c \in Clients, NEW k \in Sockets, HandleDisconnect(c, k)
  PROVE  /\ TypeOK' /\ UNCHANGED <<clientVars, clientEnd, running, path>>
         /\ host[<<c, k>>] \in Daemons /\ UnregisterClient(host[<<c, k>>], c)
         /\ serverEnd[<<c, k>>] = "closing"
         /\ serverEnd' = [serverEnd EXCEPT ![<<c, k>>] = "none"]
         /\ host' = [host EXCEPT ![<<c, k>>] = NoOne]
         /\ clientsById'[host[<<c, k>>]][c] = NoOne
         /\ \A x \in Daemons, y \in Clients : x # host[<<c, k>>] \/ y # c => clientsById'[x][y] = clientsById[x][y]
<1> DEFINE d == host[<<c, k>>]
<1>1. d \in Daemons
  BY DEF HandleDisconnect, Hosted, Ends
<1>2. /\ UnregisterClient(d, c) /\ serverEnd' = [serverEnd EXCEPT ![<<c, k>>] = "none"]
      /\ host' = [host EXCEPT ![<<c, k>>] = NoOne] /\ serverEnd[<<c, k>>] = "closing"
      /\ clientsById' = [clientsById EXCEPT ![d][c] = NoOne]
      /\ UNCHANGED <<clientVars, clientEnd, running, path, faults>>
  BY DEF HandleDisconnect, Disconnected, daemonVars
<1>3. d = host[<<c, k>>]
  OBVIOUS
<1> HIDE DEF d
<1>4. serverEnd' \in [Ends -> ServerEnds] /\ host' \in [Ends -> Daemons \cup {NoOne}]
  BY <1>2 DEF TypeOK, ServerEnds
<1>5. /\ clientsById' \in [Daemons -> [Clients -> Sockets \cup {NoOne}]] /\ clientsById'[d][c] = NoOne
      /\ \A x \in Daemons, y \in Clients : x # d \/ y # c => clientsById'[x][y] = clientsById[x][y]
  BY <1>1, <1>2 DEF TypeOK
<1>6. bySession' \in [Daemons -> [Sessions -> Clients \cup {NoOne}]] /\ known' \in [Daemons -> [Clients -> BOOLEAN]]
  BY <1>1, <1>2, UnregisterEffect
<1>7. TypeOK'
  BY <1>2, <1>4, <1>5, <1>6 DEF TypeOK, clientVars, ServerEnds
<1>8. QED
  BY <1>1, <1>2, <1>3, <1>5, <1>7

LEMMA ExpiryType ==
  ASSUME TypeOK, NEW c \in Clients, NEW k \in Sockets, GoStale(c, k) \/ Expire(c, k)
  PROVE  /\ TypeOK' /\ UNCHANGED <<clientVars, host, clientsById, bySession, known, running, path>>
         /\ \/ /\ serverEnd[<<c, k>>] = "greeted" /\ serverEnd' = [serverEnd EXCEPT ![<<c, k>>] = "stale"]
               /\ UNCHANGED clientEnd
            \/ /\ serverEnd[<<c, k>>] = "stale" /\ serverEnd' = [serverEnd EXCEPT ![<<c, k>>] = "closing"]
               /\ clientEnd' = [clientEnd EXCEPT ![<<c, k>>] = IF @ = "none" THEN "none" ELSE "dropped"]
<1>1. /\ UNCHANGED <<clientVars, host, clientsById, bySession, known, running, path>>
      /\ \/ /\ serverEnd[<<c, k>>] = "greeted" /\ serverEnd' = [serverEnd EXCEPT ![<<c, k>>] = "stale"]
            /\ UNCHANGED clientEnd
         \/ /\ serverEnd[<<c, k>>] = "stale" /\ serverEnd' = [serverEnd EXCEPT ![<<c, k>>] = "closing"]
            /\ clientEnd' = [clientEnd EXCEPT ![<<c, k>>] = IF @ = "none" THEN "none" ELSE "dropped"]
  BY DEF GoStale, Expire, Expires, registryVars, daemonVars
<1>2. faults' \in Nat
  <2>1. faults \in Nat /\ (faults' = faults \/ faults' = faults + 1)
    BY DEF GoStale, Expire, TypeOK
  <2>2. QED
    BY <2>1
<1>3. CASE serverEnd' = [serverEnd EXCEPT ![<<c, k>>] = "stale"] /\ UNCHANGED clientEnd
  <2>1. serverEnd' \in [Ends -> ServerEnds] /\ clientEnd' \in [Ends -> ClientEnds]
    BY <1>3 DEF TypeOK, ServerEnds, ClientEnds
  <2>2. TypeOK'
    BY <1>1, <1>2, <2>1 DEF TypeOK, clientVars, ServerEnds, ClientEnds
  <2>3. QED
    BY <1>1, <2>2
<1>4. CASE /\ serverEnd' = [serverEnd EXCEPT ![<<c, k>>] = "closing"]
           /\ clientEnd' = [clientEnd EXCEPT ![<<c, k>>] = IF @ = "none" THEN "none" ELSE "dropped"]
  <2>1. serverEnd' \in [Ends -> ServerEnds] /\ clientEnd' \in [Ends -> ClientEnds]
    BY <1>4 DEF TypeOK, ServerEnds, ClientEnds, Ends
  <2>2. TypeOK'
    BY <1>1, <1>2, <2>1 DEF TypeOK, clientVars, ServerEnds, ClientEnds
  <2>3. QED
    BY <1>1, <2>2
<1>5. QED
  BY <1>1, <1>3, <1>4

LEMMA OfflineType ==
  ASSUME TypeOK, NEW d \in Daemons, NEW s \in Sessions, DeliverOffline(d, s)
  PROVE  /\ TypeOK' /\ UNCHANGED <<clientVars, clientEnd, serverEnd, host, clientsById, running, path>>
         /\ bySession[d][s] \in Clients /\ UnregisterClient(d, bySession[d][s])
         /\ LET c == bySession[d][s] IN
            clientsById[d][c] = NoOne \/ serverEnd[<<c, clientsById[d][c]>>] = "closing"
<1>1. /\ UNCHANGED <<clientVars, clientEnd, serverEnd, host, clientsById, running, path, faults>>
      /\ UnregisterClient(d, bySession[d][s])
      /\ LET c == bySession[d][s] IN
         clientsById[d][c] = NoOne \/ serverEnd[<<c, clientsById[d][c]>>] = "closing"
  BY DEF DeliverOffline, connectionVars, daemonVars
<1>2. bySession[d][s] \in Clients
  <2>1. bySession[d][s] \in Clients \cup {NoOne}
    <3>1. bySession \in [Daemons -> [Sessions -> Clients \cup {NoOne}]]
      BY DEF TypeOK
    <3>2. QED
      BY <3>1
  <2>2. bySession[d][s] # NoOne
    BY DEF DeliverOffline
  <2>3. QED
    BY <2>1, <2>2
<1>3. bySession' \in [Daemons -> [Sessions -> Clients \cup {NoOne}]] /\ known' \in [Daemons -> [Clients -> BOOLEAN]]
  BY <1>1, <1>2, UnregisterEffect
<1>4. TypeOK'
  BY <1>1, <1>3 DEF TypeOK, clientVars
<1>5. QED
  BY <1>1, <1>2, <1>4

LEMMA StopType ==
  ASSUME TypeOK, NEW d \in Daemons, Stop(d)
  PROVE  /\ TypeOK' /\ UNCHANGED clientVars
         /\ running' = [running EXCEPT ![d] = "off"] /\ path' \in {NoOne, path} /\ path' # d
         /\ \A e \in Ends : IF host[e] = d
                            THEN serverEnd'[e] = "none" /\ clientEnd'[e] \in {"none", "dropped"}
                            ELSE serverEnd'[e] = serverEnd[e] /\ clientEnd'[e] = clientEnd[e] /\ host'[e] = host[e]
         /\ \A c \in Clients : clientsById'[d][c] = NoOne
         /\ \A s \in Sessions : bySession'[d][s] = NoOne
         /\ \A x \in Daemons : x # d => clientsById'[x] = clientsById[x] /\ bySession'[x] = bySession[x] /\ known'[x] = known[x]
<1>1. UNCHANGED clientVars /\ faults \in Nat /\ faults' = faults + 1
  BY DEF Stop, TypeOK
<1>2. faults' \in Nat
  BY <1>1
<1>3. /\ running' = [running EXCEPT ![d] = "off"] /\ path' \in {NoOne, path} /\ path' # d
      /\ running' \in [Daemons -> {"off", "starting", "up"}] /\ path' \in Daemons \cup {NoOne}
  <2>1. running' = [running EXCEPT ![d] = "off"] /\ running' \in [Daemons -> {"off", "starting", "up"}]
    BY DEF Stop, TypeOK
  <2>2. path' = NoOne \/ (path' = path /\ path # d)
    BY DEF Stop
  <2>3. path \in Daemons \cup {NoOne} /\ d # NoOne
    BY NoOneAssumption DEF TypeOK
  <2>4. QED
    BY <2>1, <2>2, <2>3
<1>4. /\ serverEnd' = [e \in Ends |-> IF host[e] = d THEN "none" ELSE serverEnd[e]]
      /\ clientEnd' = [e \in Ends |-> IF host[e] = d /\ clientEnd[e] # "none" THEN "dropped" ELSE clientEnd[e]]
      /\ host' = [e \in Ends |-> IF host[e] = d THEN NoOne ELSE host[e]]
  BY DEF Stop
<1>5. serverEnd' \in [Ends -> ServerEnds] /\ clientEnd' \in [Ends -> ClientEnds] /\ host' \in [Ends -> Daemons \cup {NoOne}]
  BY <1>4 DEF TypeOK, ServerEnds, ClientEnds
<1>6. \A e \in Ends : IF host[e] = d
                      THEN serverEnd'[e] = "none" /\ clientEnd'[e] \in {"none", "dropped"}
                      ELSE serverEnd'[e] = serverEnd[e] /\ clientEnd'[e] = clientEnd[e] /\ host'[e] = host[e]
  BY <1>4
<1>7. /\ clientsById' = [clientsById EXCEPT ![d] = [c \in Clients |-> NoOne]]
      /\ bySession' = [bySession EXCEPT ![d] = [s \in Sessions |-> NoOne]]
      /\ known' = [known EXCEPT ![d] = [c \in Clients |-> FALSE]]
  BY DEF Stop
<1>8. /\ clientsById' \in [Daemons -> [Clients -> Sockets \cup {NoOne}]]
      /\ \A c \in Clients : clientsById'[d][c] = NoOne
      /\ \A x \in Daemons : x # d => clientsById'[x] = clientsById[x]
  BY <1>7 DEF TypeOK
<1>9. /\ bySession' \in [Daemons -> [Sessions -> Clients \cup {NoOne}]]
      /\ \A s \in Sessions : bySession'[d][s] = NoOne
      /\ \A x \in Daemons : x # d => bySession'[x] = bySession[x]
  BY <1>7 DEF TypeOK
<1>10. /\ known' \in [Daemons -> [Clients -> BOOLEAN]]
       /\ \A x \in Daemons : x # d => known'[x] = known[x]
  BY <1>7 DEF TypeOK
<1>11. TypeOK'
  BY <1>1, <1>2, <1>3, <1>5, <1>8, <1>9, <1>10 DEF TypeOK, clientVars, ServerEnds, ClientEnds
<1>12. QED
  BY <1>1, <1>3, <1>6, <1>8, <1>9, <1>10, <1>11

LEMMA TypeStep ==
  ASSUME TypeOK, Hosted, [Next]_vars
  PROVE  TypeOK'
<1>1. CASE UNCHANGED vars
  BY <1>1 DEF TypeOK, vars, clientVars, connectionVars, registryVars, daemonVars
<1>2. QED
  BY <1>1, NextCases, QuietType, BeginType, OpenType, LeaveType, HeartbeatType, HelloType, DisconnectType,
     ExpiryType, OfflineType, StopType

-----------------------------------------------------------------------------
(* The registries.                                                          *)

\* Daemons go on running, and no connection changes hands or comes up.
LEMMA HostedKept ==
  ASSUME TypeOK, Hosted, UNCHANGED <<host, running, path>>,
         \A e \in Ends : serverEnd'[e] # "none" => serverEnd[e] # "none"
  PROVE  Hosted'
BY DEF Hosted

LEMMA HostedStep ==
  ASSUME TypeOK, Hosted, [Next]_vars
  PROVE  Hosted'
<1>1. CASE UNCHANGED vars
  BY <1>1 DEF vars, connectionVars, daemonVars, Hosted
<1>2. ASSUME NEW c \in Clients, Quiet(c) PROVE Hosted'
  BY <1>2, QuietType, HostedKept
<1>3. CASE Begin
  <2>1. /\ UNCHANGED <<serverEnd, host>> /\ path \in Daemons \cup {NoOne}
        /\ \A d \in Daemons : running[d] = "up" => running'[d] = "up"
        /\ path' # path => running'[path'] = "up"
    BY <1>3, BeginType DEF connectionVars, TypeOK
  <2>2. QED
    BY <2>1 DEF Hosted
<1>4. ASSUME NEW c \in Clients, OpenSocket(c) PROVE Hosted'
  <2>1. PICK k \in Sockets : /\ serverEnd' = [serverEnd EXCEPT ![<<c, k>>] = "accepted"]
                             /\ host' = [host EXCEPT ![<<c, k>>] = path]
    BY <1>4, OpenType
  <2>2. path \in Daemons /\ UNCHANGED <<running, path>> /\ path # NoOne
    BY <1>4, OpenType, NoOneAssumption
  <2>3. running[path] = "up"
    BY <2>2 DEF Hosted
  <2>4. QED
    BY <2>1, <2>2, <2>3 DEF Hosted, TypeOK
<1>5. ASSUME NEW c \in Clients, Leave(c) PROVE Hosted'
  <2>1. UNCHANGED <<host, running, path>>
    BY <1>5, LeaveType
  <2>2. \A e \in Ends : serverEnd'[e] # "none" => serverEnd[e] # "none"
    BY <1>5 DEF Leave
  <2>3. QED
    BY <2>1, <2>2, HostedKept
<1>6. ASSUME NEW c \in Clients, Heartbeat(c) PROVE Hosted'
  <2>1. PICK d \in Daemons : serverEnd' = [serverEnd EXCEPT ![<<c, clientsById[d][c]>>] = IF @ = "stale" THEN "greeted" ELSE @]
    BY <1>6, HeartbeatType
  <2>2. \A e \in Ends : serverEnd'[e] # "none" => serverEnd[e] # "none"
    BY <2>1 DEF TypeOK
  <2>3. QED
    BY <1>6, <2>2, HeartbeatType, HostedKept
<1>7. ASSUME NEW c \in Clients, NEW k \in Sockets, HandleHello(c, k) PROVE Hosted'
  <2>1. serverEnd' = [serverEnd EXCEPT ![<<c, k>>] = "greeted"] /\ serverEnd[<<c, k>>] = "accepted"
    BY <1>7 DEF HandleHello
  <2>2. \A e \in Ends : serverEnd'[e] # "none" => serverEnd[e] # "none"
    BY <2>1 DEF TypeOK
  <2>3. QED
    BY <1>7, <2>2, HelloType, HostedKept
<1>8. ASSUME NEW c \in Clients, NEW k \in Sockets, HandleDisconnect(c, k) PROVE Hosted'
  <2>1. /\ serverEnd' = [serverEnd EXCEPT ![<<c, k>>] = "none"] /\ host' = [host EXCEPT ![<<c, k>>] = NoOne]
        /\ UNCHANGED <<running, path>>
    BY <1>8, DisconnectType
  <2>2. QED
    BY <2>1 DEF Hosted, TypeOK
<1>9. ASSUME NEW c \in Clients, NEW k \in Sockets, GoStale(c, k) \/ Expire(c, k) PROVE Hosted'
  <2>1. /\ UNCHANGED <<host, running, path>> /\ serverEnd[<<c, k>>] \in {"greeted", "stale"}
        /\ serverEnd' = [serverEnd EXCEPT ![<<c, k>>] = "stale"] \/ serverEnd' = [serverEnd EXCEPT ![<<c, k>>] = "closing"]
    BY <1>9, ExpiryType
  <2>2. \A e \in Ends : serverEnd'[e] # "none" => serverEnd[e] # "none"
    BY <2>1 DEF TypeOK
  <2>3. QED
    BY <2>1, <2>2, HostedKept
<1>10. ASSUME NEW d \in Daemons, NEW s \in Sessions, DeliverOffline(d, s) PROVE Hosted'
  BY <1>10, OfflineType, HostedKept
<1>11. ASSUME NEW d \in Daemons, Stop(d) PROVE Hosted'
  <2>1. /\ running' = [running EXCEPT ![d] = "off"] /\ path' \in {NoOne, path} /\ path' # d
        /\ \A e \in Ends : IF host[e] = d THEN serverEnd'[e] = "none"
                                          ELSE serverEnd'[e] = serverEnd[e] /\ host'[e] = host[e]
    BY <1>11, StopType
  <2>2. running \in [Daemons -> {"off", "starting", "up"}] /\ path \in Daemons \cup {NoOne}
    BY DEF TypeOK
  <2>3. path' # NoOne => running'[path'] = "up"
    BY <2>1, <2>2 DEF Hosted
  <2>4. ASSUME NEW e \in Ends, serverEnd'[e] # "none" PROVE host'[e] \in Daemons /\ running'[host'[e]] = "up"
    <3>1. host[e] # d /\ host'[e] = host[e] /\ serverEnd[e] # "none"
      BY <2>1, <2>4
    <3>2. host[e] \in Daemons /\ running[host[e]] = "up"
      BY <3>1 DEF Hosted
    <3>3. QED
      BY <2>1, <2>2, <3>1, <3>2
  <2>5. QED
    BY <2>3, <2>4 DEF Hosted
<1>12. QED
  BY <1>1, <1>2, <1>3, <1>4, <1>5, <1>6, <1>7, <1>8, <1>9, <1>10, <1>11, NextCases

\* A step that leaves a daemon's latest connections to it, and held.
LEMMA LatestHostedKept ==
  ASSUME TypeOK, NEW d \in Daemons, NEW c \in Clients, LatestHosted(d, c), clientsById'[d][c] = clientsById[d][c],
         \A k \in Sockets : host[<<c, k>>] = d /\ serverEnd[<<c, k>>] \in Held
                              => host'[<<c, k>>] = d /\ serverEnd'[<<c, k>>] \in Held
  PROVE  LatestHosted(d, c)'
<1>1. clientsById \in [Daemons -> [Clients -> Sockets \cup {NoOne}]]
  BY DEF TypeOK
<1>2. clientsById[d][c] \in Sockets \cup {NoOne}
  BY <1>1
<1>3. QED
  BY <1>2 DEF LatestHosted

LEMMA LatestHostedStep ==
  ASSUME TypeOK, Hosted, [Next]_vars, NEW d \in Daemons, NEW c \in Clients, LatestHosted(d, c)
  PROVE  LatestHosted(d, c)'
<1>0. \A k \in Sockets : <<c, k>> \in Ends
  BY DEF Ends
<1>1. CASE UNCHANGED vars
  BY <1>1, LatestHostedKept DEF vars, connectionVars
<1>2. ASSUME NEW b \in Clients, Quiet(b) PROVE LatestHosted(d, c)'
  BY <1>2, QuietType, LatestHostedKept
<1>3. CASE Begin
  BY <1>3, BeginType, LatestHostedKept DEF connectionVars
<1>4. ASSUME NEW b \in Clients, OpenSocket(b) PROVE LatestHosted(d, c)'
  <2>1. PICK j \in Sockets : /\ serverEnd[<<b, j>>] = "none"
                             /\ serverEnd' = [serverEnd EXCEPT ![<<b, j>>] = "accepted"]
                             /\ host' = [host EXCEPT ![<<b, j>>] = path]
    BY <1>4, OpenType
  <2>2. \A e \in Ends : serverEnd[e] \in Held => host'[e] = host[e] /\ serverEnd'[e] = serverEnd[e]
    BY <2>1 DEF TypeOK, Held
  <2>3. UNCHANGED clientsById
    BY <1>4, OpenType
  <2>4. QED
    BY <1>0, <2>2, <2>3, LatestHostedKept
<1>5. ASSUME NEW b \in Clients, Leave(b) PROVE LatestHosted(d, c)'
  <2>1. UNCHANGED <<host, clientsById>>
    BY <1>5, LeaveType
  <2>2. \A e \in Ends : serverEnd[e] \in Held => serverEnd'[e] \in Held
    BY <1>5 DEF Leave, Held
  <2>3. QED
    BY <1>0, <2>1, <2>2, LatestHostedKept
<1>6. ASSUME NEW b \in Clients, Heartbeat(b) PROVE LatestHosted(d, c)'
  <2>1. PICK x \in Daemons : serverEnd' = [serverEnd EXCEPT ![<<b, clientsById[x][b]>>] = IF @ = "stale" THEN "greeted" ELSE @]
    BY <1>6, HeartbeatType
  <2>2. \A e \in Ends : serverEnd[e] \in Held => serverEnd'[e] \in Held
    BY <2>1 DEF TypeOK, Held
  <2>3. UNCHANGED <<host, clientsById>>
    BY <1>6, HeartbeatType
  <2>4. QED
    BY <1>0, <2>2, <2>3, LatestHostedKept
<1>7. ASSUME NEW b \in Clients, NEW j \in Sockets, HandleHello(b, j) PROVE LatestHosted(d, c)'
  <2>1. /\ UNCHANGED host /\ host[<<b, j>>] \in Daemons
        /\ serverEnd' = [serverEnd EXCEPT ![<<b, j>>] = "greeted"] /\ clientsById'[host[<<b, j>>]][b] = j
        /\ \A x \in Daemons, y \in Clients : x # host[<<b, j>>] \/ y # b => clientsById'[x][y] = clientsById[x][y]
    BY <1>7, HelloType
  <2>2. CASE d = host[<<b, j>>] /\ c = b
    <3>1. serverEnd'[<<b, j>>] = "greeted"
      BY <1>0, <2>1, <2>2 DEF TypeOK
    <3>2. QED
      BY <2>1, <2>2, <3>1 DEF LatestHosted, Held
  <2>3. CASE ~(d = host[<<b, j>>] /\ c = b)
    <3>1. clientsById'[d][c] = clientsById[d][c]
      BY <2>1, <2>3
    <3>2. \A e \in Ends : serverEnd[e] \in Held => serverEnd'[e] \in Held
      BY <2>1 DEF TypeOK, Held
    <3>3. QED
      BY <1>0, <2>1, <3>1, <3>2, LatestHostedKept
  <2>4. QED
    BY <2>2, <2>3
<1>8. ASSUME NEW b \in Clients, NEW j \in Sockets, HandleDisconnect(b, j) PROVE LatestHosted(d, c)'
  <2>1. /\ host' = [host EXCEPT ![<<b, j>>] = NoOne]
        /\ serverEnd' = [serverEnd EXCEPT ![<<b, j>>] = "none"] /\ clientsById'[host[<<b, j>>]][b] = NoOne
        /\ \A x \in Daemons, y \in Clients : x # host[<<b, j>>] \/ y # b => clientsById'[x][y] = clientsById[x][y]
    BY <1>8, DisconnectType
  <2>2. CASE d = host[<<b, j>>] /\ c = b
    BY <2>1, <2>2 DEF LatestHosted
  <2>3. CASE ~(d = host[<<b, j>>] /\ c = b)
    <3>1. clientsById'[d][c] = clientsById[d][c]
      BY <2>1, <2>3
    <3>2. \A e \in Ends : e # <<b, j>> => host'[e] = host[e] /\ serverEnd'[e] = serverEnd[e]
      BY <2>1 DEF TypeOK
    <3>3. \A k \in Sockets : host[<<c, k>>] = d => <<c, k>> # <<b, j>>
      BY <2>3
    <3>4. QED
      BY <1>0, <3>1, <3>2, <3>3, LatestHostedKept
  <2>4. QED
    BY <2>2, <2>3
<1>9. ASSUME NEW b \in Clients, NEW j \in Sockets, GoStale(b, j) \/ Expire(b, j) PROVE LatestHosted(d, c)'
  <2>1. /\ UNCHANGED <<host, clientsById>>
        /\ serverEnd' = [serverEnd EXCEPT ![<<b, j>>] = "stale"] \/ serverEnd' = [serverEnd EXCEPT ![<<b, j>>] = "closing"]
    BY <1>9, ExpiryType
  <2>2. \A e \in Ends : serverEnd[e] \in Held => serverEnd'[e] \in Held
    BY <2>1 DEF TypeOK, Held
  <2>3. QED
    BY <1>0, <2>1, <2>2, LatestHostedKept
<1>10. ASSUME NEW x \in Daemons, NEW s \in Sessions, DeliverOffline(x, s) PROVE LatestHosted(d, c)'
  BY <1>10, OfflineType, LatestHostedKept
<1>11. ASSUME NEW x \in Daemons, Stop(x) PROVE LatestHosted(d, c)'
  <2>1. CASE x = d
    BY <1>11, <2>1, StopType DEF LatestHosted
  <2>2. CASE x # d
    <3>1. \A e \in Ends : host[e] = d => serverEnd'[e] = serverEnd[e] /\ host'[e] = host[e]
      BY <1>11, <2>2, StopType
    <3>2. clientsById'[d] = clientsById[d]
      BY <1>11, <2>2, StopType
    <3>3. QED
      BY <1>0, <3>1, <3>2, LatestHostedKept
  <2>3. QED
    BY <2>1, <2>2
<1>12. QED
  BY <1>1, <1>2, <1>3, <1>4, <1>5, <1>6, <1>7, <1>8, <1>9, <1>10, <1>11, NextCases

\* A step that leaves an entry alone, and what it rests on.
LEMMA BackedKept ==
  ASSUME TypeOK, NEW d \in Daemons, NEW s \in Sessions, Backed(d, s), bySession'[d][s] = bySession[d][s],
         \A c \in Clients : bySession[d][s] = c => clientsById'[d][c] = clientsById[d][c] /\ (known[d][c] => known'[d][c])
  PROVE  Backed(d, s)'
<1>1. bySession \in [Daemons -> [Sessions -> Clients \cup {NoOne}]]
  BY DEF TypeOK
<1>2. bySession[d][s] \in Clients \cup {NoOne}
  BY <1>1
<1>3. QED
  BY <1>2 DEF Backed

\* When a client is unregistered, no entry names it any more, and the other
\* entries lose nothing they rest on.
LEMMA UnregisterBacked ==
  ASSUME TypeOK, NEW d \in Daemons, NEW s \in Sessions, Backed(d, s),
         NEW x \in Daemons, NEW b \in Clients, UnregisterClient(x, b),
         \A y \in Daemons, c \in Clients : y # x \/ c # b => clientsById'[y][c] = clientsById[y][c]
  PROVE  Backed(d, s)'
<1>1. /\ known[x][b] => bySession'[x][SessionOf[b]] = NoOne
      /\ ~known[x][b] => bySession' = bySession
      /\ \A y \in Daemons, r \in Sessions : y # x \/ r # SessionOf[b] => bySession'[y][r] = bySession[y][r]
      /\ \A y \in Daemons, c \in Clients : y # x \/ c # b => known'[y][c] = known[y][c]
  BY UnregisterEffect
<1>2. CASE bySession'[d][s] = bySession[d][s] /\ ~(x = d /\ bySession[d][s] = b)
  BY <1>1, <1>2, BackedKept
<1>3. CASE x = d /\ bySession[d][s] = b
  <2>1. SessionOf[b] = s /\ known[x][b]
    BY <1>3, NoOneAssumption DEF Backed
  <2>2. QED
    BY <1>1, <1>3, <2>1 DEF Backed
<1>4. CASE bySession'[d][s] # bySession[d][s]
  <2>1. x = d /\ s = SessionOf[b] /\ known[x][b]
    BY <1>1, <1>4
  <2>2. QED
    BY <1>1, <2>1 DEF Backed
<1>5. QED
  BY <1>2, <1>3, <1>4

LEMMA BackedStep ==
  ASSUME TypeOK, Hosted, [Next]_vars, NEW d \in Daemons, NEW s \in Sessions, Backed(d, s)
  PROVE  Backed(d, s)'
<1>1. CASE UNCHANGED <<clientsById, bySession, known>>
  BY <1>1, BackedKept
<1>2. CASE UNCHANGED vars
  BY <1>1, <1>2 DEF vars, registryVars
<1>3. ASSUME NEW b \in Clients, Quiet(b) PROVE Backed(d, s)'
  BY <1>1, <1>3, QuietType
<1>4. CASE Begin
  BY <1>1, <1>4, BeginType DEF registryVars
<1>5. ASSUME NEW b \in Clients, OpenSocket(b) PROVE Backed(d, s)'
  BY <1>1, <1>5, OpenType
<1>6. ASSUME NEW b \in Clients, Leave(b) PROVE Backed(d, s)'
  BY <1>1, <1>6, LeaveType
<1>7. ASSUME NEW b \in Clients, NEW j \in Sockets, GoStale(b, j) \/ Expire(b, j) PROVE Backed(d, s)'
  BY <1>1, <1>7, ExpiryType
<1>8. ASSUME NEW b \in Clients, Heartbeat(b) PROVE Backed(d, s)'
  <2>1. /\ UNCHANGED <<clientsById, bySession>>
        /\ \E x \in Daemons : known' = [known EXCEPT ![x][b] = @ /\ bySession[x][SessionOf[b]] # NoOne]
    BY <1>8, HeartbeatType
  <2>2. PICK x \in Daemons : known' = [known EXCEPT ![x][b] = @ /\ bySession[x][SessionOf[b]] # NoOne]
    BY <2>1
  <2>3. known \in [Daemons -> [Clients -> BOOLEAN]]
    BY DEF TypeOK
  \* Only an entry that is not there leaves its client unknown.
  <2>4. ASSUME NEW c \in Clients, bySession[d][s] = c, known[d][c] PROVE known'[d][c]
    <3>1. SessionOf[c] = s /\ c # NoOne
      BY <2>4, NoOneAssumption DEF Backed
    <3>2. bySession[d][SessionOf[c]] # NoOne
      BY <2>4, <3>1
    <3>3. QED
      BY <2>2, <2>3, <2>4, <3>2
  <2>5. QED
    BY <2>1, <2>4, BackedKept
<1>9. ASSUME NEW b \in Clients, NEW j \in Sockets, HandleHello(b, j) PROVE Backed(d, s)'
  <2> DEFINE x == host[<<b, j>>]
  <2>1. /\ x \in Daemons /\ Register(x, b) /\ clientsById'[x][b] = j
        /\ \A z \in Daemons, y \in Clients : z # x \/ y # b => clientsById'[z][y] = clientsById[z][y]
    BY <1>9, HelloType
  <2> HIDE DEF x
  <2>2. /\ bySession'[x][SessionOf[b]] = b /\ known'[x][b]
        /\ \A z \in Daemons, r \in Sessions : z # x \/ r # SessionOf[b] => bySession'[z][r] = bySession[z][r]
        /\ \A z \in Daemons, y \in Clients : z # x \/ y # b => known'[z][y] = known[z][y]
    BY <2>1, RegisterEffect
  <2>3. CASE d = x /\ s = SessionOf[b]
    BY <2>1, <2>2, <2>3, NoOneAssumption DEF Backed
  <2>4. CASE ~(d = x /\ s = SessionOf[b])
    <3>1. bySession'[d][s] = bySession[d][s]
      BY <2>2, <2>4
    <3>2. ~(d = x /\ bySession[d][s] = b)
      BY <2>4, NoOneAssumption DEF Backed
    <3>3. QED
      BY <2>1, <2>2, <3>1, <3>2, BackedKept
  <2>5. QED
    BY <2>3, <2>4
<1>10. ASSUME NEW b \in Clients, NEW j \in Sockets, HandleDisconnect(b, j) PROVE Backed(d, s)'
  <2>1. /\ host[<<b, j>>] \in Daemons /\ UnregisterClient(host[<<b, j>>], b)
        /\ \A y \in Daemons, c \in Clients : y # host[<<b, j>>] \/ c # b => clientsById'[y][c] = clientsById[y][c]
    BY <1>10, DisconnectType
  <2>2. QED
    BY <2>1, UnregisterBacked
<1>11. ASSUME NEW x \in Daemons, NEW r \in Sessions, DeliverOffline(x, r) PROVE Backed(d, s)'
  <2>1. bySession[x][r] \in Clients /\ UnregisterClient(x, bySession[x][r]) /\ UNCHANGED clientsById
    BY <1>11, OfflineType
  <2>2. QED
    BY <2>1, UnregisterBacked
<1>12. ASSUME NEW x \in Daemons, Stop(x) PROVE Backed(d, s)'
  <2>1. CASE x = d
    BY <1>12, <2>1, StopType DEF Backed
  <2>2. CASE x # d
    <3>1. clientsById'[d] = clientsById[d] /\ bySession'[d] = bySession[d] /\ known'[d] = known[d]
      BY <1>12, <2>2, StopType
    <3>2. QED
      BY <3>1, BackedKept
  <2>3. QED
    BY <2>1, <2>2
<1>13. QED
  BY <1>2, <1>3, <1>4, <1>5, <1>6, <1>7, <1>8, <1>9, <1>10, <1>11, <1>12, NextCases

LEMMA HonestInit == Init => Honest
<1> SUFFICES ASSUME Init PROVE Honest
  OBVIOUS
<1>1. TypeOK /\ Hosted
  BY TypeInit DEF Init, Hosted
<1>2. /\ \A d \in Daemons, c \in Clients : clientsById[d][c] = NoOne
      /\ \A d \in Daemons, s \in Sessions : bySession[d][s] = NoOne
  BY DEF Init
<1>3. QED
  BY <1>1, <1>2 DEF Honest, LatestHosted, Backed

LEMMA HonestStep == Honest /\ [Next]_vars => Honest'
<1> SUFFICES ASSUME Honest, [Next]_vars PROVE Honest'
  OBVIOUS
<1>1. TypeOK /\ Hosted
  BY DEF Honest
<1>2. TypeOK' /\ Hosted'
  BY <1>1, TypeStep, HostedStep
<1>3. \A d \in Daemons, c \in Clients : LatestHosted(d, c)'
  BY <1>1, LatestHostedStep DEF Honest
<1>4. \A d \in Daemons, s \in Sessions : Backed(d, s)'
  BY <1>1, BackedStep DEF Honest
<1>5. QED
  BY <1>2, <1>3, <1>4 DEF Honest

LEMMA HonestIsRegistryHonest == Honest => RegistryHonest
<1> SUFFICES ASSUME Honest, NEW d \in Daemons, NEW s \in Sessions, bySession[d][s] # NoOne
             PROVE  LET c == bySession[d][s]
                        k == clientsById[d][c]
                    IN  /\ SessionOf[c] = s /\ known[d][c]
                        /\ k # NoOne /\ host[<<c, k>>] = d /\ serverEnd[<<c, k>>] \in {"greeted", "stale", "closing"}
                        /\ running[d] = "up"
  BY DEF RegistryHonest, Honest
<1> DEFINE c == bySession[d][s]
           k == clientsById[d][c]
<1>1. c \in Clients
  <2>1. bySession \in [Daemons -> [Sessions -> Clients \cup {NoOne}]]
    BY DEF Honest, TypeOK
  <2>2. QED
    BY <2>1
<1>2. SessionOf[c] = s /\ known[d][c] /\ k # NoOne
  BY DEF Honest, Backed
<1>3. k \in Sockets
  <2>1. clientsById \in [Daemons -> [Clients -> Sockets \cup {NoOne}]]
    BY DEF Honest, TypeOK
  <2>2. clientsById[d][c] \in Sockets \cup {NoOne}
    BY <1>1, <2>1
  <2>3. QED
    BY <1>2, <2>2
<1>4. host[<<c, k>>] = d /\ serverEnd[<<c, k>>] \in {"greeted", "stale", "closing"}
  BY <1>1, <1>2 DEF Honest, LatestHosted, Held
<1>5. running[d] = "up"
  <2>1. <<c, k>> \in Ends
    BY <1>1, <1>3 DEF Ends
  <2>2. QED
    BY <1>4, <2>1 DEF Honest, Hosted
<1>6. QED
  BY <1>2, <1>4, <1>5

\* However the ends of old and new connections cross, whoever shares a session, and
\* whichever daemon took the path over, a client is registered only with a running
\* daemon that has a greeted connection of it which it has not forgotten.
THEOREM RegistryIsHonest == Spec => []RegistryHonest
<1>1. Spec => []Honest
  BY HonestInit, HonestStep, PTL DEF Spec
<1>2. QED
  BY <1>1, HonestIsRegistryHonest, PTL

-----------------------------------------------------------------------------
(* That no client waits for nothing.                                        *)

\* While the client believes in a socket, a daemon has a connection of it.
EndsAgree(c, k) ==
  clientEnd[<<c, k>>] \in {"open", "acked"} => serverEnd[<<c, k>>] \in {"accepted", "greeted", "stale"}

\* A hello in hand waits for its answer on the client's own socket.
HelloOpen(c) ==
  InHello(c) => socket[c] # NoOne /\ clientEnd[<<c, socket[c]>>] \in {"open", "dropped"}

\* A client opens a socket only when it has none that it can use.
OpensWithout(c) == connecting[c] \in {"opening", "failed", "launched"} => ~Usable(c)

\* The latest connection of the only client of a session holds the session's entry
\* in its daemon from its hello until its end.
LatestRegistered(d, c) ==
  Alone(c) /\ clientsById[d][c] # NoOne /\ Greeted(c, clientsById[d][c]) => bySession[d][SessionOf[c]] = c

ConnectionsSafe ==
  /\ Honest
  /\ \A c \in Clients : HelloOpen(c) /\ OpensWithout(c)
  /\ \A d \in Daemons, c \in Clients : LatestRegistered(d, c)
  /\ \A c \in Clients, k \in Sockets : EndsAgree(c, k)

\* Something happens to the connect in hand, or the reconnect timer fires.
ConnectDue(c) ==
  \/ waiting[c]
  \/ connecting[c] = "failed"
  \/ connecting[c] \in {"opening", "launched"} /\ path = NoOne
  \/ /\ connecting[c] \in {"opening", "launched"} /\ path # NoOne
     /\ \E k \in Sockets : clientEnd[<<c, k>>] = "none" /\ serverEnd[<<c, k>>] = "none"

\* Something happens to the socket, at one of its ends: it closes, a hello or its
\* answer arrives, or no heartbeat keeps the connection from its expiry.
SocketDue(c, k) ==
  \/ clientEnd[<<c, k>>] = "dropped"
  \/ serverEnd[<<c, k>>] \in {"accepted", "closing"}
  \/ Greeted(c, k) /\ clientEnd[<<c, k>>] = "open"
  \/ serverEnd[<<c, k>>] = "greeted" /\ Starving(c, k)
  \/ Expires(c, k)

\* The only client of a session can be reached by a daemon or has given up, or a step
\* towards either is due: its timers and its ends are never all at rest over
\* connections that no daemon's reminders come over.
SomethingDue ==
  \A c \in Clients : alive[c] /\ Alone(c) =>
    Reached(c) \/ GivenUp(c) \/ ConnectDue(c) \/ \E k \in Sockets : SocketDue(c, k)

\* The steps that keep the ends in agreement: the client's is not usable after them, or
\* the host's has its connection, or the one that changes is acknowledged or closing.
LEMMA EndsAgreeKept ==
  ASSUME NEW c \in Clients, NEW k \in Sockets, EndsAgree(c, k),
         \/ clientEnd'[<<c, k>>] \notin {"open", "acked"}
         \/ serverEnd'[<<c, k>>] \in {"accepted", "greeted", "stale"}
         \/ /\ clientEnd'[<<c, k>>] = clientEnd[<<c, k>>]
            /\ serverEnd'[<<c, k>>] = serverEnd[<<c, k>>] \/ serverEnd[<<c, k>>] = "closing"
         \/ clientEnd[<<c, k>>] \in {"open", "acked"} /\ serverEnd'[<<c, k>>] = serverEnd[<<c, k>>]
  PROVE  EndsAgree(c, k)'
BY DEF EndsAgree

LEMMA EndsAgreeStep ==
  ASSUME TypeOK, Hosted, [Next]_vars, NEW c \in Clients, NEW k \in Sockets, EndsAgree(c, k)
  PROVE  EndsAgree(c, k)'
<1> DEFINE e == <<c, k>>
<1>0. e \in Ends
  BY DEF Ends
<1>1. ASSUME \/ clientEnd'[e] \notin {"open", "acked"}
             \/ serverEnd'[e] \in {"accepted", "greeted", "stale"}
             \/ /\ clientEnd'[e] = clientEnd[e]
                /\ serverEnd'[e] = serverEnd[e] \/ serverEnd[e] = "closing"
             \/ clientEnd[e] \in {"open", "acked"} /\ serverEnd'[e] = serverEnd[e]
      PROVE  EndsAgree(c, k)'
  BY <1>1, EndsAgreeKept
<1>2. e = <<c, k>>
  OBVIOUS
<1> HIDE DEF e
<1>3. CASE UNCHANGED <<clientEnd, serverEnd>>
  BY <1>1, <1>3
<1>4. ASSUME NEW b \in Clients, Quiet(b) PROVE EndsAgree(c, k)'
  <2>1. UNCHANGED serverEnd
    BY <1>4, QuietType
  <2>2. clientEnd'[e] = clientEnd[e] \/ clientEnd'[e] = "none" \/ clientEnd[e] = "open"
    <3>1. CASE CallRpc(b) \/ GiveUp(b) \/ Reconnect(b)
      BY <3>1 DEF CallRpc, GiveUp, Reconnect, connectionVars
    <3>2. ASSUME NEW j \in Sockets, HelloAck(b, j) \/ ClientClose(b, j)
          PROVE  clientEnd'[e] = clientEnd[e] \/ clientEnd'[e] = "none" \/ clientEnd[e] = "open"
      <4>1. \/ clientEnd[<<b, j>>] = "open" /\ clientEnd' = [clientEnd EXCEPT ![<<b, j>>] = "acked"]
            \/ clientEnd' = [clientEnd EXCEPT ![<<b, j>>] = "none"]
        BY <3>2 DEF HelloAck, ClientClose
      <4>2. QED
        BY <1>0, <4>1 DEF TypeOK
    <3>3. QED
      BY <1>4, <3>1, <3>2 DEF Quiet
  <2>3. QED
    BY <1>1, <2>1, <2>2
<1>5. CASE Begin
  BY <1>3, <1>5, BeginType DEF connectionVars
<1>6. ASSUME NEW b \in Clients, OpenSocket(b) PROVE EndsAgree(c, k)'
  <2>1. PICK j \in Sockets : /\ clientEnd' = [clientEnd EXCEPT ![<<b, j>>] = "open"]
                             /\ serverEnd' = [serverEnd EXCEPT ![<<b, j>>] = "accepted"]
    BY <1>6, OpenType
  <2>2. CASE e = <<b, j>>
    BY <1>0, <1>1, <2>1, <2>2 DEF TypeOK
  <2>3. CASE e # <<b, j>>
    BY <1>0, <1>1, <2>1, <2>3 DEF TypeOK
  <2>4. QED
    BY <2>2, <2>3
<1>7. ASSUME NEW b \in Clients, Leave(b) PROVE EndsAgree(c, k)'
  <2>1. CASE b = c
    <3>1. clientEnd'[e] = "none"
      BY <1>0, <1>2, <1>7, <2>1 DEF Leave
    <3>2. QED
      BY <1>1, <3>1
  <2>2. CASE b # c
    <3>1. clientEnd'[e] = clientEnd[e] /\ serverEnd'[e] = serverEnd[e]
      BY <1>0, <1>2, <1>7, <2>2 DEF Leave
    <3>2. QED
      BY <1>1, <3>1
  <2>3. QED
    BY <2>1, <2>2
<1>8. ASSUME NEW b \in Clients, Heartbeat(b) PROVE EndsAgree(c, k)'
  <2>1. PICK d \in Daemons : serverEnd' = [serverEnd EXCEPT ![<<b, clientsById[d][b]>>] = IF @ = "stale" THEN "greeted" ELSE @]
    BY <1>8, HeartbeatType
  <2>2. serverEnd'[e] = serverEnd[e] \/ serverEnd'[e] = "greeted"
    BY <1>0, <2>1 DEF TypeOK
  <2>3. UNCHANGED clientEnd
    BY <1>8, HeartbeatType
  <2>4. QED
    BY <1>1, <2>2, <2>3
<1>9. ASSUME NEW b \in Clients, NEW j \in Sockets, HandleHello(b, j) PROVE EndsAgree(c, k)'
  <2>1. serverEnd' = [serverEnd EXCEPT ![<<b, j>>] = "greeted"] /\ UNCHANGED clientEnd
    BY <1>9, HelloType
  <2>2. serverEnd'[e] = serverEnd[e] \/ serverEnd'[e] = "greeted"
    BY <1>0, <2>1 DEF TypeOK
  <2>3. QED
    BY <1>1, <2>1, <2>2
<1>10. ASSUME NEW b \in Clients, NEW j \in Sockets, HandleDisconnect(b, j) PROVE EndsAgree(c, k)'
  <2>1. /\ serverEnd[<<b, j>>] = "closing" /\ serverEnd' = [serverEnd EXCEPT ![<<b, j>>] = "none"] /\ UNCHANGED clientEnd
    BY <1>10, DisconnectType
  <2>2. serverEnd'[e] = serverEnd[e] \/ serverEnd[e] = "closing"
    BY <1>0, <2>1 DEF TypeOK
  <2>3. QED
    BY <1>1, <2>1, <2>2
<1>11. ASSUME NEW b \in Clients, NEW j \in Sockets, GoStale(b, j) \/ Expire(b, j) PROVE EndsAgree(c, k)'
  <2>1. \/ serverEnd' = [serverEnd EXCEPT ![<<b, j>>] = "stale"] /\ UNCHANGED clientEnd
        \/ /\ serverEnd' = [serverEnd EXCEPT ![<<b, j>>] = "closing"]
           /\ clientEnd' = [clientEnd EXCEPT ![<<b, j>>] = IF @ = "none" THEN "none" ELSE "dropped"]
    BY <1>11, ExpiryType
  <2>2. CASE e = <<b, j>>
    <3>1. serverEnd'[e] = "stale" \/ clientEnd'[e] \in {"none", "dropped"}
      BY <1>0, <2>1, <2>2 DEF TypeOK
    <3>2. QED
      BY <1>1, <3>1
  <2>3. CASE e # <<b, j>>
    <3>1. clientEnd'[e] = clientEnd[e] /\ serverEnd'[e] = serverEnd[e]
      BY <1>0, <2>1, <2>3 DEF TypeOK
    <3>2. QED
      BY <1>1, <3>1
  <2>4. QED
    BY <2>2, <2>3
<1>12. ASSUME NEW d \in Daemons, NEW s \in Sessions, DeliverOffline(d, s) PROVE EndsAgree(c, k)'
  BY <1>3, <1>12, OfflineType
<1>13. ASSUME NEW d \in Daemons, Stop(d) PROVE EndsAgree(c, k)'
  <2>1. clientEnd'[e] \in {"none", "dropped"} \/ (serverEnd'[e] = serverEnd[e] /\ clientEnd'[e] = clientEnd[e])
    BY <1>0, <1>13, StopType
  <2>2. QED
    BY <1>1, <2>1
<1>14. CASE UNCHANGED vars
  BY <1>3, <1>14 DEF vars, connectionVars
<1>15. QED
  BY <1>4, <1>5, <1>6, <1>7, <1>8, <1>9, <1>10, <1>11, <1>12, <1>13, <1>14, NextCases

\* A step that touches neither the client's connect nor its socket may only drop
\* or acknowledge ends that are in use; no hello is in hand when one is acknowledged.
LEMMA ClientKept ==
  ASSUME TypeOK, NEW c \in Clients, HelloOpen(c), OpensWithout(c),
         connecting'[c] = connecting[c], socket'[c] = socket[c],
         \A k \in Sockets : \/ clientEnd'[<<c, k>>] = clientEnd[<<c, k>>]
                            \/ clientEnd'[<<c, k>>] = "dropped"
                            \/ clientEnd[<<c, k>>] = "open" /\ ~InHello(c)
  PROVE  HelloOpen(c)' /\ OpensWithout(c)'
<1>1. socket[c] # NoOne => socket[c] \in Sockets
  BY DEF TypeOK
<1>2. HelloOpen(c)'
  BY <1>1 DEF HelloOpen, InHello
<1>3. OpensWithout(c)'
  BY <1>1 DEF OpensWithout, Usable
<1>4. QED
  BY <1>2, <1>3

\* A step of another client does not concern this one.
LEMMA OtherClient ==
  ASSUME TypeOK, NEW c \in Clients, NEW b \in Clients, b # c, Quiet(b) \/ Launch(b) \/ OpenSocket(b) \/ Leave(b)
  PROVE  /\ connecting'[c] = connecting[c] /\ socket'[c] = socket[c]
         /\ \A k \in Sockets : clientEnd'[<<c, k>>] = clientEnd[<<c, k>>]
<1>0. \A k \in Sockets : <<c, k>> \in Ends
  BY DEF Ends
<1>1. CASE CallRpc(b) \/ Reconnect(b)
  BY <1>1 DEF CallRpc, Reconnect, EnsureConnected, TypeOK, connectionVars
<1>2. CASE GiveUp(b) \/ Launch(b)
  BY <1>2 DEF GiveUp, Launch, TypeOK, connectionVars
<1>3. ASSUME NEW j \in Sockets, HelloAck(b, j)
      PROVE  /\ connecting'[c] = connecting[c] /\ socket'[c] = socket[c]
             /\ \A k \in Sockets : clientEnd'[<<c, k>>] = clientEnd[<<c, k>>]
  BY <1>0, <1>3 DEF HelloAck, TypeOK
<1>4. ASSUME NEW j \in Sockets, ClientClose(b, j)
      PROVE  /\ connecting'[c] = connecting[c] /\ socket'[c] = socket[c]
             /\ \A k \in Sockets : clientEnd'[<<c, k>>] = clientEnd[<<c, k>>]
  BY <1>0, <1>4 DEF ClientClose, TypeOK
<1>5. CASE OpenSocket(b)
  <2>1. PICK j \in Sockets : clientEnd' = [clientEnd EXCEPT ![<<b, j>>] = "open"] /\ socket' = [socket EXCEPT ![b] = j]
    BY <1>5, OpenType
  <2>2. connecting' = [connecting EXCEPT ![b] = IF @ = "opening" THEN "hello" ELSE "second hello"]
    BY <1>5, OpenType
  <2>3. QED
    BY <1>0, <2>1, <2>2 DEF TypeOK
<1>6. CASE Leave(b)
  BY <1>0, <1>6 DEF Leave, TypeOK
<1>7. QED
  BY <1>1, <1>2, <1>3, <1>4, <1>5, <1>6 DEF Quiet

\* A step of the client itself.
LEMMA OwnStep ==
  ASSUME TypeOK, NEW c \in Clients, HelloOpen(c), OpensWithout(c), Quiet(c) \/ Launch(c) \/ OpenSocket(c) \/ Leave(c)
  PROVE  HelloOpen(c)' /\ OpensWithout(c)'
<1>0. \A k \in Sockets : <<c, k>> \in Ends
  BY DEF Ends
<1>1. CASE CallRpc(c) \/ Reconnect(c)
  <2>1. EnsureConnected(c) /\ UNCHANGED <<socket, clientEnd>>
    BY <1>1 DEF CallRpc, Reconnect, connectionVars
  <2>2. CASE connecting'[c] = connecting[c]
    BY <2>1, <2>2, ClientKept
  <2>3. CASE connecting'[c] # connecting[c]
    <3>1. ~Usable(c) /\ connecting'[c] = "opening"
      BY <2>1, <2>3 DEF EnsureConnected, TypeOK
    <3>2. QED
      BY <2>1, <3>1 DEF HelloOpen, InHello, OpensWithout, Usable
  <2>4. QED
    BY <2>2, <2>3
<1>2. CASE GiveUp(c) \/ Launch(c)
  <2>1. UNCHANGED <<socket, clientEnd>>
    BY <1>2 DEF GiveUp, Launch, connectionVars
  <2>2. \/ connecting'[c] = "no"
        \/ connecting[c] \in {"opening", "failed"} /\ connecting'[c] = "launched"
    BY <1>2 DEF GiveUp, Launch, TypeOK
  <2>3. QED
    BY <2>1, <2>2 DEF HelloOpen, InHello, OpensWithout, Usable
<1>3. ASSUME NEW j \in Sockets, HelloAck(c, j) PROVE HelloOpen(c)' /\ OpensWithout(c)'
  <2>1. /\ UNCHANGED socket /\ clientEnd[<<c, j>>] = "open" /\ clientEnd' = [clientEnd EXCEPT ![<<c, j>>] = "acked"]
        /\ connecting' = IF InHello(c) THEN [connecting EXCEPT ![c] = "no"] ELSE connecting
    BY <1>3 DEF HelloAck
  <2>2. CASE InHello(c)
    <3>1. connecting'[c] = "no"
      BY <2>1, <2>2 DEF TypeOK
    <3>2. QED
      BY <3>1 DEF HelloOpen, InHello, OpensWithout
  <2>3. CASE ~InHello(c)
    <3>1. connecting'[c] = connecting[c]
      BY <2>1, <2>3
    <3>2. \A k \in Sockets : clientEnd'[<<c, k>>] = clientEnd[<<c, k>>] \/ clientEnd[<<c, k>>] = "open"
      BY <1>0, <2>1 DEF TypeOK
    <3>3. QED
      BY <2>1, <2>3, <3>1, <3>2, ClientKept
  <2>4. QED
    BY <2>2, <2>3
<1>4. ASSUME NEW j \in Sockets, ClientClose(c, j) PROVE HelloOpen(c)' /\ OpensWithout(c)'
  <2>1. socket'[c] = NoOne /\ connecting'[c] \notin {"hello", "second hello"}
    BY <1>4 DEF ClientClose, TypeOK
  <2>2. QED
    BY <2>1 DEF HelloOpen, InHello, OpensWithout, Usable
<1>5. CASE OpenSocket(c)
  <2>1. PICK j \in Sockets : clientEnd' = [clientEnd EXCEPT ![<<c, j>>] = "open"] /\ socket' = [socket EXCEPT ![c] = j]
    BY <1>5, OpenType
  <2>2. connecting' = [connecting EXCEPT ![c] = IF @ = "opening" THEN "hello" ELSE "second hello"]
    BY <1>5, OpenType
  <2>3. socket'[c] = j /\ clientEnd'[<<c, j>>] = "open" /\ connecting'[c] \in {"hello", "second hello"}
    BY <1>0, <2>1, <2>2 DEF TypeOK
  <2>4. QED
    BY <2>3, NoOneAssumption DEF HelloOpen, InHello, OpensWithout
<1>6. CASE Leave(c)
  <2>1. connecting'[c] = "no"
    BY <1>6 DEF Leave, TypeOK
  <2>2. QED
    BY <2>1 DEF HelloOpen, InHello, OpensWithout
<1>7. QED
  BY <1>1, <1>2, <1>3, <1>4, <1>5, <1>6 DEF Quiet

\* A step of a client or of a daemon, as far as it concerns the client's end.
LEMMA ClientStep ==
  ASSUME TypeOK, Hosted, [Next]_vars, NEW c \in Clients, HelloOpen(c), OpensWithout(c)
  PROVE  HelloOpen(c)' /\ OpensWithout(c)'
<1>0. ASSUME UNCHANGED <<connecting, socket, clientEnd>> PROVE HelloOpen(c)' /\ OpensWithout(c)'
  BY <1>0, ClientKept
<1>00. \A k \in Sockets : <<c, k>> \in Ends
  BY DEF Ends
<1>1. ASSUME NEW b \in Clients, Quiet(b) \/ Launch(b) \/ OpenSocket(b) \/ Leave(b)
      PROVE  HelloOpen(c)' /\ OpensWithout(c)'
  <2>1. CASE b = c
    BY <1>1, <2>1, OwnStep
  <2>2. CASE b # c
    <3>1. /\ connecting'[c] = connecting[c] /\ socket'[c] = socket[c]
          /\ \A k \in Sockets : clientEnd'[<<c, k>>] = clientEnd[<<c, k>>]
      BY <1>1, <2>2, OtherClient
    <3>2. QED
      BY <3>1, ClientKept
  <2>3. QED
    BY <2>1, <2>2
<1>2. ASSUME NEW d \in Daemons, Serve(d) \/ StartDaemon(d) PROVE HelloOpen(c)' /\ OpensWithout(c)'
  BY <1>0, <1>2 DEF Serve, StartDaemon, clientVars, connectionVars
<1>3. ASSUME NEW b \in Clients, Heartbeat(b) PROVE HelloOpen(c)' /\ OpensWithout(c)'
  BY <1>0, <1>3 DEF Heartbeat, clientVars
<1>4. ASSUME NEW b \in Clients, NEW j \in Sockets, HandleHello(b, j) \/ HandleDisconnect(b, j)
      PROVE  HelloOpen(c)' /\ OpensWithout(c)'
  BY <1>0, <1>4 DEF HandleHello, HandleDisconnect, clientVars
<1>5. ASSUME NEW b \in Clients, NEW j \in Sockets, GoStale(b, j) \/ Expire(b, j)
      PROVE  HelloOpen(c)' /\ OpensWithout(c)'
  <2>1. /\ UNCHANGED clientVars
        /\ \/ UNCHANGED clientEnd
           \/ clientEnd' = [clientEnd EXCEPT ![<<b, j>>] = IF @ = "none" THEN "none" ELSE "dropped"]
    BY <1>5, ExpiryType
  <2>2. \A k \in Sockets : clientEnd'[<<c, k>>] = clientEnd[<<c, k>>] \/ clientEnd'[<<c, k>>] = "dropped"
    BY <1>00, <2>1 DEF TypeOK
  <2>3. QED
    BY <2>1, <2>2, ClientKept DEF clientVars
<1>6. ASSUME NEW d \in Daemons, NEW s \in Sessions, DeliverOffline(d, s) PROVE HelloOpen(c)' /\ OpensWithout(c)'
  BY <1>0, <1>6, OfflineType DEF clientVars
<1>7. ASSUME NEW d \in Daemons, Stop(d) PROVE HelloOpen(c)' /\ OpensWithout(c)'
  <2>1. UNCHANGED clientVars
    BY <1>7, StopType
  <2>2. clientEnd' = [e \in Ends |-> IF host[e] = d /\ clientEnd[e] # "none" THEN "dropped" ELSE clientEnd[e]]
    BY <1>7 DEF Stop
  <2>3. \A k \in Sockets : clientEnd'[<<c, k>>] = clientEnd[<<c, k>>] \/ clientEnd'[<<c, k>>] = "dropped"
    BY <1>00, <2>2
  <2>4. QED
    BY <2>1, <2>3, ClientKept DEF clientVars
<1>8. CASE UNCHANGED vars
  BY <1>0, <1>8 DEF vars, clientVars, connectionVars
<1>9. CASE Begin
  BY <1>1, <1>2, <1>9 DEF Begin
<1>10. QED
  BY <1>1, <1>3, <1>4, <1>5, <1>6, <1>7, <1>8, <1>9, NextCases

\* The entry of the client's session stays, and none of its connections is greeted.
LEMMA LatestKept ==
  ASSUME TypeOK, NEW d \in Daemons, NEW c \in Clients, LatestRegistered(d, c), clientsById'[d][c] = clientsById[d][c],
         Alone(c) => bySession'[d][SessionOf[c]] = bySession[d][SessionOf[c]],
         Alone(c) => \A k \in Sockets : clientsById[d][c] = k /\ Greeted(c, k)' => Greeted(c, k)
  PROVE  LatestRegistered(d, c)'
<1>1. clientsById \in [Daemons -> [Clients -> Sockets \cup {NoOne}]]
  BY DEF TypeOK
<1>2. clientsById[d][c] \in Sockets \cup {NoOne}
  BY <1>1
<1>3. QED
  BY <1>2 DEF LatestRegistered, Alone

LEMMA LatestStep ==
  ASSUME Honest, [Next]_vars, NEW d \in Daemons, NEW c \in Clients, LatestRegistered(d, c)
  PROVE  LatestRegistered(d, c)'
<1>0. /\ TypeOK /\ Hosted /\ SessionOf[c] \in Sessions /\ LatestHosted(d, c)
      /\ \A k \in Sockets : <<c, k>> \in Ends
  BY SessionAssumption DEF Honest, Ends
<1>1. ASSUME UNCHANGED <<clientsById, bySession>>, \A e \in Ends : serverEnd'[e] \in {"greeted", "stale"} => serverEnd[e] \in {"greeted", "stale"}
      PROVE  LatestRegistered(d, c)'
  <2>1. \A k \in Sockets : Greeted(c, k)' => Greeted(c, k)
    BY <1>0, <1>1 DEF Greeted
  <2>2. QED
    BY <1>0, <1>1, <2>1, LatestKept
<1>2. ASSUME NEW b \in Clients, Quiet(b) PROVE LatestRegistered(d, c)'
  <2>1. UNCHANGED <<serverEnd, clientsById, bySession>>
    BY <1>0, <1>2, QuietType
  <2>2. QED
    BY <1>1, <2>1
<1>3. CASE Begin
  <2>1. UNCHANGED <<serverEnd, clientsById, bySession>>
    BY <1>0, <1>3, BeginType DEF connectionVars, registryVars
  <2>2. QED
    BY <1>1, <2>1
<1>4. ASSUME NEW b \in Clients, OpenSocket(b) PROVE LatestRegistered(d, c)'
  <2>1. PICK j \in Sockets : serverEnd' = [serverEnd EXCEPT ![<<b, j>>] = "accepted"]
    BY <1>0, <1>4, OpenType
  <2>2. UNCHANGED <<clientsById, bySession>>
    BY <1>0, <1>4, OpenType
  <2>3. \A e \in Ends : serverEnd'[e] \in {"greeted", "stale"} => serverEnd[e] \in {"greeted", "stale"}
    BY <1>0, <2>1 DEF TypeOK
  <2>4. QED
    BY <1>1, <2>2, <2>3
<1>5. ASSUME NEW b \in Clients, Leave(b) PROVE LatestRegistered(d, c)'
  <2>1. UNCHANGED <<clientsById, bySession>>
    BY <1>0, <1>5, LeaveType
  <2>2. \A e \in Ends : serverEnd'[e] \in {"greeted", "stale"} => serverEnd[e] \in {"greeted", "stale"}
    BY <1>5 DEF Leave
  <2>3. QED
    BY <1>1, <2>1, <2>2
<1>6. ASSUME NEW b \in Clients, Heartbeat(b) PROVE LatestRegistered(d, c)'
  <2>1. PICK x \in Daemons : serverEnd' = [serverEnd EXCEPT ![<<b, clientsById[x][b]>>] = IF @ = "stale" THEN "greeted" ELSE @]
    BY <1>0, <1>6, HeartbeatType
  <2>2. UNCHANGED <<clientsById, bySession>>
    BY <1>0, <1>6, HeartbeatType
  <2>3. \A e \in Ends : serverEnd'[e] \in {"greeted", "stale"} => serverEnd[e] \in {"greeted", "stale"}
    BY <1>0, <2>1 DEF TypeOK
  <2>4. QED
    BY <1>1, <2>2, <2>3
<1>7. ASSUME NEW b \in Clients, NEW j \in Sockets, HandleHello(b, j) PROVE LatestRegistered(d, c)'
  <2> DEFINE x == host[<<b, j>>]
  <2>1. /\ x \in Daemons /\ Register(x, b) /\ clientsById'[x][b] = j
        /\ serverEnd' = [serverEnd EXCEPT ![<<b, j>>] = "greeted"]
        /\ \A z \in Daemons, y \in Clients : z # x \/ y # b => clientsById'[z][y] = clientsById[z][y]
    BY <1>0, <1>7, HelloType
  <2>2. x = host[<<b, j>>]
    OBVIOUS
  <2> HIDE DEF x
  <2>3. /\ bySession'[x][SessionOf[b]] = b
        /\ \A z \in Daemons, r \in Sessions : z # x \/ r # SessionOf[b] => bySession'[z][r] = bySession[z][r]
    BY <1>0, <2>1, RegisterEffect
  <2>4. CASE d = x /\ c = b
    BY <2>3, <2>4 DEF LatestRegistered
  <2>5. CASE ~(d = x /\ c = b)
    <3>1. clientsById'[d][c] = clientsById[d][c]
      BY <2>1, <2>5
    <3>2. Alone(c) => bySession'[d][SessionOf[c]] = bySession[d][SessionOf[c]]
      BY <1>0, <2>3, <2>5 DEF Alone
    \* Its latest connection is with this daemon, and the one that says hello is not.
    <3>3. ASSUME NEW k \in Sockets, clientsById[d][c] = k PROVE Greeted(c, k)' => Greeted(c, k)
      <4>1. host[<<c, k>>] = d
        BY <3>3, NoOneAssumption DEF LatestHosted, Honest
      <4>2. <<c, k>> # <<b, j>>
        BY <2>2, <2>5, <4>1
      <4>3. serverEnd'[<<c, k>>] = serverEnd[<<c, k>>]
        BY <1>0, <2>1, <4>2 DEF TypeOK
      <4>4. QED
        BY <4>3 DEF Greeted
    <3>4. QED
      BY <1>0, <3>1, <3>2, <3>3, LatestKept
  <2>6. QED
    BY <2>4, <2>5
<1>8. ASSUME NEW b \in Clients, NEW j \in Sockets, HandleDisconnect(b, j) PROVE LatestRegistered(d, c)'
  <2> DEFINE x == host[<<b, j>>]
  <2>1. /\ x \in Daemons /\ UnregisterClient(x, b) /\ clientsById'[x][b] = NoOne
        /\ serverEnd' = [serverEnd EXCEPT ![<<b, j>>] = "none"]
        /\ \A z \in Daemons, y \in Clients : z # x \/ y # b => clientsById'[z][y] = clientsById[z][y]
    BY <1>0, <1>8, DisconnectType
  <2> HIDE DEF x
  <2>2. \A z \in Daemons, r \in Sessions : z # x \/ r # SessionOf[b] => bySession'[z][r] = bySession[z][r]
    BY <1>0, <2>1, UnregisterEffect
  <2>3. CASE d = x /\ c = b
    BY <2>1, <2>3 DEF LatestRegistered
  <2>4. CASE ~(d = x /\ c = b)
    <3>1. clientsById'[d][c] = clientsById[d][c]
      BY <2>1, <2>4
    <3>2. Alone(c) => bySession'[d][SessionOf[c]] = bySession[d][SessionOf[c]]
      BY <1>0, <2>2, <2>4 DEF Alone
    <3>3. \A k \in Sockets : Greeted(c, k)' => Greeted(c, k)
      BY <1>0, <2>1 DEF TypeOK, Greeted
    <3>4. QED
      BY <1>0, <3>1, <3>2, <3>3, LatestKept
  <2>5. QED
    BY <2>3, <2>4
<1>9. ASSUME NEW b \in Clients, NEW j \in Sockets, GoStale(b, j) \/ Expire(b, j) PROVE LatestRegistered(d, c)'
  <2>1. /\ UNCHANGED <<clientsById, bySession>> /\ serverEnd[<<b, j>>] \in {"greeted", "stale"}
        /\ serverEnd' = [serverEnd EXCEPT ![<<b, j>>] = "stale"] \/ serverEnd' = [serverEnd EXCEPT ![<<b, j>>] = "closing"]
    BY <1>0, <1>9, ExpiryType
  <2>2. \A e \in Ends : serverEnd'[e] \in {"greeted", "stale"} => serverEnd[e] \in {"greeted", "stale"}
    BY <1>0, <2>1 DEF TypeOK
  <2>3. QED
    BY <1>1, <2>1, <2>2
<1>10. ASSUME NEW x \in Daemons, NEW s \in Sessions, DeliverOffline(x, s) PROVE LatestRegistered(d, c)'
  <2> DEFINE b == bySession[x][s]
  <2>1. /\ b \in Clients /\ UnregisterClient(x, b) /\ UNCHANGED <<serverEnd, clientsById>>
        /\ clientsById[x][b] = NoOne \/ serverEnd[<<b, clientsById[x][b]>>] = "closing"
    BY <1>0, <1>10, OfflineType
  <2>2. SessionOf[b] = s
    BY <2>1, NoOneAssumption DEF Honest, Backed
  <2> HIDE DEF b
  <2>3. \A z \in Daemons, r \in Sessions : z # x \/ r # SessionOf[b] => bySession'[z][r] = bySession[z][r]
    BY <1>0, <2>1, UnregisterEffect
  <2>4. CASE d = x /\ c = b
    BY <2>1, <2>4 DEF LatestRegistered, Greeted
  <2>5. CASE ~(d = x /\ c = b)
    <3>1. Alone(c) => bySession'[d][SessionOf[c]] = bySession[d][SessionOf[c]]
      BY <1>0, <2>1, <2>3, <2>5 DEF Alone
    <3>2. \A k \in Sockets : Greeted(c, k)' => Greeted(c, k)
      BY <2>1 DEF Greeted
    <3>3. QED
      BY <1>0, <2>1, <3>1, <3>2, LatestKept
  <2>6. QED
    BY <2>4, <2>5
<1>11. ASSUME NEW x \in Daemons, Stop(x) PROVE LatestRegistered(d, c)'
  <2>1. CASE x = d
    <3>1. clientsById'[d][c] = NoOne
      BY <1>0, <1>11, <2>1, StopType
    <3>2. QED
      BY <3>1 DEF LatestRegistered
  <2>2. CASE x # d
    <3>1. clientsById'[d] = clientsById[d] /\ bySession'[d] = bySession[d]
      BY <1>0, <1>11, <2>2, StopType
    <3>2. \A e \in Ends : serverEnd'[e] \in {serverEnd[e], "none"}
      BY <1>11 DEF Stop
    <3>3. \A k \in Sockets : Greeted(c, k)' => Greeted(c, k)
      BY <1>0, <3>2 DEF Greeted
    <3>4. QED
      BY <1>0, <3>1, <3>3, LatestKept
  <2>3. QED
    BY <2>1, <2>2
<1>12. CASE UNCHANGED vars
  BY <1>1, <1>12 DEF vars, connectionVars, registryVars
<1>13. QED
  BY <1>2, <1>3, <1>4, <1>5, <1>6, <1>7, <1>8, <1>9, <1>10, <1>11, <1>12, NextCases

LEMMA ConnectionsInit == Init => ConnectionsSafe
<1> SUFFICES ASSUME Init PROVE ConnectionsSafe
  OBVIOUS
<1>1. \A c \in Clients : connecting[c] = "opening" /\ socket[c] = NoOne
  BY DEF Init
<1>2. \A d \in Daemons, c \in Clients : clientsById[d][c] = NoOne
  BY DEF Init
<1>3. \A c \in Clients, k \in Sockets : clientEnd[<<c, k>>] = "none"
  BY DEF Init, Ends
<1>4. QED
  BY <1>1, <1>2, <1>3, HonestInit DEF ConnectionsSafe, HelloOpen, InHello, OpensWithout, Usable, LatestRegistered, EndsAgree

LEMMA ConnectionsStep == ConnectionsSafe /\ [Next]_vars => ConnectionsSafe'
<1> SUFFICES ASSUME ConnectionsSafe, [Next]_vars PROVE ConnectionsSafe'
  OBVIOUS
<1>1. Honest /\ TypeOK /\ Hosted /\ Honest'
  BY HonestStep DEF ConnectionsSafe, Honest
<1>2. \A c \in Clients : HelloOpen(c)' /\ OpensWithout(c)'
  BY <1>1, ClientStep DEF ConnectionsSafe
<1>3. \A d \in Daemons, c \in Clients : LatestRegistered(d, c)'
  BY <1>1, LatestStep DEF ConnectionsSafe
<1>4. \A c \in Clients, k \in Sockets : EndsAgree(c, k)'
  BY <1>1, EndsAgreeStep DEF ConnectionsSafe
<1>5. QED
  BY <1>1, <1>2, <1>3, <1>4 DEF ConnectionsSafe

LEMMA SafeIsDue == ConnectionsSafe => SomethingDue
<1> SUFFICES ASSUME ConnectionsSafe, NEW c \in Clients, alive[c], Alone(c),
                    ~Reached(c), ~GivenUp(c), ~waiting[c], connecting[c] # "failed"
             PROVE  ConnectDue(c) \/ \E k \in Sockets : SocketDue(c, k)
  BY DEF SomethingDue, ConnectDue
<1>1. TypeOK /\ Hosted /\ HelloOpen(c) /\ OpensWithout(c)
  BY DEF ConnectionsSafe, Honest
<1>2. /\ socket[c] \in Sockets \cup {NoOne}
      /\ connecting[c] \in {"no", "opening", "hello", "launched", "second hello"}
  BY <1>1 DEF TypeOK
<1>3. \A k \in Sockets : clientEnd[<<c, k>>] \in ClientEnds /\ serverEnd[<<c, k>>] \in ServerEnds
  BY <1>1 DEF TypeOK, Ends, ClientEnds, ServerEnds
<1>4. \A k \in Sockets : EndsAgree(c, k)
  BY DEF ConnectionsSafe
<1>5. CASE connecting[c] \in {"opening", "launched"}
  <2>1. CASE path = NoOne
    BY <1>5, <2>1 DEF ConnectDue
  <2>2. CASE path # NoOne
    <3>1. PICK k \in Sockets : TRUE
      BY SocketsAssumption
    <3>2. CASE clientEnd[<<c, k>>] = "none" /\ serverEnd[<<c, k>>] = "none"
      BY <1>5, <2>2, <3>2 DEF ConnectDue
    <3>3. CASE ~(clientEnd[<<c, k>>] = "none" /\ serverEnd[<<c, k>>] = "none")
      \* Every connection starves, for the client has no socket to send a heartbeat on.
      <4>1. Starving(c, k)
        BY <1>5, <1>1 DEF OpensWithout, Starving, BeatsAt
      <4>2. SocketDue(c, k)
        BY <1>3, <1>4, <3>3, <4>1 DEF SocketDue, EndsAgree, Greeted, Expires, ServerEnds, ClientEnds
      <4>3. QED
        BY <4>2
    <3>4. QED
      BY <3>2, <3>3
  <2>3. QED
    BY <2>1, <2>2
<1>6. CASE InHello(c)
  <2>1. socket[c] \in Sockets /\ clientEnd[<<c, socket[c]>>] \in {"open", "dropped"}
    BY <1>6, <1>1, <1>2 DEF HelloOpen
  <2>2. SocketDue(c, socket[c])
    BY <1>4, <2>1 DEF SocketDue, EndsAgree, Greeted, Expires
  <2>3. QED
    BY <2>1, <2>2
<1>7. CASE connecting[c] = "no"
  <2>1. socket[c] \in Sockets /\ clientEnd[<<c, socket[c]>>] \in {"open", "acked"}
    BY <1>7, <1>2 DEF GivenUp, Usable
  <2>2. serverEnd[<<c, socket[c]>>] \in {"accepted", "greeted", "stale"}
    BY <1>4, <2>1 DEF EndsAgree
  \* Its daemon would have the session registered over its latest connection, so this
  \* one is not the latest.
  <2>3. ASSUME serverEnd[<<c, socket[c]>>] = "greeted" PROVE Starving(c, socket[c])
    <3>1. host[<<c, socket[c]>>] \in Daemons
      BY <1>1, <2>1, <2>3 DEF Hosted, Ends
    <3>2. ASSUME clientsById[host[<<c, socket[c]>>]][c] = socket[c] PROVE FALSE
      <4>1. bySession[host[<<c, socket[c]>>]][SessionOf[c]] = c
        BY <2>1, <2>3, <3>1, <3>2, NoOneAssumption DEF ConnectionsSafe, LatestRegistered, Greeted
      <4>2. QED
        BY <2>1, <2>3, <3>1, <3>2, <4>1, NoOneAssumption DEF Reached, Greeted
    <3>3. QED
      BY <3>2 DEF Starving
  <2>4. SocketDue(c, socket[c])
    BY <2>2, <2>3 DEF SocketDue, Expires
  <2>5. QED
    BY <2>1, <2>4
<1>8. QED
  BY <1>5, <1>6, <1>7, <1>2 DEF InHello

\* No order of closes, hellos, heartbeats and expiries, no stop of a daemon, and no
\* other daemon that takes the socket path over leaves the only client of a session out
\* of every daemon's reach with nothing under way.
THEOREM NobodyForgotten == Spec => []SomethingDue
<1>1. Spec => []ConnectionsSafe
  BY ConnectionsInit, ConnectionsStep, PTL DEF Spec
<1>2. QED
  BY <1>1, SafeIsDue, PTL
=============================================================================
