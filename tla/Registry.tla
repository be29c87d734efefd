------------------------------ MODULE Registry ------------------------------
(***************************************************************************)
(* The server's registry of clients: ConnectionManager (server/manager.ts),*)
(* the WebSocket upgrade of server/main.ts, and the life of the            *)
(* ProxyTransports it keeps (core/transport.ts), which outlive their       *)
(* WebSockets and wait for a client that names them when it reconnects.    *)
(*                                                                         *)
(* TCPProxy models one transport with its connections; here there are      *)
(* several, of which only the sockets, timers and queued messages matter.  *)
(* The id of a transport is its position in the order of their making.     *)
(***************************************************************************)
EXTENDS Naturals, Sequences, FiniteSets

CONSTANTS
    MaxTransports,   \* bound: transports registered
    MaxSockets,      \* bound: WebSockets upgraded
    MaxSends,        \* bound: messages a transport is given to send
    MaxQueue,        \* MAX_QUEUE_SIZE
    MaxConnections   \* maxConnections

ASSUME RegistryAssumption ==
    /\ MaxTransports \in Nat
    /\ MaxSockets \in Nat
    /\ MaxSends \in Nat
    /\ MaxQueue \in Nat
    /\ MaxConnections \in Nat \ {0}

Transports == 1 .. MaxTransports
Sockets == 1 .. MaxSockets

VARIABLES
    connections,   \* keys of the connections map
    stale,         \* transports with a lastActivity longer ago than timeout
    tstate,        \* tstate[t]: connectionState and isClosed
    ws,            \* ws[t]: the socket of the transport, 0 for null
    listening,     \* <<k, t>>: transport t has its listeners on socket k
    timers,        \* timers[t]: the armed ones
    messageQueue,  \* messageQueue[t]
    made,          \* made[t]: messages given to send()
    passed,        \* passed[t]: messages given to ws.send(), in that order
    sock,          \* sock[k]: readyState
    wants,         \* wants[k]: the id in the URL of the request, 0 for none
    silent         \* open sockets whose client is gone, unnoticed

managerVars == <<connections, stale>>
transportVars == <<tstate, ws, listening, timers, messageQueue>>
socketVars == <<sock, wants, silent>>
vars == <<managerVars, transportVars, made, passed, socketVars>>

(***************************************************************************)
(* heartbeat and reconnect are the timers the transport has a handle of.   *)
(* A stray timer is a reconnect timer whose handle has been overwritten by *)
(* that of the next; one is as good as several, since it closes for good.  *)
(***************************************************************************)
Timer == {"heartbeat", "reconnect", "stray"}

TypeOK ==
    /\ connections \subseteq Transports
    /\ stale \subseteq Transports
    /\ tstate \in [Transports -> {"none", "connected", "disconnected", "closed"}]
    /\ ws \in [Transports -> 0 .. MaxSockets]
    /\ listening \subseteq Sockets \X Transports
    /\ timers \in [Transports -> SUBSET Timer]
    /\ messageQueue \in [Transports -> Seq(1 .. MaxSends)]
    /\ \A t \in Transports : Len(messageQueue[t]) <= MaxQueue
    /\ made \in [Transports -> 0 .. MaxSends]
    /\ passed \in [Transports -> Seq(1 .. MaxSends)]
    /\ sock \in [Sockets -> {"none", "upgrading", "open", "gone"}]
    /\ wants \in [Sockets -> 0 .. MaxTransports]
    /\ silent \subseteq Sockets

Init ==
    /\ connections = {}
    /\ stale = {}
    /\ tstate = [t \in Transports |-> "none"]
    /\ ws = [t \in Transports |-> 0]
    /\ listening = {}
    /\ timers = [t \in Transports |-> {}]
    /\ messageQueue = [t \in Transports |-> <<>>]
    /\ made = [t \in Transports |-> 0]
    /\ passed = [t \in Transports |-> <<>>]
    /\ sock = [k \in Sockets |-> "none"]
    /\ wants = [k \in Sockets |-> 0]
    /\ silent = {}

CanAccept == Cardinality(connections) < MaxConnections

IsOpen(k) == k # 0 /\ sock[k] = "open"

\* The client of transport t can hear it.
Reachable(t) == IsOpen(ws[t]) /\ ws[t] \notin silent

-----------------------------------------------------------------------------
(* What the handlers do to a transport                                     *)

\* Mutation: the listeners on the previous socket stay.
MoveListeners_Keeping(t, k) == listening' = listening \cup {<<k, t>>}

\* Only the listeners of the previous socket are removed; it is not closed.
MoveListeners(t, k) == listening' = (listening \ {<<ws[t], t>>}) \cup {<<k, t>>}

\* Mutation: what is flushed stays queued.
FlushQueue_Keeping(t) ==
    /\ passed' = [passed EXCEPT ![t] = @ \o messageQueue[t]]
    /\ UNCHANGED messageQueue

\* flushQueue() on an open socket.
FlushQueue(t) ==
    /\ passed' = [passed EXCEPT ![t] = @ \o messageQueue[t]]
    /\ messageQueue' = [messageQueue EXCEPT ![t] = <<>>]

\* Mutation: the heartbeat timer is left to the first heartbeat.
Rearm_Unwatched(T) == T \ {"reconnect"}

\* The armed timers after startHeartbeat() and clearing the reconnect timer,
\* the last one that is: the handles of earlier ones are lost.
Rearm(T) == (T \ {"reconnect"}) \cup {"heartbeat"}

Assign(t, k) ==
    /\ MoveListeners(t, k)
    /\ ws' = [ws EXCEPT ![t] = k]
    /\ tstate' = [tstate EXCEPT ![t] = "connected"]
    /\ FlushQueue(t)
    /\ timers' = [timers EXCEPT ![t] = Rearm(@)]

\* What a full queue has no room for is dropped.
Enqueue(q, n) == IF Len(q) < MaxQueue THEN Append(q, n) ELSE q

\* The armed timers after handleDisconnect() with the timers T armed.
Disarm(T) ==
    (T \ {"heartbeat"}) \cup {"reconnect"}
        \cup (IF "reconnect" \in T THEN {"stray"} ELSE {})

\* Mutation: handleDisconnect() waits for the client without a timer.
Disconnect_Untimed(t, events) ==
    /\ tstate' = [tstate EXCEPT ![t] = "disconnected"]
    /\ timers' = [timers EXCEPT ![t] = @ \ {"heartbeat"}]
    /\ stale' = stale \ {t}

\* handleDisconnect(), run once for each event; the manager notes the time.
Disconnect(t, events) ==
    /\ tstate' = [tstate EXCEPT ![t] = "disconnected"]
    /\ timers' = [timers EXCEPT ![t] = IF events = 2 THEN Disarm(Disarm(@)) ELSE Disarm(@)]
    /\ stale' = stale \ {t}

\* close() of the transports in S, by unregister() or by the reconnect timer;
\* the "close" event takes them out of the registry.
CloseAll(S) ==
    /\ tstate' = [t \in Transports |-> IF t \in S THEN "closed" ELSE tstate[t]]
    /\ ws' = [t \in Transports |-> IF t \in S THEN 0 ELSE ws[t]]
    /\ listening' = {l \in listening : l[2] \notin S}
    /\ timers' = [t \in Transports |->
                     IF t \in S THEN timers[t] \ {"heartbeat", "reconnect"} ELSE timers[t]]
    /\ messageQueue' = [t \in Transports |-> IF t \in S THEN <<>> ELSE messageQueue[t]]
    /\ sock' = [k \in Sockets |-> IF IsOpen(k) /\ \E t \in S : ws[t] = k
                                  THEN "gone" ELSE sock[k]]
    /\ connections' = connections \ S

-----------------------------------------------------------------------------
(* Upgrade                                                                 *)

\* The request handler of server/main.ts: the limit is checked before the
\* upgrade, for new and for returning clients.
Upgrade(k) ==
    /\ sock[k] = "none"
    /\ \A j \in Sockets : j < k => sock[j] # "none"
    /\ CanAccept
    /\ sock' = [sock EXCEPT ![k] = "upgrading"]
    /\ \E id \in {0} \cup {t \in Transports : tstate[t] # "none"} :
          wants' = [wants EXCEPT ![k] = id]
    /\ UNCHANGED <<managerVars, transportVars, made, passed, silent>>

\* Mutation: the check before the upgrade is taken to be enough.
Register_Unchecked(t) == connections' = connections \cup {t}

\* register() checks the limit again: other upgrades may have come in between.
Register(t) ==
    /\ CanAccept
    /\ connections' = connections \cup {t}

\* handleOpen without an id, for the next new transport.
OpenNew(k, t) ==
    /\ sock[k] = "upgrading"
    /\ wants[k] = 0
    /\ tstate[t] = "none"
    /\ \A u \in Transports : u < t => tstate[u] # "none"
    /\ Register(t)
    /\ Assign(t, k)
    /\ sock' = [sock EXCEPT ![k] = "open"]
    /\ UNCHANGED <<stale, made, wants, silent>>

\* handleOpen with the id of a registered transport: reconnect().
OpenAgain(k) ==
    /\ sock[k] = "upgrading"
    /\ wants[k] \in connections
    /\ sock' = [sock EXCEPT ![k] = "open"]
    /\ Assign(wants[k], k)
    /\ stale' = stale \ {wants[k]}
    /\ UNCHANGED <<connections, made, wants, silent>>

\* register() or reconnect() throws: socket.close(1011).
OpenRefused(k) ==
    /\ sock[k] = "upgrading"
    /\ IF wants[k] = 0 THEN ~CanAccept ELSE wants[k] \notin connections
    /\ sock' = [sock EXCEPT ![k] = "gone"]
    /\ UNCHANGED <<managerVars, transportVars, made, passed, wants, silent>>

-----------------------------------------------------------------------------
(* Sockets                                                                 *)

\* The socket closes, with a close event only or with an error event before it
\* (both in one go); who listens runs handleDisconnect() for each.
SocketCloses(k) ==
    /\ sock[k] \in {"upgrading", "open"}
    /\ sock' = [sock EXCEPT ![k] = "gone"]
    /\ silent' = silent \ {k}
    /\ IF \E t \in Transports : <<k, t>> \in listening
       THEN \E t \in Transports, events \in 1 .. 2 :
               <<k, t>> \in listening /\ Disconnect(t, events)
       ELSE UNCHANGED <<tstate, timers, stale>>
    /\ UNCHANGED <<connections, ws, listening, messageQueue, made, passed, wants>>

\* The client or the network is gone; nothing tells the server.
ClientVanishes(k) ==
    /\ sock[k] = "open"
    /\ k \notin silent
    /\ silent' = silent \cup {k}
    /\ UNCHANGED <<managerVars, transportVars, made, passed, sock, wants>>

\* A HEARTBEAT arrives: the timer is set again, also after it has expired.
Heartbeat(k, t) ==
    /\ sock[k] = "open"
    /\ k \notin silent
    /\ <<k, t>> \in listening
    /\ timers' = [timers EXCEPT ![t] = @ \cup {"heartbeat"}]
    /\ UNCHANGED <<managerVars, tstate, ws, listening, messageQueue, made, passed,
                   socketVars>>

\* send(): on the open socket, or into the queue if there is room.
Send(t) ==
    /\ tstate[t] \in {"connected", "disconnected"}
    /\ made[t] < MaxSends
    /\ made' = [made EXCEPT ![t] = @ + 1]
    /\ IF IsOpen(ws[t])
       THEN /\ passed' = [passed EXCEPT ![t] = Append(@, made'[t])]
            /\ UNCHANGED messageQueue
       ELSE /\ messageQueue' = [messageQueue EXCEPT ![t] = Enqueue(@, made'[t])]
            /\ UNCHANGED passed
    /\ UNCHANGED <<managerVars, tstate, ws, listening, timers, socketVars>>

-----------------------------------------------------------------------------
(* Timers                                                                  *)

HeartbeatTimeout(t) ==
    /\ "heartbeat" \in timers[t]
    /\ Disconnect(t, 1)
    /\ UNCHANGED <<connections, ws, listening, messageQueue, made, passed, socketVars>>

\* A reconnect timer: the "timeout" event unregisters, which closes.
ReconnectTimeout(t) ==
    /\ timers[t] \cap {"reconnect", "stray"} # {}
    /\ tstate[t] # "closed"
    /\ CloseAll({t})
    /\ UNCHANGED <<stale, made, passed, wants, silent>>

\* More than timeout since lastActivity was set. Traffic does not set it.
TimePasses(t) ==
    /\ t \in connections \ stale
    /\ stale' = stale \cup {t}
    /\ UNCHANGED <<connections, transportVars, made, passed, socketVars>>

\* cleanup(), every cleanupIntervalMs.
Cleanup ==
    /\ connections \cap stale # {}
    /\ CloseAll(connections \cap stale)
    /\ UNCHANGED <<stale, made, passed, wants, silent>>

Next ==
    \/ Cleanup
    \/ \E k \in Sockets :
          \/ Upgrade(k) \/ OpenAgain(k) \/ OpenRefused(k)
          \/ SocketCloses(k) \/ ClientVanishes(k)
          \/ \E t \in Transports : OpenNew(k, t) \/ Heartbeat(k, t)
    \/ \E t \in Transports :
          Send(t) \/ HeartbeatTimeout(t) \/ ReconnectTimeout(t) \/ TimePasses(t)

Spec == Init /\ [][Next]_vars

\* Timers expire. The heartbeat timer is put off for ever by a client that is
\* there, so only one that is out of reach can count on it.
Fairness ==
    \A t \in Transports :
        /\ WF_vars(ReconnectTimeout(t))
        /\ WF_vars(~Reachable(t) /\ HeartbeatTimeout(t))

FairSpec == Spec /\ Fairness

-----------------------------------------------------------------------------
(* Properties                                                              *)

\* The registry holds exactly the transports that are not closed, and no more
\* than its limit, though the limit was checked before the upgrade and the
\* transport is registered after it.
RegistryIsExact ==
    /\ connections = {t \in Transports : tstate[t] \in {"connected", "disconnected"}}
    /\ Cardinality(connections) <= MaxConnections

\* Each registered transport listens to the socket it sends on and to no other,
\* and no socket serves two: an earlier socket of a client that came back can no
\* longer disconnect it.
ListensToItsSocket ==
    /\ listening = {<<ws[t], t>> : t \in connections}
    /\ \A t, u \in connections : ws[t] = ws[u] => t = u

\* A connected transport has an open socket and the timer that notices a client
\* gone silent; a disconnected one has the timer that ends its waiting; once it
\* is closed it has neither.
EveryTransportIsTimed ==
    \A t \in Transports :
        /\ tstate[t] = "connected" => IsOpen(ws[t]) /\ "heartbeat" \in timers[t]
        /\ tstate[t] = "disconnected" => "reconnect" \in timers[t]
        /\ t \notin connections => timers[t] \subseteq {"stray"}

\* Over all its sockets a transport sends in the order in which it was given
\* the messages, each once; what is queued waits for a socket and comes next.
SentInOrder ==
    \A t \in Transports :
        /\ \A i, j \in DOMAIN (passed[t] \o messageQueue[t]) :
              i < j => (passed[t] \o messageQueue[t])[i] < (passed[t] \o messageQueue[t])[j]
        /\ IsOpen(ws[t]) => messageQueue[t] = <<>>

\* The reconnect timer is for the time without a client: it never closes a
\* transport whose client has come back.
WaitsForReconnection ==
    [][\A t \in Transports :
          ReconnectTimeout(t) => tstate[t] = "disconnected"]_vars

\* Cleanup is for idle connections: not for one that is connected, and whose
\* heartbeats therefore keep arriving.
CleansOnlyIdle ==
    [][Cleanup => \A t \in connections \ connections' : tstate[t] = "disconnected"]_vars

\* A transport whose client is out of reach is closed in the end and gives its
\* place back, unless the client returns.
PlaceIsGivenBack ==
    \A t \in Transports :
        t \in connections /\ ~Reachable(t) ~> t \notin connections \/ Reachable(t)
=============================================================================
