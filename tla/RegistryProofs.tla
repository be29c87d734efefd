--------------------------- MODULE RegistryProofs ---------------------------
(***************************************************************************)
(* The registry, the listeners and the timers of the transports agree, for *)
(* any number of transports, sockets and messages.                         *)
(***************************************************************************)
EXTENDS Registry, FiniteSetTheorems, SequenceTheorems, TLAPS

\* A registered transport has a socket that has been open, any other has none.
SocketsInUse ==
    \A t \in Transports :
        IF t \in connections
        THEN ws[t] \in Sockets /\ sock[ws[t]] \in {"open", "gone"}
        ELSE ws[t] = 0

RegInv ==
    /\ RegistryIsExact
    /\ ListensToItsSocket
    /\ EveryTransportIsTimed
    /\ SocketsInUse

-----------------------------------------------------------------------------
(* Types                                                                   *)

LEMMA InitIsTyped == Init => TypeOK
<1> SUFFICES ASSUME Init PROVE TypeOK
  OBVIOUS
<1>1. 0 \in 0 .. MaxSockets /\ 0 \in 0 .. MaxTransports /\ 0 \in 0 .. MaxSends
  BY RegistryAssumption
<1>2. <<>> \in Seq(1 .. MaxSends) /\ Len(<<>>) <= MaxQueue
  BY RegistryAssumption
<1>3. messageQueue \in [Transports -> Seq(1 .. MaxSends)]
  BY <1>2 DEF Init
<1>4. passed \in [Transports -> Seq(1 .. MaxSends)]
  BY <1>2 DEF Init
<1>5. \A t \in Transports : Len(messageQueue[t]) <= MaxQueue
  BY <1>2 DEF Init
<1>6. QED
  BY <1>1, <1>3, <1>4, <1>5 DEF Init, TypeOK

LEMMA AssignIsTyped ==
    ASSUME TypeOK, NEW t \in Transports, NEW k \in Sockets, Assign(t, k)
    PROVE  /\ tstate' \in [Transports -> {"none", "connected", "disconnected", "closed"}]
           /\ ws' \in [Transports -> 0 .. MaxSockets]
           /\ listening' \subseteq Sockets \X Transports
           /\ timers' \in [Transports -> SUBSET Timer]
           /\ messageQueue' \in [Transports -> Seq(1 .. MaxSends)]
           /\ \A u \in Transports : Len(messageQueue'[u]) <= MaxQueue
           /\ passed' \in [Transports -> Seq(1 .. MaxSends)]
<1>1. k \in 0 .. MaxSockets
  BY DEF Sockets
<1>2. <<>> \in Seq(1 .. MaxSends) /\ Len(<<>>) <= MaxQueue
  BY RegistryAssumption
<1>3. messageQueue' \in [Transports -> Seq(1 .. MaxSends)]
  BY <1>2 DEF Assign, FlushQueue, TypeOK
<1>4. \A u \in Transports : Len(messageQueue'[u]) <= MaxQueue
  BY <1>2 DEF Assign, FlushQueue, TypeOK
<1>5. passed[t] \o messageQueue[t] \in Seq(1 .. MaxSends)
  BY DEF TypeOK
<1>6. passed' \in [Transports -> Seq(1 .. MaxSends)]
  BY <1>5 DEF Assign, FlushQueue, TypeOK
<1>7. listening' \subseteq Sockets \X Transports
  BY DEF Assign, MoveListeners, TypeOK
<1>8. timers' \in [Transports -> SUBSET Timer]
  BY DEF Assign, Rearm, Timer, TypeOK
<1>9. ws' \in [Transports -> 0 .. MaxSockets]
  BY <1>1 DEF Assign, TypeOK
<1>10. QED
  BY <1>3, <1>4, <1>6, <1>7, <1>8, <1>9 DEF Assign, TypeOK

LEMMA DisconnectIsTyped ==
    ASSUME TypeOK, NEW t \in Transports, NEW events \in 1 .. 2, Disconnect(t, events)
    PROVE  /\ tstate' \in [Transports -> {"none", "connected", "disconnected", "closed"}]
           /\ timers' \in [Transports -> SUBSET Timer]
           /\ stale' \subseteq Transports
BY DEF Disconnect, Disarm, Timer, TypeOK

LEMMA CloseAllIsTyped ==
    ASSUME TypeOK, NEW S \in SUBSET Transports, CloseAll(S)
    PROVE  /\ tstate' \in [Transports -> {"none", "connected", "disconnected", "closed"}]
           /\ ws' \in [Transports -> 0 .. MaxSockets]
           /\ listening' \subseteq Sockets \X Transports
           /\ timers' \in [Transports -> SUBSET Timer]
           /\ messageQueue' \in [Transports -> Seq(1 .. MaxSends)]
           /\ \A u \in Transports : Len(messageQueue'[u]) <= MaxQueue
           /\ sock' \in [Sockets -> {"none", "upgrading", "open", "gone"}]
           /\ connections' \subseteq Transports
<1>1. <<>> \in Seq(1 .. MaxSends) /\ Len(<<>>) <= MaxQueue
  BY RegistryAssumption
<1>2. messageQueue' \in [Transports -> Seq(1 .. MaxSends)]
  BY <1>1 DEF CloseAll, TypeOK
<1>3. \A u \in Transports : Len(messageQueue'[u]) <= MaxQueue
  BY <1>1 DEF CloseAll, TypeOK
<1>4. ws' \in [Transports -> 0 .. MaxSockets]
  BY RegistryAssumption DEF CloseAll, TypeOK
<1>5. timers' \in [Transports -> SUBSET Timer]
  BY DEF CloseAll, TypeOK
<1>6. QED
  BY <1>2, <1>3, <1>4, <1>5 DEF CloseAll, TypeOK

LEMMA EnqueueIsBounded ==
    ASSUME NEW q \in Seq(1 .. MaxSends), Len(q) <= MaxQueue, NEW n \in 1 .. MaxSends
    PROVE  Enqueue(q, n) \in Seq(1 .. MaxSends) /\ Len(Enqueue(q, n)) <= MaxQueue
<1>1. CASE Len(q) < MaxQueue
  <2>1. Append(q, n) \in Seq(1 .. MaxSends) /\ Len(Append(q, n)) = Len(q) + 1
    OBVIOUS
  <2>2. Len(q) + 1 <= MaxQueue
    BY <1>1, RegistryAssumption
  <2>3. Enqueue(q, n) = Append(q, n)
    BY <1>1 DEF Enqueue
  <2>4. QED
    BY <2>1, <2>2, <2>3
<1>2. CASE ~(Len(q) < MaxQueue)
  BY <1>2 DEF Enqueue
<1>3. QED
  BY <1>1, <1>2

LEMMA SendIsTyped ==
    ASSUME TypeOK, NEW t \in Transports, Send(t)
    PROVE  TypeOK'
<1> DEFINE n == made[t] + 1
<1>1. n \in 1 .. MaxSends /\ n \in 0 .. MaxSends /\ made'[t] = n
  BY RegistryAssumption DEF Send, TypeOK
<1>2. made' \in [Transports -> 0 .. MaxSends]
  BY <1>1 DEF Send, TypeOK
<1>3. Append(passed[t], n) \in Seq(1 .. MaxSends)
  BY <1>1 DEF TypeOK
<1>4. passed' \in [Transports -> Seq(1 .. MaxSends)]
  BY <1>1, <1>3 DEF Send, TypeOK
<1>5. /\ Enqueue(messageQueue[t], n) \in Seq(1 .. MaxSends)
      /\ Len(Enqueue(messageQueue[t], n)) <= MaxQueue
  BY <1>1, EnqueueIsBounded DEF TypeOK
<1>6. /\ messageQueue' \in [Transports -> Seq(1 .. MaxSends)]
      /\ \A u \in Transports : Len(messageQueue'[u]) <= MaxQueue
  <2>1. CASE UNCHANGED messageQueue
    BY <2>1 DEF TypeOK
  <2>2. CASE messageQueue' = [messageQueue EXCEPT ![t] = Enqueue(@, n)]
    BY <2>2, <1>5 DEF TypeOK
  <2>3. QED
    BY <1>1, <2>1, <2>2 DEF Send
<1>7. QED
  BY <1>2, <1>4, <1>6 DEF Send, TypeOK, managerVars, socketVars

LEMMA StepIsTyped == TypeOK /\ [Next]_vars => TypeOK'
<1> SUFFICES ASSUME TypeOK, [Next]_vars PROVE TypeOK'
  OBVIOUS
<1> USE DEF managerVars, transportVars, socketVars
<1>1. CASE Cleanup
  <2>1. connections \cap stale \in SUBSET Transports
    BY DEF TypeOK
  <2>2. QED
    BY <1>1, <2>1, CloseAllIsTyped DEF Cleanup, TypeOK
<1>2. ASSUME NEW k \in Sockets, Upgrade(k) PROVE TypeOK'
  <2>1. 0 \in 0 .. MaxTransports /\ Transports \subseteq 0 .. MaxTransports
    BY RegistryAssumption DEF Transports
  <2>2. QED
    BY <1>2, <2>1 DEF Upgrade, TypeOK
<1>3. ASSUME NEW k \in Sockets, OpenAgain(k) PROVE TypeOK'
  <2>1. wants[k] \in Transports
    BY <1>3 DEF OpenAgain, TypeOK
  <2>2. QED
    BY <1>3, <2>1, AssignIsTyped DEF OpenAgain, TypeOK
<1>4. ASSUME NEW k \in Sockets, OpenRefused(k) PROVE TypeOK'
  BY <1>4 DEF OpenRefused, TypeOK
<1>5. ASSUME NEW k \in Sockets, SocketCloses(k) PROVE TypeOK'
  <2>1. CASE \E t \in Transports : <<k, t>> \in listening
    <3>1. PICK t \in Transports, events \in 1 .. 2 : Disconnect(t, events)
      BY <1>5, <2>1 DEF SocketCloses
    <3>2. QED
      BY <1>5, <3>1, DisconnectIsTyped DEF SocketCloses, TypeOK
  <2>2. CASE ~ \E t \in Transports : <<k, t>> \in listening
    BY <1>5, <2>2 DEF SocketCloses, TypeOK
  <2>3. QED
    BY <2>1, <2>2
<1>6. ASSUME NEW k \in Sockets, ClientVanishes(k) PROVE TypeOK'
  BY <1>6 DEF ClientVanishes, TypeOK
<1>7. ASSUME NEW k \in Sockets, NEW t \in Transports, OpenNew(k, t) PROVE TypeOK'
  BY <1>7, AssignIsTyped DEF OpenNew, Register, TypeOK
<1>8. ASSUME NEW k \in Sockets, NEW t \in Transports, Heartbeat(k, t) PROVE TypeOK'
  BY <1>8 DEF Heartbeat, Timer, TypeOK
<1>9. ASSUME NEW t \in Transports, HeartbeatTimeout(t) PROVE TypeOK'
  BY <1>9, DisconnectIsTyped DEF HeartbeatTimeout, TypeOK
<1>10. ASSUME NEW t \in Transports, ReconnectTimeout(t) PROVE TypeOK'
  BY <1>10, CloseAllIsTyped DEF ReconnectTimeout, TypeOK
<1>11. ASSUME NEW t \in Transports, TimePasses(t) PROVE TypeOK'
  BY <1>11 DEF TimePasses, TypeOK
<1>12. CASE UNCHANGED vars
  BY <1>12 DEF vars, TypeOK
<1>13. QED
  BY <1>1, <1>2, <1>3, <1>4, <1>5, <1>6, <1>7, <1>8, <1>9, <1>10, <1>11, <1>12,
     SendIsTyped DEF Next

\* Every variable of the registry keeps its type, every queue its limit.
THEOREM RegistryTypes == Spec => []TypeOK
BY InitIsTyped, StepIsTyped, PTL DEF Spec
-----------------------------------------------------------------------------
(* Registry, listeners and timers                                          *)

LEMMA FewConnections ==
    ASSUME TypeOK
    PROVE  IsFiniteSet(connections)
<1>1. IsFiniteSet(Transports)
  BY RegistryAssumption, FS_Interval DEF Transports
<1>2. QED
  BY <1>1, FS_Subset DEF TypeOK

LEMMA InitIsRegular == Init => RegInv
<1> SUFFICES ASSUME Init PROVE RegInv
  OBVIOUS
<1>1. RegistryIsExact
  BY FS_EmptySet, RegistryAssumption DEF Init, RegistryIsExact
<1>2. QED
  BY <1>1 DEF Init, RegInv, ListensToItsSocket, EveryTransportIsTimed, SocketsInUse

\* A socket that was not open before is given to a transport that is, or now
\* becomes, a registered one.
LEMMA AssignKeepsRegular ==
    ASSUME TypeOK, TypeOK', RegInv,
           NEW t \in Transports, NEW k \in Sockets,
           sock[k] = "upgrading", sock' = [sock EXCEPT ![k] = "open"],
           Assign(t, k),
           connections' = connections \cup {t},
           Cardinality(connections') <= MaxConnections
    PROVE  RegInv'
<1> USE DEF Assign, RegInv
<1>1. RegistryIsExact'
  BY DEF RegistryIsExact, TypeOK
<1>2. \A u \in connections : ws[u] # k
  BY DEF SocketsInUse, TypeOK
<1>3. SocketsInUse'
  <2>1. ASSUME NEW u \in Transports
        PROVE  IF u \in connections'
               THEN ws'[u] \in Sockets /\ sock'[ws'[u]] \in {"open", "gone"}
               ELSE ws'[u] = 0
    <3>1. CASE u = t
      BY <3>1 DEF TypeOK
    <3>2. CASE u # t
      BY <3>2, <1>2 DEF SocketsInUse, TypeOK
    <3>3. QED
      BY <3>1, <3>2
  <2>2. QED
    BY <2>1 DEF SocketsInUse
<1>4. EveryTransportIsTimed'
  <2>1. k # 0
    BY DEF Sockets
  <2>2. ASSUME NEW u \in Transports
        PROVE  /\ tstate'[u] = "connected" =>
                     IsOpen(ws[u])' /\ "heartbeat" \in timers'[u]
               /\ tstate'[u] = "disconnected" => "reconnect" \in timers'[u]
               /\ u \notin connections' => timers'[u] \subseteq {"stray"}
    <3>1. CASE u = t
      BY <3>1, <2>1 DEF Rearm, IsOpen, TypeOK
    <3>2. CASE u # t
      <4>1. tstate'[u] = tstate[u] /\ timers'[u] = timers[u] /\ ws'[u] = ws[u]
        BY <3>2 DEF TypeOK
      <4>2. IsOpen(ws[u]) => IsOpen(ws[u])'
        <5> HIDE DEF Assign, RegInv
        <5>1. \A n \in Sockets : sock[n] = "open" => sock'[n] = "open"
          BY DEF TypeOK
        <5>2. ws[u] \in 0 .. MaxSockets
          BY DEF TypeOK
        <5>3. QED
          BY <4>1, <5>1, <5>2, RegistryAssumption DEF IsOpen, Sockets
      <4>3. QED
        BY <4>1, <4>2 DEF EveryTransportIsTimed
    <3>3. QED
      BY <3>1, <3>2
  <2>3. QED
    BY <2>2 DEF EveryTransportIsTimed
<1>5. ListensToItsSocket'
  <2>1. \A u \in connections : u # t => ws'[u] = ws[u]
    BY DEF TypeOK
  <2>2. ws'[t] = k
    BY DEF TypeOK
  <2>3. ASSUME NEW u \in connections', NEW v \in connections', ws'[u] = ws'[v]
        PROVE  u = v
    <3>1. connections' = connections \cup {t}
      OBVIOUS
    <3>2. CASE u = t
      BY <1>2, <2>1, <2>2, <2>3, <3>1, <3>2
    <3>3. CASE v = t
      BY <1>2, <2>1, <2>2, <2>3, <3>1, <3>3
    <3>4. CASE u # t /\ v # t
      <4>1. ws[u] = ws[v]
        BY <2>1, <2>3, <3>1, <3>4
      <4>2. u \in connections /\ v \in connections
        BY <3>1, <3>4
      <4>3. QED
        BY <4>1, <4>2 DEF ListensToItsSocket
    <3>5. QED
      BY <3>2, <3>3, <3>4
  <2>4. listening \ {<<ws[t], t>>} = {<<ws[u], u>> : u \in connections \ {t}}
    BY DEF ListensToItsSocket
  <2>5. listening' = {<<ws'[u], u>> : u \in connections'}
    BY <2>1, <2>2, <2>4 DEF MoveListeners, TypeOK
  <2>6. QED
    BY <2>3, <2>5 DEF ListensToItsSocket
<1>6. QED
  BY <1>1, <1>3, <1>4, <1>5

\* A transport that loses its socket, or hears nothing, waits with a timer.
LEMMA DisconnectKeepsRegular ==
    ASSUME TypeOK, RegInv, NEW t \in connections, NEW events \in 1 .. 2,
           Disconnect(t, events), UNCHANGED <<connections, ws, listening>>,
           \A u \in Transports \ {t} : tstate[u] = "connected" /\ IsOpen(ws[u]) => IsOpen(ws[u])',
           \A k \in Sockets : sock'[k] = sock[k] \/ sock'[k] = "gone"
    PROVE  RegInv'
<1> USE DEF RegInv, Disconnect
<1>1. t \in Transports
  BY DEF TypeOK
<1>2. RegistryIsExact'
  BY <1>1 DEF RegistryIsExact, TypeOK
<1>3. ListensToItsSocket'
  BY DEF ListensToItsSocket
<1>4. SocketsInUse'
  BY DEF SocketsInUse, TypeOK
<1>5. EveryTransportIsTimed'
  <2>1. tstate'[t] = "disconnected" /\ "reconnect" \in timers'[t]
    BY <1>1 DEF Disarm, TypeOK
  <2>2. \A u \in Transports \ {t} : tstate'[u] = tstate[u] /\ timers'[u] = timers[u]
    BY DEF TypeOK
  <2>3. QED
    BY <2>1, <2>2 DEF EveryTransportIsTimed
<1>6. QED
  BY <1>2, <1>3, <1>4, <1>5

\* Closing transports leaves those that stay as they were.
LEMMA CloseAllKeepsRegular ==
    ASSUME TypeOK, RegInv, NEW S \in SUBSET Transports, CloseAll(S)
    PROVE  RegInv'
<1> USE DEF RegInv, CloseAll
<1>1. RegistryIsExact'
  <2>1. connections' \subseteq connections
    OBVIOUS
  <2>2. Cardinality(connections') <= Cardinality(connections)
    BY <2>1, FewConnections, FS_Subset
  <2>3. Cardinality(connections) \in Nat /\ Cardinality(connections') \in Nat
    BY <2>1, FewConnections, FS_Subset, FS_CardinalityType
  <2>4. Cardinality(connections') <= MaxConnections
    BY <2>2, <2>3, RegistryAssumption DEF RegistryIsExact
  <2>5. connections' = {t \in Transports : tstate'[t] \in {"connected", "disconnected"}}
    BY DEF RegistryIsExact, TypeOK
  <2>6. QED
    BY <2>4, <2>5 DEF RegistryIsExact
<1>2. \A t \in connections' : ws'[t] = ws[t] /\ t \in connections
  BY DEF TypeOK
<1>3. ListensToItsSocket'
  <2>1. listening' = {<<ws[t], t>> : t \in connections'}
    <3>1. listening = {<<ws[t], t>> : t \in connections} /\ connections' = connections \ S
      BY DEF ListensToItsSocket
    <3>2. listening' = {l \in listening : l[2] \notin S}
      OBVIOUS
    <3> HIDE DEF RegInv, CloseAll
    <3>3. QED
      BY <3>1, <3>2
  <2>2. listening' = {<<ws'[t], t>> : t \in connections'}
    <3> HIDE DEF RegInv, CloseAll
    <3>1. \A l : l \in listening' => \E t \in connections' : l = <<ws'[t], t>>
      BY <2>1, <1>2
    <3>2. \A t \in connections' : <<ws'[t], t>> \in listening'
      BY <2>1, <1>2
    <3>3. QED
      BY <3>1, <3>2
  <2>3. \A t, u \in connections' : ws'[t] = ws'[u] => t = u
    BY <1>2 DEF ListensToItsSocket
  <2>4. QED
    BY <2>2, <2>3 DEF ListensToItsSocket
<1>4. SocketsInUse'
  BY DEF SocketsInUse, TypeOK
<1>5. EveryTransportIsTimed'
  <2>1. ASSUME NEW t \in Transports \ S, tstate[t] = "connected"
        PROVE  IsOpen(ws[t])'
    <3>1. t \in connections /\ IsOpen(ws[t])
      BY <2>1 DEF RegistryIsExact, EveryTransportIsTimed
    <3>2. ASSUME NEW u \in S PROVE ws[u] # ws[t]
      <4>1. CASE u \in connections
        BY <4>1, <3>1 DEF ListensToItsSocket
      <4>2. CASE u \notin connections
        BY <4>2, <3>1 DEF SocketsInUse, IsOpen
      <4>3. QED
        BY <4>1, <4>2
    <3>3. ws[t] \in Sockets /\ ws'[t] = ws[t]
      BY <3>1 DEF SocketsInUse
    <3>4. QED
      BY <3>1, <3>2, <3>3 DEF IsOpen
  <2>2. \A t \in S : tstate'[t] = "closed" /\ timers'[t] \subseteq {"stray"}
    BY DEF TypeOK, Timer
  <2>3. \A t \in Transports \ S : tstate'[t] = tstate[t] /\ timers'[t] = timers[t]
    OBVIOUS
  <2>4. QED
    BY <2>1, <2>2, <2>3 DEF EveryTransportIsTimed
<1>6. QED
  BY <1>1, <1>3, <1>4, <1>5

LEMMA StepKeepsRegular == TypeOK /\ TypeOK' /\ RegInv /\ [Next]_vars => RegInv'
<1> SUFFICES ASSUME TypeOK, TypeOK', RegInv, [Next]_vars PROVE RegInv'
  OBVIOUS
<1> USE DEF managerVars, transportVars, socketVars
<1>1. CASE Cleanup
  <2>1. connections \cap stale \in SUBSET Transports
    BY DEF TypeOK
  <2>2. QED
    BY <1>1, <2>1, CloseAllKeepsRegular DEF Cleanup
<1>2. ASSUME NEW k \in Sockets, sock[k] \in {"none", "upgrading"},
             \E state \in {"upgrading", "gone"} : sock' = [sock EXCEPT ![k] = state],
             UNCHANGED <<connections, tstate, ws, listening, timers>>
      PROVE  RegInv'
  <2>1. \A t \in connections : ws[t] # k
    BY <1>2 DEF RegInv, SocketsInUse, TypeOK
  <2>2. \A t \in connections : sock'[ws[t]] = sock[ws[t]]
    BY <1>2, <2>1 DEF RegInv, SocketsInUse, TypeOK
  <2>3. SocketsInUse'
    BY <1>2, <2>2 DEF RegInv, SocketsInUse, TypeOK
  <2>4. EveryTransportIsTimed'
    BY <1>2, <2>2 DEF RegInv, RegistryIsExact, EveryTransportIsTimed, IsOpen
  <2>5. QED
    BY <1>2, <2>3, <2>4 DEF RegInv, RegistryIsExact, ListensToItsSocket
<1>3. ASSUME NEW k \in Sockets, Upgrade(k) PROVE RegInv'
  BY <1>2, <1>3 DEF Upgrade
<1>4. ASSUME NEW k \in Sockets, OpenRefused(k) PROVE RegInv'
  BY <1>2, <1>4 DEF OpenRefused
<1>5. ASSUME NEW k \in Sockets, OpenAgain(k) PROVE RegInv'
  <2>1. wants[k] \in Transports /\ connections' = connections \cup {wants[k]}
    BY <1>5 DEF OpenAgain, TypeOK
  <2>2. Cardinality(connections') <= MaxConnections
    BY <1>5 DEF OpenAgain, RegInv, RegistryIsExact
  <2>3. QED
    BY <1>5, <2>1, <2>2, AssignKeepsRegular DEF OpenAgain
<1>6. ASSUME NEW k \in Sockets, NEW t \in Transports, OpenNew(k, t) PROVE RegInv'
  <2>1. connections' = connections \cup {t} /\ t \notin connections
    BY <1>6 DEF OpenNew, Register, RegInv, RegistryIsExact
  <2>2. Cardinality(connections') = Cardinality(connections) + 1
    BY <2>1, FewConnections, FS_AddElement
  <2>3. Cardinality(connections) \in Nat
    BY FewConnections, FS_CardinalityType
  <2>4. Cardinality(connections') <= MaxConnections
    BY <1>6, <2>2, <2>3, RegistryAssumption DEF OpenNew, Register, CanAccept
  <2>5. QED
    BY <1>6, <2>1, <2>4, AssignKeepsRegular DEF OpenNew
<1>7. ASSUME NEW k \in Sockets, SocketCloses(k) PROVE RegInv'
  <2>1. \A j \in Sockets : sock'[j] = sock[j] \/ sock'[j] = "gone"
    BY <1>7 DEF SocketCloses, TypeOK
  <2>2. CASE \E t \in Transports : <<k, t>> \in listening
    <3>1. PICK t \in Transports, events \in 1 .. 2 :
             <<k, t>> \in listening /\ Disconnect(t, events)
      BY <1>7, <2>2 DEF SocketCloses
    <3>2. t \in connections /\ ws[t] = k
      BY <3>1 DEF RegInv, ListensToItsSocket
    <3>3. \A u \in Transports \ {t} : tstate[u] = "connected" => u \in connections /\ ws[u] # k
      BY <3>2 DEF RegInv, RegistryIsExact, ListensToItsSocket
    <3>4. \A u \in Transports \ {t} :
             tstate[u] = "connected" /\ IsOpen(ws[u]) => IsOpen(ws[u])'
      BY <1>7, <3>3 DEF SocketCloses, IsOpen, TypeOK, RegInv, SocketsInUse
    <3>5. QED
      BY <1>7, <2>1, <3>1, <3>2, <3>4, DisconnectKeepsRegular DEF SocketCloses
  <2>3. CASE ~ \E t \in Transports : <<k, t>> \in listening
    <3>1. \A t \in connections : ws[t] # k
      BY <2>3 DEF RegInv, ListensToItsSocket, TypeOK
    <3>2. \A t \in connections : sock'[ws[t]] = sock[ws[t]]
      BY <1>7, <3>1 DEF SocketCloses, RegInv, SocketsInUse, TypeOK
    <3>3. UNCHANGED <<connections, tstate, ws, listening, timers>>
      BY <1>7, <2>3 DEF SocketCloses
    <3>4. SocketsInUse'
      BY <3>2, <3>3 DEF RegInv, SocketsInUse, TypeOK
    <3>5. EveryTransportIsTimed'
      BY <3>2, <3>3 DEF RegInv, RegistryIsExact, EveryTransportIsTimed, IsOpen
    <3>6. QED
      BY <3>3, <3>4, <3>5 DEF RegInv, RegistryIsExact, ListensToItsSocket
  <2>4. QED
    BY <2>2, <2>3
<1>8. ASSUME NEW t \in Transports, HeartbeatTimeout(t) PROVE RegInv'
  <2>1. CASE t \in connections
    BY <1>8, <2>1, DisconnectKeepsRegular DEF HeartbeatTimeout, IsOpen
  <2>2. t \in connections
    BY <1>8 DEF HeartbeatTimeout, RegInv, EveryTransportIsTimed
  <2>3. QED
    BY <2>1, <2>2
<1>9. ASSUME NEW k \in Sockets, NEW t \in Transports, Heartbeat(k, t) PROVE RegInv'
  <2>1. \A u \in Transports : /\ timers[u] \subseteq timers'[u]
                               /\ u \notin connections => timers'[u] = timers[u]
    BY <1>9 DEF Heartbeat, TypeOK, RegInv, ListensToItsSocket
  <2>2. EveryTransportIsTimed'
    BY <1>9, <2>1 DEF Heartbeat, RegInv, EveryTransportIsTimed, IsOpen
  <2>3. QED
    BY <1>9, <2>2 DEF Heartbeat, RegInv, RegistryIsExact, ListensToItsSocket, SocketsInUse
<1>10. ASSUME NEW t \in Transports, ReconnectTimeout(t) PROVE RegInv'
  BY <1>10, CloseAllKeepsRegular DEF ReconnectTimeout
<1>11. ASSUME UNCHANGED <<connections, tstate, ws, listening, timers, sock>> PROVE RegInv'
  BY <1>11 DEF RegInv, RegistryIsExact, ListensToItsSocket, EveryTransportIsTimed,
               SocketsInUse, IsOpen
<1>12. ASSUME NEW k \in Sockets, ClientVanishes(k) PROVE RegInv'
  BY <1>11, <1>12 DEF ClientVanishes
<1>13. ASSUME NEW t \in Transports, Send(t) \/ TimePasses(t) PROVE RegInv'
  BY <1>11, <1>13 DEF Send, TimePasses
<1>14. CASE UNCHANGED vars
  BY <1>11, <1>14 DEF vars
<1>15. QED
  BY <1>1, <1>3, <1>4, <1>5, <1>6, <1>7, <1>8, <1>9, <1>10, <1>12, <1>13, <1>14 DEF Next

LEMMA RegistryIsKept == Spec => []RegInv
BY InitIsRegular, StepKeepsRegular, RegistryTypes, PTL DEF Spec

\* However upgrades, reconnections, timers and cleanups interleave, the registry
\* holds exactly the transports that are alive, and never too many.
THEOREM RegistryAgrees == Spec => []RegistryIsExact
BY RegistryIsKept, PTL DEF RegInv

\* A transport listens to the socket it sends on, and shares it with no other.
THEOREM ListenersAgree == Spec => []ListensToItsSocket
BY RegistryIsKept, PTL DEF RegInv

\* No transport, connected or not, is without the timer that ends it.
THEOREM TransportsAreTimed == Spec => []EveryTransportIsTimed
BY RegistryIsKept, PTL DEF RegInv
-----------------------------------------------------------------------------
(* The order of what is sent                                               *)

\* All that transport t has sent or will send first.
Line(t) == passed[t] \o messageQueue[t]

Increasing(s) == \A i, j \in DOMAIN s : i < j => s[i] < s[j]

\* With SentInOrder: the next message made is later than all in the line.
OrderInv ==
    \A t \in Transports :
        /\ Increasing(Line(t))
        /\ \A i \in DOMAIN Line(t) : Line(t)[i] <= made[t]
        /\ IsOpen(ws[t]) => messageQueue[t] = <<>>

\* The order is kept where the line and the openness of the socket are.
LEMMA LineIsLeftAlone ==
    ASSUME NEW t \in Transports, OrderInv, Line(t)' = Line(t), made'[t] = made[t],
           IsOpen(ws[t])' => messageQueue'[t] = <<>>
    PROVE  /\ Increasing(Line(t))'
           /\ \A i \in DOMAIN Line(t)' : Line(t)'[i] <= made'[t]
           /\ IsOpen(ws[t])' => messageQueue'[t] = <<>>
BY DEF OrderInv, Increasing

LEMMA AppendLater ==
    ASSUME NEW s \in Seq(Nat), Increasing(s), NEW m \in Nat,
           \A i \in DOMAIN s : s[i] <= m
    PROVE  /\ Increasing(Append(s, m + 1))
           /\ \A i \in DOMAIN Append(s, m + 1) : Append(s, m + 1)[i] <= m + 1
<1> DEFINE r == Append(s, m + 1)
<1>1. /\ DOMAIN s = 1 .. Len(s) /\ DOMAIN r = 1 .. Len(s) + 1 /\ Len(s) \in Nat
      /\ \A i \in 1 .. Len(s) : r[i] = s[i] /\ s[i] \in Nat
      /\ r[Len(s) + 1] = m + 1
  <2>1. Len(s) \in Nat /\ DOMAIN s = 1 .. Len(s) /\ \A i \in 1 .. Len(s) : s[i] \in Nat
    OBVIOUS
  <2>2. m + 1 \in Nat
    OBVIOUS
  <2>3. r \in Seq(Nat) /\ Len(r) = Len(s) + 1
    BY <2>2
  <2>4. r[Len(s) + 1] = m + 1 /\ \A i \in 1 .. Len(s) : r[i] = s[i]
    BY <2>1, <2>2
  <2>5. QED
    BY <2>1, <2>3, <2>4
<1> HIDE DEF r
<1>2. \A i, j \in DOMAIN r : i < j => r[i] < r[j]
  BY <1>1 DEF Increasing
<1>3. \A i \in DOMAIN r : r[i] <= m + 1
  BY <1>1
<1>4. QED
  BY <1>2, <1>3 DEF r, Increasing

LEMMA SendsAreNumbers ==
    ASSUME NEW p \in Seq(1 .. MaxSends)
    PROVE  p \in Seq(Nat)
<1>1. 1 .. MaxSends \subseteq Nat
  BY RegistryAssumption
<1>2. QED
  BY <1>1, SeqMonotonic

LEMMA ConcatAppend ==
    ASSUME NEW p \in Seq(Nat), NEW q \in Seq(Nat), NEW n \in Nat
    PROVE  /\ p \o q \in Seq(Nat)
           /\ p \o <<>> = p
           /\ p \o Append(q, n) = Append(p \o q, n)
<1>1. p \o q \in Seq(Nat) /\ p \o <<>> = p
  BY ConcatProperties, ConcatEmptySeq
<1>2. <<n>> \in Seq(Nat)
  OBVIOUS
<1>3. Append(q, n) = q \o <<n>> /\ Append(p \o q, n) = (p \o q) \o <<n>>
  BY <1>1, AppendIsConcat
<1>4. p \o (q \o <<n>>) = (p \o q) \o <<n>>
  BY <1>2, ConcatAssociative
<1>5. QED
  BY <1>1, <1>3, <1>4

LEMMA PrefixIncreases ==
    ASSUME NEW p \in Seq(1 .. MaxSends), NEW q \in Seq(1 .. MaxSends), Increasing(p \o q),
           NEW m, \A i \in DOMAIN (p \o q) : (p \o q)[i] <= m
    PROVE  Increasing(p) /\ \A i \in DOMAIN p : p[i] <= m
<1>1. \A i \in DOMAIN p : i \in DOMAIN (p \o q) /\ (p \o q)[i] = p[i]
  OBVIOUS
<1>2. QED
  BY <1>1 DEF Increasing

LEMMA InitIsOrdered == Init => OrderInv
<1> SUFFICES ASSUME Init, NEW t \in Transports
             PROVE  Line(t) = <<>> /\ messageQueue[t] = <<>>
  BY DEF OrderInv, Increasing
<1>1. QED
  BY DEF Init, Line

LEMMA AssignKeepsOrder ==
    ASSUME TypeOK, RegInv, OrderInv,
           NEW t \in Transports, NEW k \in Sockets, sock[k] = "upgrading",
           sock' = [sock EXCEPT ![k] = "open"], Assign(t, k), UNCHANGED made
    PROVE  OrderInv'
<1> USE DEF Assign, FlushQueue
<1>1. ASSUME NEW u \in Transports
      PROVE  Line(u)' = Line(u) /\ (IsOpen(ws[u])' => messageQueue'[u] = <<>>)
  <2>1. CASE u = t
    <3>1. passed[t] \in Seq(Nat) /\ messageQueue[t] \in Seq(Nat)
      BY SendsAreNumbers DEF TypeOK
    <3>2. messageQueue'[t] = <<>> /\ passed'[t] = passed[t] \o messageQueue[t]
      BY DEF TypeOK
    <3>3. Line(t)' = (passed[t] \o messageQueue[t]) \o <<>>
      BY <3>2 DEF Line
    <3>4. (passed[t] \o messageQueue[t]) \o <<>> = passed[t] \o messageQueue[t]
      BY <3>1, ConcatAppend
    <3>5. QED
      BY <2>1, <3>2, <3>3, <3>4 DEF Line
  <2>2. CASE u # t
    <3>1. ws[u] # k /\ ws'[u] = ws[u]
      <4>1. ws'[u] = ws[u]
        BY <2>2 DEF TypeOK
      <4>2. ws[u] # k
        BY DEF RegInv, SocketsInUse, Sockets
      <4>3. QED
        BY <4>1, <4>2
    <3>2. messageQueue'[u] = messageQueue[u] /\ passed'[u] = passed[u]
      BY <2>2 DEF TypeOK
    <3>3. IsOpen(ws[u])' => IsOpen(ws[u])
      <4>1. ws[u] # 0 => ws[u] \in Sockets
        BY DEF TypeOK, Sockets
      <4>2. ws[u] # 0 => sock'[ws[u]] = sock[ws[u]]
        BY <4>1, <3>1 DEF TypeOK
      <4>3. QED
        BY <3>1, <4>2 DEF IsOpen
    <3>4. QED
      BY <3>2, <3>3 DEF Line, OrderInv
  <2>3. QED
    BY <2>1, <2>2
<1>2. QED
  BY <1>1, LineIsLeftAlone DEF OrderInv

LEMMA CloseAllKeepsOrder ==
    ASSUME TypeOK, RegInv, OrderInv, NEW S \in SUBSET Transports, CloseAll(S),
           UNCHANGED <<made, passed>>
    PROVE  OrderInv'
<1> SUFFICES ASSUME NEW t \in Transports
             PROVE  /\ Increasing(Line(t))'
                    /\ \A i \in DOMAIN Line(t)' : Line(t)'[i] <= made'[t]
                    /\ IsOpen(ws[t])' => messageQueue'[t] = <<>>
  BY DEF OrderInv
<1>1. CASE t \in S
  <2>1. messageQueue'[t] = <<>>
    BY <1>1 DEF CloseAll
  <2>2. Line(t)' = passed[t]
    BY <2>1 DEF Line, TypeOK
  <2>3. Increasing(passed[t]) /\ \A i \in DOMAIN passed[t] : passed[t][i] <= made[t]
    BY PrefixIncreases DEF OrderInv, Line, TypeOK
  <2>4. QED
    BY <2>1, <2>2, <2>3 DEF Increasing
<1>2. CASE t \notin S
  <2>1. Line(t)' = Line(t) /\ messageQueue'[t] = messageQueue[t] /\ ws'[t] = ws[t]
    BY <1>2 DEF CloseAll, Line
  <2>2. IsOpen(ws[t])' => IsOpen(ws[t])
    BY <2>1 DEF CloseAll, IsOpen, TypeOK, Sockets
  <2>3. QED
    BY <2>1, <2>2, LineIsLeftAlone DEF OrderInv
<1>3. QED
  BY <1>1, <1>2

LEMMA SendKeepsOrder ==
    ASSUME TypeOK, OrderInv, NEW t \in Transports, Send(t)
    PROVE  OrderInv'
<1> DEFINE n == made[t] + 1
<1>1. made'[t] = n /\ n \in 1 .. MaxSends /\ made[t] \in Nat
  <2>1. made[t] \in 0 .. MaxSends /\ made[t] < MaxSends
    BY DEF Send, TypeOK
  <2>2. made'[t] = n
    BY DEF Send, TypeOK
  <2>3. QED
    BY <2>1, <2>2, RegistryAssumption
<1>2. UNCHANGED <<ws, sock>>
  BY DEF Send, socketVars
<1>3. ASSUME NEW u \in Transports, u # t
      PROVE  /\ Line(u)' = Line(u) /\ made'[u] = made[u]
             /\ messageQueue'[u] = messageQueue[u]
  BY <1>3 DEF Send, Line, TypeOK
<1>4. passed[t] \in Seq(Nat) /\ messageQueue[t] \in Seq(Nat) /\ n \in Nat
  BY <1>1, SendsAreNumbers DEF TypeOK
<1>5. IsOpen(ws[t])' => messageQueue'[t] = <<>>
  BY <1>2 DEF Send, OrderInv, IsOpen
<1>6. Line(t)' = Append(Line(t), n) \/ Line(t)' = Line(t)
  <2>1. CASE IsOpen(ws[t])
    <3>1. passed'[t] = Append(passed[t], n) /\ messageQueue'[t] = <<>> /\ messageQueue[t] = <<>>
      BY <1>1, <2>1 DEF Send, TypeOK, OrderInv
    <3>2. Append(passed[t], n) \in Seq(Nat)
      BY <1>4
    <3>3. /\ Append(passed[t], n) \o <<>> = Append(passed[t], n)
          /\ passed[t] \o <<>> = passed[t]
      BY <1>4, <3>2, ConcatAppend
    <3> HIDE DEF n
    <3>4. QED
      BY <3>1, <3>3 DEF Line
  <2>2. CASE ~IsOpen(ws[t])
    <3>1. passed'[t] = passed[t] /\ messageQueue'[t] = Enqueue(messageQueue[t], n)
      BY <1>1, <2>2 DEF Send, TypeOK
    <3>2. passed[t] \o Append(messageQueue[t], n) = Append(passed[t] \o messageQueue[t], n)
      BY <1>1, <1>4, ConcatAppend
    <3>3. Enqueue(messageQueue[t], n) \in {Append(messageQueue[t], n), messageQueue[t]}
      BY DEF Enqueue
    <3> HIDE DEF n
    <3>4. QED
      BY <3>1, <3>2, <3>3 DEF Line
  <2>3. QED
    BY <2>1, <2>2
<1>7. /\ Increasing(Line(t))'
      /\ \A i \in DOMAIN Line(t)' : Line(t)'[i] <= made'[t]
  <2>1. Line(t) \in Seq(Nat)
    BY <1>4, ConcatAppend DEF Line
  <2>2. CASE Line(t)' = Append(Line(t), n)
    BY <1>1, <2>1, <2>2, AppendLater DEF OrderInv, Increasing
  <2>3. CASE Line(t)' = Line(t)
    <3>1. \A i \in DOMAIN Line(t) : Line(t)[i] \in Nat
      BY <2>1
    <3>2. QED
      BY <1>1, <2>3, <3>1 DEF OrderInv, Increasing
  <2>4. QED
    BY <1>6, <2>2, <2>3
<1>8. QED
  <2>1. ASSUME NEW u \in Transports, u # t
        PROVE  IsOpen(ws[u])' => messageQueue'[u] = <<>>
    BY <1>2, <1>3, <2>1 DEF OrderInv, IsOpen
  <2>2. QED
    BY <1>3, <1>5, <1>7, <2>1, LineIsLeftAlone DEF OrderInv

LEMMA StepKeepsOrder == TypeOK /\ RegInv /\ OrderInv /\ [Next]_vars => OrderInv'
<1> SUFFICES ASSUME TypeOK, RegInv, OrderInv, [Next]_vars PROVE OrderInv'
  OBVIOUS
<1> USE DEF managerVars, transportVars, socketVars
<1>1. CASE Cleanup
  <2>1. connections \cap stale \in SUBSET Transports
    BY DEF TypeOK
  <2>2. QED
    BY <1>1, <2>1, CloseAllKeepsOrder DEF Cleanup
<1>2. ASSUME NEW t \in Transports, ReconnectTimeout(t) PROVE OrderInv'
  BY <1>2, CloseAllKeepsOrder DEF ReconnectTimeout
<1>3. ASSUME NEW k \in Sockets, NEW t \in Transports, OpenNew(k, t) PROVE OrderInv'
  BY <1>3, AssignKeepsOrder DEF OpenNew
<1>4. ASSUME NEW k \in Sockets, OpenAgain(k) PROVE OrderInv'
  <2>1. wants[k] \in Transports
    BY <1>4 DEF OpenAgain, TypeOK
  <2>2. QED
    BY <1>4, <2>1, AssignKeepsOrder DEF OpenAgain
\* The other steps open no socket and leave all lines alone.
<1>5. ASSUME UNCHANGED <<ws, messageQueue, made, passed>>,
             \A k \in Sockets : sock'[k] = "open" => sock[k] = "open"
      PROVE  OrderInv'
  <2>1. \A t \in Transports : Line(t)' = Line(t) /\ (IsOpen(ws[t])' => IsOpen(ws[t]))
    BY <1>5 DEF Line, IsOpen, TypeOK, Sockets
  <2>2. QED
    BY <1>5, <2>1, LineIsLeftAlone DEF OrderInv
<1>6. ASSUME NEW k \in Sockets,
             Upgrade(k) \/ OpenRefused(k) \/ SocketCloses(k) \/ ClientVanishes(k)
      PROVE  OrderInv'
  <2>1. \A j \in Sockets : sock'[j] = "open" => sock[j] = "open"
    BY <1>6 DEF Upgrade, OpenRefused, SocketCloses, ClientVanishes, TypeOK
  <2>2. QED
    BY <1>5, <1>6, <2>1 DEF Upgrade, OpenRefused, SocketCloses, ClientVanishes
<1>7. ASSUME NEW k \in Sockets, NEW t \in Transports, Heartbeat(k, t) PROVE OrderInv'
  BY <1>5, <1>7 DEF Heartbeat
<1>8. ASSUME NEW t \in Transports, HeartbeatTimeout(t) \/ TimePasses(t) PROVE OrderInv'
  BY <1>5, <1>8 DEF HeartbeatTimeout, TimePasses
<1>9. CASE UNCHANGED vars
  BY <1>5, <1>9 DEF vars
<1>10. QED
  BY <1>1, <1>2, <1>3, <1>4, <1>6, <1>7, <1>8, <1>9, SendKeepsOrder DEF Next

\* What a transport sends over all its sockets is in the order in which it was
\* given it, for any number of reconnections and any length of the queue.
THEOREM SendsAreInOrder == Spec => []SentInOrder
<1>1. OrderInv => SentInOrder
  BY DEF OrderInv, SentInOrder, Increasing, Line
<1>2. QED
  BY <1>1, InitIsOrdered, StepKeepsOrder, RegistryTypes, RegistryIsKept, PTL DEF Spec
=============================================================================
