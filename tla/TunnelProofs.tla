---------------------------- MODULE TunnelProofs ----------------------------
(***************************************************************************)
(* Theorems about the TCP tunnel, for every number of calls, sessions and  *)
(* chunks and every limit.                                                 *)
(***************************************************************************)
EXTENDS TunnelInvariant, TLAPS, FiniteSetTheorems, SequenceTheorems

-----------------------------------------------------------------------------
(* The operators the actions are built from                                *)

\* The messages the code makes are messages.
LEMMA MessagesAreMessages ==
    ASSUME NEW id \in Ids, NEW t \in MessageType
    PROVE  Msg(t, id) \in Message
BY WireAssumption DEF Msg, Message

\* Nothing queued is within every limit.
LEMMA NothingQueued == <<>> \in Seq(Message) /\ Len(<<>>) = 0 /\ Len(<<>>) <= MaxQueue
BY WireAssumption

\* FirstOf keeps to the limit and invents nothing.
LEMMA FirstOfIsBounded ==
    ASSUME NEW q \in Seq(Message), NEW n \in Nat
    PROVE  FirstOf(q, n) \in Seq(Message) /\ Len(FirstOf(q, n)) <= n
<1>1. CASE Len(q) <= n
    BY <1>1 DEF FirstOf
<1>2. CASE ~(Len(q) <= n)
    <2>1. n \in 0 .. Len(q)
        BY <1>2
    <2>2. SubSeq(q, 1, n) \in Seq(Message) /\ Len(SubSeq(q, 1, n)) = n
        BY <2>1
    <2> QED
        BY <1>2, <2>2 DEF FirstOf
<1> QED
    BY <1>1, <1>2

\* send() keeps the channels and the queue well-formed, and the queue within
\* its limit, whichever way it goes.
LEMMA SendIsTyped ==
    ASSUME TypeOK, NEW ms \in Seq(Message), Send(ms)
    PROVE  /\ up' \in [Sessions -> Seq(Message)]
           /\ queue' \in Seq(Message)
           /\ Len(queue') <= MaxQueue
<1> USE DEF TypeOK, WireTypeOK, ClientTypeOK
<1>1. CASE isClosed
    BY <1>1 DEF Send
<1>2. CASE ~isClosed /\ cws
    <2>1. sess \in Sessions
        BY <1>2, WireAssumption DEF Sessions
    <2>2. up[sess] \o ms \in Seq(Message)
        BY <2>1
    <2> QED
        BY <1>2, <2>1, <2>2 DEF Send
<1>3. CASE ~isClosed /\ ~cws
    <2>1. queue \o ms \in Seq(Message)
        OBVIOUS
    <2> QED
        BY <1>3, <2>1, FirstOfIsBounded, WireAssumption DEF Send
<1> QED
    BY <1>1, <1>2, <1>3

\* send() of the transport keeps the channels well-formed.
LEMMA ReplyIsTyped ==
    ASSUME TypeOK, NEW s \in Sessions, NEW m \in Message, Reply(s, m)
    PROVE  down' \in [Sessions -> Seq(Message)]
BY DEF TypeOK, WireTypeOK, Reply

\* So does taking a message, at either end.
LEMMA TakeIsTyped ==
    ASSUME TypeOK, NEW m \in Message, Take(m)
    PROVE  sess \in Sessions /\ down' \in [Sessions -> Seq(Message)]
<1> USE DEF TypeOK, WireTypeOK, Take
<1>1. sess \in Sessions
    BY WireAssumption DEF Sessions
<1>2. Tail(down[sess]) \in Seq(Message)
    BY <1>1
<1> QED
    BY <1>1, <1>2

LEMMA ReceiveIsTyped ==
    ASSUME TypeOK, NEW s \in Sessions, NEW m \in Message, Receive(s, m)
    PROVE  up' \in [Sessions -> Seq(Message)]
<1>1. Tail(up[s]) \in Seq(Message)
    BY DEF TypeOK, WireTypeOK, Receive
<1> QED
    BY <1>1 DEF TypeOK, WireTypeOK, Receive

\* close() of a connection keeps the channels and the map well-formed.
LEMMA CloseIsTyped ==
    ASSUME TypeOK, NEW s \in Sessions, NEW id \in Ids, Close(s, id)
    PROVE  /\ down' \in [Sessions -> Seq(Message)]
           /\ conns' \in [Sessions -> SUBSET Ids]
<1>1. Msg("TCP_CLOSE", id) \in Message
    BY MessagesAreMessages DEF MessageType
<1>2. CASE id \in conns[s]
    <2>1. Reply(s, Msg("TCP_CLOSE", id)) /\ conns' = [conns EXCEPT ![s] = @ \ {id}]
        BY <1>2 DEF Close
    <2>2. down' \in [Sessions -> Seq(Message)]
        BY <1>1, <2>1, ReplyIsTyped
    <2> QED
        BY <2>1, <2>2 DEF TypeOK, ProxyTypeOK
<1>3. CASE id \notin conns[s]
    BY <1>3 DEF Close, TypeOK, WireTypeOK, ProxyTypeOK
<1> QED
    BY <1>2, <1>3

\* Taking entries out of the pending map keeps it within its limit.
LEMMA FewerPending ==
    ASSUME TypeOK, NEW S, S \subseteq pending
    PROVE  S \subseteq Ids /\ IsFiniteSet(S) /\ Cardinality(S) <= MaxPending
<1>1. IsFiniteSet(Ids)
    BY FS_Interval, WireAssumption DEF Ids
<1>2. IsFiniteSet(pending)
    BY <1>1, FS_Subset DEF TypeOK, ClientTypeOK
<1>3. IsFiniteSet(S) /\ Cardinality(S) <= Cardinality(pending)
    BY <1>2, FS_Subset
<1>4. Cardinality(S) \in Nat /\ Cardinality(pending) \in Nat
    BY <1>2, <1>3, FS_CardinalityType
<1> QED
    BY <1>3, <1>4, WireAssumption DEF TypeOK, ClientTypeOK

-----------------------------------------------------------------------------
(* Types                                                                   *)

LEMMA InitIsTyped == Init => TypeOK
<1> SUFFICES ASSUME Init PROVE TypeOK
    OBVIOUS
<1>1. Cardinality({}) = 0
    BY FS_EmptySet
<1>2. WireTypeOK
    <2>1. up \in [Sessions -> Seq(Message)] /\ down \in [Sessions -> Seq(Message)]
        BY NothingQueued DEF Init, WireInit
    <2>2. sess \in 0 .. MaxSessions
        BY WireAssumption DEF Init, WireInit
    <2>3. cws \in BOOLEAN /\ ~cws
        BY Zenon DEF Init, WireInit
    <2>4. sws \in [Sessions -> BOOLEAN]
        BY DEF Init, WireInit
    <2> QED
        BY <2>1, <2>2, <2>3, <2>4 DEF WireTypeOK
<1>3. 0 <= MaxPending /\ 0 <= MaxQueue /\ Len(<<>>) = 0
    BY WireAssumption
<1>4. nextId \in 1 .. MaxCalls + 1 /\ home \in [Ids -> 0 .. MaxSessions]
    BY WireAssumption DEF Init, ClientInit
<1>5. <<>> \in Seq(Message) /\ <<>> \in Seq(0 .. MaxChunks) /\ 0 \in 0 .. MaxChunks
    BY WireAssumption
<1>6. rcvd \in [Ids -> Seq(0 .. MaxChunks)] /\ sent \in [Ids -> 0 .. MaxChunks]
    BY <1>5 DEF Init, ClientInit
<1>7. ClientTypeOK
    BY <1>1, <1>3, <1>4, <1>5, <1>6
    DEF Init, ClientInit, ClientTypeOK, CallState, ReaderState
<1>8. /\ produced \in [Sessions -> [Ids -> 0 .. MaxChunks]]
      /\ written \in [Sessions -> [Ids -> Seq(0 .. MaxChunks)]]
    BY <1>5 DEF Init, ProxyInit
<1>9. ProxyTypeOK
    BY <1>8 DEF Init, ProxyInit, ProxyTypeOK, TransportState, TaskState
<1> QED
    BY <1>2, <1>7, <1>9 DEF TypeOK

\* The client's own steps preserve the types, one case per action.
LEMMA ClientStepIsTyped ==
    ASSUME TypeOK, ClientNext, UNCHANGED proxyVars
    PROVE  TypeOK'
<1> USE DEF MessageType
<1>p. ProxyTypeOK'
    BY DEF TypeOK, ProxyTypeOK, proxyVars
<1> DEFINE Typed == WireTypeOK' /\ ClientTypeOK'
<1> SUFFICES Typed
    BY <1>p DEF TypeOK
<1>1. CASE Connect
    <2>1. nextId \in Ids
        BY <1>1, WireAssumption DEF Connect, TypeOK, ClientTypeOK, Ids
    <2>2. Msg("TCP_CONNECT", nextId) \in Message
        BY <2>1, MessagesAreMessages
    <2>3. <<Msg("TCP_CONNECT", nextId)>> \in Seq(Message)
        BY <2>2
    <2>4. /\ up' \in [Sessions -> Seq(Message)]
          /\ queue' \in Seq(Message) /\ Len(queue') <= MaxQueue
        BY <1>1, <2>3, SendIsTyped DEF Connect
    <2>5. IsFiniteSet(pending) /\ Cardinality(pending) \in Nat
        BY FewerPending, FS_CardinalityType
    <2>6. Cardinality(pending \cup {nextId}) =
              IF nextId \in pending THEN Cardinality(pending) ELSE Cardinality(pending) + 1
        BY <2>5, FS_AddElement
    <2>7. Cardinality(pending) < MaxPending /\ pending' = pending \cup {nextId}
        BY <1>1 DEF Connect
    <2>8. Cardinality(pending') <= MaxPending
        BY <2>5, <2>6, <2>7, WireAssumption
    <2>9. sess \in Sessions
        BY <1>1, WireAssumption DEF Connect, TypeOK, WireTypeOK, Sessions
    <2>10. nextId' \in 1 .. MaxCalls + 1 /\ home' \in [Ids -> 0 .. MaxSessions]
        BY <1>1, <2>1, <2>9, WireAssumption DEF Connect, TypeOK, ClientTypeOK, Ids, Sessions
    <2>11. call' \in [Ids -> CallState] /\ reader' \in [Ids -> ReaderState]
        BY <1>1, <2>1 DEF Connect, TypeOK, ClientTypeOK, CallState, ReaderState
    <2> QED
        BY <1>1, <2>1, <2>4, <2>7, <2>8, <2>10, <2>11
        DEF Connect, TypeOK, WireTypeOK, ClientTypeOK
<1>2. ASSUME NEW id \in Ids, RequestTimeout(id) PROVE Typed
    <2>1. <<Msg("TCP_CLOSE", id)>> \in Seq(Message)
        BY MessagesAreMessages
    <2>2. /\ up' \in [Sessions -> Seq(Message)]
          /\ queue' \in Seq(Message) /\ Len(queue') <= MaxQueue
        BY <1>2, <2>1, SendIsTyped DEF RequestTimeout
    <2>3. pending' \subseteq Ids /\ Cardinality(pending') <= MaxPending
        BY <1>2, FewerPending DEF RequestTimeout
    <2> QED
        BY <1>2, <2>2, <2>3
        DEF RequestTimeout, TypeOK, WireTypeOK, ClientTypeOK, CallState
<1>3. ASSUME NEW id \in Ids, Cancel(id) PROVE Typed
    <2>1. <<Msg("TCP_CLOSE", id)>> \in Seq(Message)
        BY MessagesAreMessages
    <2>2. /\ up' \in [Sessions -> Seq(Message)]
          /\ queue' \in Seq(Message) /\ Len(queue') <= MaxQueue
        BY <1>3, <2>1, SendIsTyped DEF Cancel
    <2>3. pending' \subseteq Ids /\ Cardinality(pending') <= MaxPending
        BY <1>3, FewerPending DEF Cancel
    <2> QED
        BY <1>3, <2>2, <2>3
        DEF Cancel, TypeOK, WireTypeOK, ClientTypeOK, ReaderState
<1>4. ASSUME NEW id \in Ids, Write(id) PROVE Typed
    <2>1. sent[id] + 1 \in 0 .. MaxChunks
        BY <1>4, WireAssumption DEF Write, TypeOK, ClientTypeOK
    <2>2. DataMsg(id, sent[id] + 1) \in Message
        BY <2>1 DEF DataMsg, Message
    <2>3. <<DataMsg(id, sent[id] + 1)>> \in Seq(Message)
        BY <2>2
    <2>4. /\ up' \in [Sessions -> Seq(Message)]
          /\ queue' \in Seq(Message) /\ Len(queue') <= MaxQueue
        BY <1>4, <2>3, SendIsTyped DEF Write
    <2> QED
        BY <1>4, <2>1, <2>4 DEF Write, TypeOK, WireTypeOK, ClientTypeOK
<1>5. ASSUME NEW id \in Ids, CloseWriter(id) PROVE Typed
    <2>1. <<Msg("TCP_CLOSE", id)>> \in Seq(Message)
        BY MessagesAreMessages
    <2>2. /\ up' \in [Sessions -> Seq(Message)]
          /\ queue' \in Seq(Message) /\ Len(queue') <= MaxQueue
        BY <1>5, <2>1, SendIsTyped DEF CloseWriter
    <2> QED
        BY <1>5, <2>2 DEF CloseWriter, TypeOK, WireTypeOK, ClientTypeOK
<1>6. CASE Reap
    <2>1. PICK oldest \in Ids :
              LET stale == {id \in pending : id <= oldest} IN
              /\ pending' = pending \ stale
              /\ call' = [id \in Ids |-> IF id \in stale /\ call[id] = "waiting"
                                         THEN "failed" ELSE call[id]]
              /\ \E l \in Listing(stale) :
                     Send([k \in DOMAIN l |-> Msg("TCP_CLOSE", l[k])])
        BY <1>6 DEF Reap
    <2> DEFINE stale == {id \in pending : id <= oldest}
    <2>2. PICK l \in Listing(stale) : Send([k \in DOMAIN l |-> Msg("TCP_CLOSE", l[k])])
        BY <2>1
    <2>3. stale \subseteq Ids /\ IsFiniteSet(stale) /\ Cardinality(stale) \in Nat
        BY FewerPending, FS_CardinalityType
    <2>4. l \in [1 .. Cardinality(stale) -> Ids]
        BY <2>2, <2>3 DEF Listing
    <2>5. \A k \in DOMAIN l : Msg("TCP_CLOSE", l[k]) \in Message
        BY <2>4, MessagesAreMessages
    <2> DEFINE ms == [k \in DOMAIN l |-> Msg("TCP_CLOSE", l[k])]
               n == Cardinality(stale)
    <2>6. ms \in [1 .. n -> Message]
        BY <2>4, <2>5
    <2>7. ms \in Seq(Message)
        <3> HIDE DEF ms, n
        <3>1. n \in Nat
            BY <2>3 DEF n
        <3> QED
            BY <2>6, <3>1, SeqDef
    <2>8. /\ up' \in [Sessions -> Seq(Message)]
          /\ queue' \in Seq(Message) /\ Len(queue') <= MaxQueue
        BY <2>2, <2>7, SendIsTyped
    <2>9. pending' \subseteq Ids /\ Cardinality(pending') <= MaxPending
        BY <2>1, FewerPending
    <2>10. call' \in [Ids -> CallState]
        BY <2>1 DEF TypeOK, ClientTypeOK, CallState
    <2> QED
        BY <1>6, <2>8, <2>9, <2>10 DEF Reap, TypeOK, WireTypeOK, ClientTypeOK
<1>7. CASE NoHandler
    <2>1. PICK m \in Message :
              /\ Take(m)
              /\ \/ Send(<<Msg("TCP_CLOSE", m.id)>>)
                 \/ UNCHANGED <<queue, up>>
        BY <1>7 DEF NoHandler
    <2>2. <<Msg("TCP_CLOSE", m.id)>> \in Seq(Message)
        BY MessagesAreMessages DEF Message
    <2>3. /\ up' \in [Sessions -> Seq(Message)]
          /\ queue' \in Seq(Message) /\ Len(queue') <= MaxQueue
        BY <2>1, <2>2, SendIsTyped DEF TypeOK, WireTypeOK, ClientTypeOK
    <2>4. down' \in [Sessions -> Seq(Message)]
        BY <2>1, TakeIsTyped
    <2> QED
        BY <1>7, <2>3, <2>4 DEF NoHandler, TypeOK, WireTypeOK, ClientTypeOK
<1>8. CASE ConnectAck
    <2>1. PICK m \in Message :
              /\ Take(m)
              /\ timer' = timer \ {m.id}
              /\ IF call[m.id] = "waiting"
                 THEN /\ call' = [call EXCEPT ![m.id] = "connected"]
                      /\ writing' = [writing EXCEPT ![m.id] = TRUE]
                 ELSE UNCHANGED <<call, writing>>
        BY <1>8 DEF ConnectAck
    <2>2. down' \in [Sessions -> Seq(Message)]
        BY <2>1, TakeIsTyped
    <2>3. call' \in [Ids -> CallState] /\ writing' \in [Ids -> BOOLEAN]
        BY <2>1 DEF TypeOK, ClientTypeOK, CallState
    <2> QED
        BY <1>8, <2>1, <2>2, <2>3 DEF ConnectAck, TypeOK, WireTypeOK, ClientTypeOK
<1>9. CASE StreamData
    <2>1. PICK m \in Message :
              /\ Take(m)
              /\ IF reader[m.id] = "open"
                 THEN /\ rcvd' = [rcvd EXCEPT ![m.id] = Append(@, m.chunk)]
                      /\ UNCHANGED <<queue, up, pending>>
                 ELSE /\ pending' = pending \ {m.id}
                      /\ Send(<<Msg("TCP_CLOSE", m.id)>>)
                      /\ UNCHANGED rcvd
        BY <1>9 DEF StreamData
    <2>2. <<Msg("TCP_CLOSE", m.id)>> \in Seq(Message)
        BY MessagesAreMessages DEF Message
    <2>3. /\ up' \in [Sessions -> Seq(Message)]
          /\ queue' \in Seq(Message) /\ Len(queue') <= MaxQueue
        BY <2>1, <2>2, SendIsTyped DEF TypeOK, WireTypeOK, ClientTypeOK
    <2>4. down' \in [Sessions -> Seq(Message)]
        BY <2>1, TakeIsTyped
    <2>5. pending' \subseteq Ids /\ Cardinality(pending') <= MaxPending
        BY <2>1, FewerPending
    <2>6. Append(rcvd[m.id], m.chunk) \in Seq(0 .. MaxChunks)
        BY DEF Message, TypeOK, ClientTypeOK
    <2>7. rcvd' \in [Ids -> Seq(0 .. MaxChunks)]
        BY <2>1, <2>6 DEF TypeOK, ClientTypeOK
    <2> QED
        BY <1>9, <2>3, <2>4, <2>5, <2>7 DEF StreamData, TypeOK, WireTypeOK, ClientTypeOK
<1>10. CASE StreamClose
    <2>1. PICK m \in Message :
              /\ Take(m)
              /\ reader' = [reader EXCEPT ![m.id] = IF @ = "open" THEN "closed" ELSE @]
              /\ pending' = pending \ {m.id}
        BY <1>10 DEF StreamClose
    <2>2. down' \in [Sessions -> Seq(Message)]
        BY <2>1, TakeIsTyped
    <2>3. pending' \subseteq Ids /\ Cardinality(pending') <= MaxPending
        BY <2>1, FewerPending
    <2>4. reader' \in [Ids -> ReaderState]
        BY <2>1 DEF TypeOK, ClientTypeOK, ReaderState
    <2> QED
        BY <1>10, <2>2, <2>3, <2>4 DEF StreamClose, TypeOK, WireTypeOK, ClientTypeOK
<1>11. CASE StreamError
    <2>1. PICK m \in Message :
              /\ Take(m)
              /\ reader' = [reader EXCEPT ![m.id] = IF @ = "open" THEN "errored" ELSE @]
              /\ timer' = timer \ {m.id}
              /\ call' = [call EXCEPT ![m.id] = IF @ = "waiting" THEN "failed" ELSE @]
              /\ pending' = pending \ {m.id}
        BY <1>11 DEF StreamError
    <2>2. down' \in [Sessions -> Seq(Message)]
        BY <2>1, TakeIsTyped
    <2>3. pending' \subseteq Ids /\ Cardinality(pending') <= MaxPending
        BY <2>1, FewerPending
    <2>4. reader' \in [Ids -> ReaderState] /\ call' \in [Ids -> CallState]
        BY <2>1 DEF TypeOK, ClientTypeOK, ReaderState, CallState
    <2> QED
        BY <1>11, <2>1, <2>2, <2>3, <2>4 DEF StreamError, TypeOK, WireTypeOK, ClientTypeOK
<1>12. ASSUME HandleDisconnect
       PROVE  /\ cstate' \in {"connected", "disconnected"}
              /\ queue' \in Seq(Message) /\ Len(queue') <= MaxQueue
              /\ reader' \in [Ids -> ReaderState] /\ call' \in [Ids -> CallState]
              /\ timer' \subseteq Ids /\ pending' \subseteq Ids
              /\ Cardinality(pending') <= MaxPending
    <2>1. pending' \subseteq pending
        BY <1>12 DEF HandleDisconnect, RejectPending
    <2>2. pending' \subseteq Ids /\ Cardinality(pending') <= MaxPending
        BY <2>1, FewerPending
    <2>3. queue' \in Seq(Message) /\ Len(queue') <= MaxQueue
        <3>1. queue' = queue \/ queue' = <<>>
            BY <1>12 DEF HandleDisconnect
        <3> QED
            BY <3>1, NothingQueued DEF TypeOK, ClientTypeOK
    <2>4. cstate' \in {"connected", "disconnected"} /\ timer' \subseteq Ids
        BY <1>12 DEF HandleDisconnect, RejectPending, TypeOK, ClientTypeOK
    <2>5. reader' \in [Ids -> ReaderState] /\ call' \in [Ids -> CallState]
        BY <1>12
        DEF HandleDisconnect, RejectPending, TypeOK, ClientTypeOK, ReaderState, CallState
    <2> QED
        BY <2>2, <2>3, <2>4, <2>5
<1>13. CASE ClientLinkClosed
    <2>1. WireTypeOK'
        <3>1. down' \in [Sessions -> Seq(Message)]
            BY <1>13, NothingQueued DEF ClientLinkClosed, TypeOK, WireTypeOK
        <3> QED
            BY <1>13, <3>1 DEF ClientLinkClosed, TypeOK, WireTypeOK
    <2>2. HandleDisconnect
        BY <1>13 DEF ClientLinkClosed
    <2>3. UNCHANGED <<nextId, home, rcvd, sent, writing, isClosed>>
        BY <1>13 DEF ClientLinkClosed
    <2>4. ClientTypeOK'
        BY <1>12, <2>2, <2>3 DEF TypeOK, ClientTypeOK
    <2> QED
        BY <2>1, <2>4
<1>14. CASE HeartbeatTimeout
    BY <1>12, <1>14 DEF HeartbeatTimeout, TypeOK, WireTypeOK, ClientTypeOK
<1>15. CASE CloseClient
    <2>1. pending' \subseteq Ids /\ Cardinality(pending') <= MaxPending
        BY <1>15, FewerPending DEF CloseClient, RejectPending
    <2>2. call' \in [Ids -> CallState] /\ timer' \subseteq Ids
        BY <1>15 DEF CloseClient, RejectPending, TypeOK, ClientTypeOK, CallState
    <2>3. queue' \in Seq(Message) /\ Len(queue') <= MaxQueue
        BY <1>15, WireAssumption DEF CloseClient
    <2>4. ClientTypeOK'
        BY <1>15, <2>1, <2>2, <2>3 DEF CloseClient, TypeOK, ClientTypeOK
    <2>5. WireTypeOK'
        <3>1. down' \in [Sessions -> Seq(Message)]
            BY <1>15, NothingQueued DEF CloseClient, TypeOK, WireTypeOK
        <3> QED
            BY <1>15, <3>1 DEF CloseClient, TypeOK, WireTypeOK
    <2> QED
        BY <2>4, <2>5
<1> QED
    BY <1>1, <1>2, <1>3, <1>4, <1>5, <1>6, <1>7, <1>8, <1>9, <1>10, <1>11,
       <1>13, <1>14, <1>15 DEF ClientNext

\* So do the server's.
LEMMA ProxyStepIsTyped ==
    ASSUME TypeOK, ProxyNext, UNCHANGED clientVars
    PROVE  TypeOK'
<1> USE DEF MessageType
<1>c. ClientTypeOK'
    BY DEF TypeOK, ClientTypeOK, clientVars
<1> DEFINE Typed == WireTypeOK' /\ ProxyTypeOK'
<1> SUFFICES Typed
    BY <1>c DEF TypeOK
<1>1. PICK s \in Sessions :
          \/ HandleConnect(s) \/ HandleData(s) \/ HandleClose(s)
          \/ ServerLinkClosed(s) \/ ServerHeartbeatTimeout(s) \/ CloseTransport(s)
          \/ \E id \in Ids :
                \/ ConnectDone(s, id) \/ LateConnect(s, id)
                \/ ReadChunk(s, id) \/ SendChunk(s, id) \/ PipeEnd(s, id)
                \/ WriteFails(s, id)
    BY DEF ProxyNext
<1>task. ASSUME NEW id \in Ids, NEW state \in TaskState, SetTask(s, id, state)
         PROVE  task' \in [Sessions -> [Ids -> TaskState]]
    BY <1>task DEF SetTask, TypeOK, ProxyTypeOK
<1>2. CASE HandleConnect(s)
    <2>1. PICK m \in Message : Receive(s, m) /\ SetTask(s, m.id, "connecting")
        BY <1>2 DEF HandleConnect
    <2>2. up' \in [Sessions -> Seq(Message)]
        BY <2>1, ReceiveIsTyped
    <2>3. task' \in [Sessions -> [Ids -> TaskState]]
        BY <2>1, <1>task DEF Message, TaskState
    <2> QED
        BY <1>2, <2>2, <2>3 DEF HandleConnect, TypeOK, WireTypeOK, ProxyTypeOK
<1>3. CASE HandleData(s)
    <2>1. PICK m \in Message :
              /\ Receive(s, m)
              /\ written' = IF m.id \in conns[s]
                            THEN [written EXCEPT ![s][m.id] = Append(@, m.chunk)]
                            ELSE written
        BY <1>3 DEF HandleData
    <2>2. up' \in [Sessions -> Seq(Message)]
        BY <2>1, ReceiveIsTyped
    <2>3. Append(written[s][m.id], m.chunk) \in Seq(0 .. MaxChunks)
        BY DEF Message, TypeOK, ProxyTypeOK
    <2>4. written' \in [Sessions -> [Ids -> Seq(0 .. MaxChunks)]]
        BY <2>1, <2>3 DEF TypeOK, ProxyTypeOK
    <2> QED
        BY <1>3, <2>2, <2>4 DEF HandleData, TypeOK, WireTypeOK, ProxyTypeOK
<1>4. CASE HandleClose(s)
    <2>1. PICK m \in Message : Receive(s, m) /\ Close(s, m.id)
        BY <1>4 DEF HandleClose
    <2>2. up' \in [Sessions -> Seq(Message)]
        BY <2>1, ReceiveIsTyped
    <2>3. /\ down' \in [Sessions -> Seq(Message)]
          /\ conns' \in [Sessions -> SUBSET Ids]
        BY <2>1, CloseIsTyped DEF Message
    <2> QED
        BY <1>4, <2>2, <2>3 DEF HandleClose, TypeOK, WireTypeOK, ProxyTypeOK
<1>5. CASE ServerLinkClosed(s)
    BY <1>5 DEF ServerLinkClosed, LinkLost, TypeOK, WireTypeOK, ProxyTypeOK, TransportState
<1>6. CASE ServerHeartbeatTimeout(s)
    BY <1>6 DEF ServerHeartbeatTimeout, HeartbeatLost, TypeOK, WireTypeOK, ProxyTypeOK, TransportState
<1>7. CASE CloseTransport(s)
    BY <1>7 DEF CloseTransport, EndTransport, TypeOK, WireTypeOK, ProxyTypeOK, TransportState
<1>8. ASSUME NEW id \in Ids, ConnectOk(s, id) PROVE Typed
    <2>1. down' \in [Sessions -> Seq(Message)]
        BY <1>8, MessagesAreMessages, ReplyIsTyped DEF ConnectOk
    <2>2. task' \in [Sessions -> [Ids -> TaskState]]
        BY <1>8, <1>task DEF ConnectOk, TaskState
    <2> QED
        BY <1>8, <2>1, <2>2 DEF ConnectOk, TypeOK, WireTypeOK, ProxyTypeOK
<1>9. ASSUME NEW id \in Ids, ConnectFail(s, id) PROVE Typed
    <2>1. down' \in [Sessions -> Seq(Message)]
        BY <1>9, MessagesAreMessages, ReplyIsTyped DEF ConnectFail
    <2>2. task' \in [Sessions -> [Ids -> TaskState]]
        BY <1>9, <1>task DEF ConnectFail, TaskState
    <2> QED
        BY <1>9, <2>1, <2>2 DEF ConnectFail, TypeOK, WireTypeOK, ProxyTypeOK
<1>10. ASSUME NEW id \in Ids, ConnectTimeout(s, id) PROVE Typed
    <2>1. down' \in [Sessions -> Seq(Message)]
        BY <1>10, MessagesAreMessages, ReplyIsTyped DEF ConnectTimeout
    <2>2. task' \in [Sessions -> [Ids -> TaskState]]
        BY <1>10, <1>task DEF ConnectTimeout, TaskState
    <2> QED
        BY <1>10, <2>1, <2>2 DEF ConnectTimeout, TypeOK, WireTypeOK, ProxyTypeOK
<1>11. ASSUME NEW id \in Ids, LateConnect(s, id) PROVE Typed
    <2>1. task' \in [Sessions -> [Ids -> TaskState]]
        BY <1>11, <1>task DEF LateConnect, TaskState
    <2> QED
        BY <1>11, <2>1 DEF LateConnect, TypeOK, WireTypeOK, ProxyTypeOK
<1>12. ASSUME NEW id \in Ids, ReadChunk(s, id) PROVE Typed
    <2>1. task' \in [Sessions -> [Ids -> TaskState]]
        BY <1>12, <1>task DEF ReadChunk, TaskState
    <2>2. produced[s][id] + 1 \in 0 .. MaxChunks
        BY <1>12, WireAssumption DEF ReadChunk, TypeOK, ProxyTypeOK
    <2> QED
        BY <1>12, <2>1, <2>2 DEF ReadChunk, TypeOK, WireTypeOK, ProxyTypeOK
<1>13. ASSUME NEW id \in Ids, SendChunk(s, id) PROVE Typed
    <2>1. DataMsg(id, produced[s][id]) \in Message
        BY DEF DataMsg, Message, TypeOK, ProxyTypeOK
    <2>2. down' \in [Sessions -> Seq(Message)]
        BY <1>13, <2>1, ReplyIsTyped DEF SendChunk
    <2>3. task' \in [Sessions -> [Ids -> TaskState]]
        BY <1>13, <1>task DEF SendChunk, TaskState
    <2> QED
        BY <1>13, <2>2, <2>3 DEF SendChunk, TypeOK, WireTypeOK, ProxyTypeOK
<1>14. ASSUME NEW id \in Ids, PipeEnd(s, id) PROVE Typed
    <2>1. /\ down' \in [Sessions -> Seq(Message)]
          /\ conns' \in [Sessions -> SUBSET Ids]
        BY <1>14, CloseIsTyped DEF PipeEnd
    <2>2. task' \in [Sessions -> [Ids -> TaskState]]
        BY <1>14, <1>task DEF PipeEnd, TaskState
    <2> QED
        BY <1>14, <2>1, <2>2 DEF PipeEnd, TypeOK, WireTypeOK, ProxyTypeOK
<1>15. ASSUME NEW id \in Ids, WriteFails(s, id) PROVE Typed
    <2>1. /\ down' \in [Sessions -> Seq(Message)]
          /\ conns' \in [Sessions -> SUBSET Ids]
        BY <1>15, CloseIsTyped DEF WriteFails
    <2> QED
        BY <1>15, <2>1 DEF WriteFails, TypeOK, WireTypeOK, ProxyTypeOK
<1> QED
    BY <1>1, <1>2, <1>3, <1>4, <1>5, <1>6, <1>7, <1>8, <1>9, <1>10, <1>11, <1>12,
       <1>13, <1>14, <1>15 DEF ConnectDone

\* And the step both take together.
LEMMA NewSessionIsTyped ==
    ASSUME TypeOK, NewSession
    PROVE  TypeOK'
<1>1. sess + 1 \in Sessions
    BY WireAssumption DEF NewSession, Assign, TypeOK, WireTypeOK, Sessions
<1>2. WireTypeOK'
    BY <1>1, WireAssumption
    DEF NewSession, Assign, FlushQueue, Accept, AssignSocket, TypeOK, WireTypeOK, ClientTypeOK, Sessions
<1>3. 0 <= MaxQueue /\ Len(<<>>) = 0
    BY WireAssumption
<1>4. ClientTypeOK'
    BY <1>3 DEF NewSession, Assign, FlushQueue, TypeOK, ClientTypeOK
<1>5. ProxyTypeOK'
    BY <1>1 DEF NewSession, Accept, AssignSocket, TypeOK, ProxyTypeOK, TransportState
<1> QED
    BY <1>2, <1>4, <1>5 DEF TypeOK

\* Every state the tunnel reaches is well-typed, with the queue and the pending
\* map within their limits, for any number of calls, sessions and chunks.
THEOREM TypesAreCorrect == Spec => []TypeOK
<1>1. TypeOK /\ [Next]_vars => TypeOK'
    <2> SUFFICES ASSUME TypeOK, [Next]_vars PROVE TypeOK'
        OBVIOUS
    <2>1. CASE UNCHANGED vars
        BY <2>1 DEF vars, wireVars, clientVars, proxyVars, TypeOK, WireTypeOK,
                    ClientTypeOK, ProxyTypeOK
    <2> QED
        BY <2>1, ClientStepIsTyped, ProxyStepIsTyped, NewSessionIsTyped DEF Next
<1> QED
    BY <1>1, InitIsTyped, PTL DEF Spec

-----------------------------------------------------------------------------
(* Calls, timers and streams                                               *)

\* Every client step keeps the timers with the waiting calls and the entries
\* with the open streams, one case per action.
LEMMA ClientStepKeepsCalls ==
    ASSUME TypeOK, WaitingIsTimed, EntryHasOpenReader, ClientNext
    PROVE  WaitingIsTimed' /\ EntryHasOpenReader'
<1> USE DEF WaitingIsTimed, EntryHasOpenReader, TypeOK, ClientTypeOK, CallState, ReaderState
<1> DEFINE Kept == WaitingIsTimed' /\ EntryHasOpenReader'
<1> SUFFICES Kept
    OBVIOUS
<1>1. CASE Connect
    <2>1. /\ pending' = pending \cup {nextId}
          /\ timer' = timer \cup {nextId}
          /\ call' = [call EXCEPT ![nextId] = "waiting"]
          /\ reader' = [reader EXCEPT ![nextId] = "open"]
        BY <1>1 DEF Connect
    <2>2. nextId \in Ids
        BY <1>1, WireAssumption DEF Connect, Ids
    <2>3. WaitingIsTimed'
        <3> SUFFICES ASSUME NEW id \in Ids
                     PROVE  id \in timer' <=> call'[id] = "waiting"
            OBVIOUS
        <3>1. CASE id = nextId
            BY <2>1, <2>2, <3>1
        <3>2. CASE id # nextId
            BY <2>1, <2>2, <3>2
        <3> QED
            BY <3>1, <3>2
    <2>4. EntryHasOpenReader'
        BY <2>1, <2>2
    <2> QED
        BY <2>3, <2>4
<1>2. ASSUME NEW id \in Ids, RequestTimeout(id) PROVE Kept
    BY <1>2 DEF RequestTimeout
<1>3. ASSUME NEW id \in Ids, Cancel(id) PROVE Kept
    BY <1>3 DEF Cancel
<1>4. ASSUME NEW id \in Ids, Write(id) PROVE Kept
    BY <1>4 DEF Write
<1>5. ASSUME NEW id \in Ids, CloseWriter(id) PROVE Kept
    BY <1>5 DEF CloseWriter
<1>6. CASE Reap
    BY <1>6 DEF Reap
<1>7. CASE NoHandler
    BY <1>7 DEF NoHandler
<1>8. CASE ConnectAck
    BY <1>8 DEF ConnectAck, Message
<1>9. CASE StreamData
    BY <1>9 DEF StreamData
<1>10. CASE StreamClose
    BY <1>10 DEF StreamClose, Message
<1>11. CASE StreamError
    BY <1>11 DEF StreamError, Message
<1>12. ASSUME HandleDisconnect PROVE Kept
    BY <1>12 DEF HandleDisconnect, RejectPending
<1>13. CASE ClientLinkClosed
    BY <1>12, <1>13 DEF ClientLinkClosed
<1>14. CASE HeartbeatTimeout
    BY <1>12, <1>14 DEF HeartbeatTimeout
<1>15. CASE CloseClient
    BY <1>15 DEF CloseClient, RejectPending
<1> QED
    BY <1>1, <1>2, <1>3, <1>4, <1>5, <1>6, <1>7, <1>8, <1>9, <1>10, <1>11,
       <1>13, <1>14, <1>15 DEF ClientNext

\* The two facts are an inductive invariant of the tunnel, given its types.
LEMMA CallsAreKept == Spec => [](WaitingIsTimed /\ EntryHasOpenReader)
<1> DEFINE Inv == WaitingIsTimed /\ EntryHasOpenReader
<1>1. Init => Inv
    BY DEF Init, ClientInit, WaitingIsTimed, EntryHasOpenReader
<1>2. TypeOK /\ Inv /\ [Next]_vars => Inv'
    <2> SUFFICES ASSUME TypeOK, Inv, [Next]_vars PROVE Inv'
        OBVIOUS
    <2>1. CASE NewSession
        BY <2>1 DEF NewSession, Assign, WaitingIsTimed, EntryHasOpenReader
    <2>2. CASE ClientNext
        BY <2>2, ClientStepKeepsCalls
    <2>3. CASE UNCHANGED clientVars
        BY <2>3 DEF clientVars, WaitingIsTimed, EntryHasOpenReader
    <2> QED
        BY <2>1, <2>2, <2>3 DEF Next, vars
<1> QED
    BY <1>1, <1>2, TypesAreCorrect, PTL DEF Spec

\* The request timer is armed exactly while the caller of connectTCP waits.
THEOREM TimersAreRight == Spec => []WaitingIsTimed
BY CallsAreKept, PTL

\* dispatch() never enqueues into a stream that has ended.
THEOREM EntriesAreOpen == Spec => []EntryHasOpenReader
BY CallsAreKept, PTL

-----------------------------------------------------------------------------
(* Channels                                                                *)

\* What a channel carries are messages.
LEMMA ChannelElements ==
    ASSUME NEW ch \in Seq(Message), NEW k \in DOMAIN ch
    PROVE  ch[k] \in Message /\ ch[k].id \in Ids
<1>1. ch[k] \in Message
    OBVIOUS
<1> QED
    BY <1>1 DEF Message

\* What is left after the head has been taken was there before, one place on.
LEMMA TailElements ==
    ASSUME NEW ch \in Seq(Message), ch # <<>>
    PROVE  /\ Tail(ch) \in Seq(Message)
           /\ Head(ch) = ch[1]
           /\ \A k \in DOMAIN Tail(ch) : k + 1 \in DOMAIN ch /\ Tail(ch)[k] = ch[k + 1]
BY HeadTailProperties

\* An appended channel is the old one and the new message.
LEMMA AppendElements ==
    ASSUME NEW ch \in Seq(Message), NEW m \in Message
    PROVE  /\ Append(ch, m) \in Seq(Message)
           /\ DOMAIN Append(ch, m) = DOMAIN ch \cup {Len(ch) + 1}
           /\ \A k \in DOMAIN ch : Append(ch, m)[k] = ch[k] /\ k < Len(ch) + 1
           /\ Append(ch, m)[Len(ch) + 1] = m
BY AppendProperties

LEMMA ConcatElements ==
    ASSUME NEW ch \in Seq(Message), NEW ms \in Seq(Message)
    PROVE  /\ ch \o ms \in Seq(Message)
           /\ \A k \in DOMAIN (ch \o ms) :
                 \/ k \in DOMAIN ch /\ (ch \o ms)[k] = ch[k]
                 \/ k \notin DOMAIN ch /\ \E j \in DOMAIN ms : (ch \o ms)[k] = ms[j]
<1>1. /\ ch \o ms \in Seq(Message)
      /\ Len(ch \o ms) = Len(ch) + Len(ms)
      /\ \A k \in 1 .. Len(ch) : (ch \o ms)[k] = ch[k]
      /\ \A k \in 1 .. Len(ms) : (ch \o ms)[Len(ch) + k] = ms[k]
    BY ConcatProperties
<1>2. ASSUME NEW k \in 1 .. Len(ch \o ms), k \notin 1 .. Len(ch)
      PROVE  \E j \in 1 .. Len(ms) : (ch \o ms)[k] = ms[j]
    <2>1. k - Len(ch) \in 1 .. Len(ms) /\ Len(ch) + (k - Len(ch)) = k
        BY <1>1, <1>2
    <2> QED
        BY <1>1, <2>1
<1> QED
    BY <1>1, <1>2

LEMMA FirstOfElements ==
    ASSUME NEW q \in Seq(Message), NEW n \in Nat
    PROVE  \A k \in DOMAIN FirstOf(q, n) : k \in DOMAIN q /\ FirstOf(q, n)[k] = q[k]
<1>1. CASE Len(q) <= n
    BY <1>1 DEF FirstOf
<1>2. CASE ~(Len(q) <= n)
    <2>1. n \in 0 .. Len(q) /\ 1 \in 1 .. Len(q) + 1
        BY <1>2
    <2>2. /\ Len(SubSeq(q, 1, n)) = n
          /\ \A k \in 1 .. n : SubSeq(q, 1, n)[k] = q[k]
        BY <2>1, SubSeqProperties
    <2>3. SubSeq(q, 1, n) \in Seq(Message)
        BY <2>1
    <2> QED
        BY <1>2, <2>1, <2>2, <2>3 DEF FirstOf
<1> QED
    BY <1>1, <1>2

-----------------------------------------------------------------------------
(* A call lives in one session                                             *)

\* send() of messages other than TCP_CONNECT, wherever they go, puts no request
\* on its way and queues none.
LEMMA SendKeepsRequests ==
    ASSUME TypeOK, RequestsAreFresh, UNCHANGED <<home, task>>,
           NEW ms \in Seq(Message), Send(ms),
           \A k \in DOMAIN ms : ms[k].type # "TCP_CONNECT"
    PROVE  RequestsAreFresh'
<1> USE DEF TypeOK, WireTypeOK, ClientTypeOK
<1>1. CASE isClosed
    BY <1>1 DEF Send, RequestsAreFresh
<1>2. CASE ~isClosed /\ cws
    <2>1. sess \in Sessions /\ queue' = queue
        BY <1>2, WireAssumption DEF Sessions, Send
    <2>2. up' = up \/ up' = [up EXCEPT ![sess] = @ \o ms]
        BY <1>2, <2>1 DEF Send
    <2>3. CASE up' = up
        BY <2>1, <2>3 DEF RequestsAreFresh
    <2>4. CASE up' = [up EXCEPT ![sess] = @ \o ms]
        <3>1. \A k \in DOMAIN (up[sess] \o ms) :
                  (up[sess] \o ms)[k].type = "TCP_CONNECT" =>
                      k \in DOMAIN up[sess] /\ (up[sess] \o ms)[k] = up[sess][k]
            BY <2>1, ConcatElements
        <3>2. \A s \in Sessions : \A k \in DOMAIN up'[s] :
                  up'[s][k].type = "TCP_CONNECT" =>
                      k \in DOMAIN up[s] /\ up'[s][k] = up[s][k]
            BY <2>1, <2>4, <3>1
        <3> QED
            BY <2>1, <3>2 DEF RequestsAreFresh
    <2> QED
        BY <2>2, <2>3, <2>4
<1>3. CASE ~isClosed /\ ~cws
    <2>1. queue' = FirstOf(queue \o ms, MaxQueue) /\ up' = up
        BY <1>3 DEF Send
    <2>2. \A k \in DOMAIN (queue \o ms) : (queue \o ms)[k].type # "TCP_CONNECT"
        BY ConcatElements DEF RequestsAreFresh
    <2>3. queue \o ms \in Seq(Message)
        BY ConcatElements
    <2>4. \A k \in DOMAIN queue' : queue'[k].type # "TCP_CONNECT"
        BY <2>1, <2>2, <2>3, FirstOfElements, WireAssumption
    <2> QED
        BY <2>1, <2>4 DEF RequestsAreFresh
<1> QED
    BY <1>1, <1>2, <1>3

\* One message is the common case.
LEMMA SendOneKeepsRequests ==
    ASSUME TypeOK, RequestsAreFresh, UNCHANGED <<home, task>>,
           NEW m \in Message, Send(<<m>>), m.type # "TCP_CONNECT"
    PROVE  RequestsAreFresh'
<1>1. <<m>> \in Seq(Message) /\ \A k \in DOMAIN <<m>> : <<m>>[k].type # "TCP_CONNECT"
    OBVIOUS
<1> QED
    BY <1>1, SendKeepsRequests

\* connectTCP() takes a fresh id and sends its request once.
LEMMA ConnectKeepsHome ==
    ASSUME TypeOK, HomeInv, Connect, UNCHANGED proxyVars
    PROVE  HomeInv'
<1> USE DEF HomeInv
<1>1. nextId \in Ids /\ sess \in Sessions /\ home[nextId] = 0
    BY WireAssumption
    DEF Connect, TypeOK, WireTypeOK, ClientTypeOK, Ids, Sessions, FreshIds
<1>2. \A id \in Ids : home'[id] = IF id = nextId THEN sess ELSE home[id]
    BY <1>1 DEF Connect, TypeOK, ClientTypeOK
<1>3. FreshIds'
    <2>1. /\ nextId' = nextId + 1 /\ pending' = pending \cup {nextId}
          /\ sess' = sess /\ rcvd' = rcvd
        BY DEF Connect
    <2>2. nextId \in Nat /\ sess \in Nat /\ sess # 0 /\ Ids \subseteq Nat
        BY <1>1, WireAssumption DEF Ids, Sessions
    <2>3. ASSUME NEW id \in Ids
          PROVE  /\ id >= nextId' => home'[id] = 0
                 /\ id \in pending' => home'[id] # 0
                 /\ home'[id] = 0 => rcvd'[id] = <<>>
                 /\ home'[id] <= sess'
        <3>1. CASE id = nextId
            BY <1>2, <2>1, <2>2, <3>1
        <3>2. CASE id # nextId
            <4>1. home'[id] = home[id] /\ (id >= nextId' => id >= nextId)
                BY <1>2, <2>1, <2>2, <3>2
            <4> QED
                BY <2>1, <3>2, <4>1 DEF FreshIds
        <3> QED
            BY <3>1, <3>2
    <2> QED
        BY <2>3 DEF FreshIds
<1>4. WorkIsAtHome'
    BY <1>1, <1>2 DEF WorkIsAtHome, proxyVars, Sessions
<1>5. RepliesAreAtHome'
    <2>1. \A s \in Sessions : \A k \in DOMAIN down[s] : down[s][k].id \in Ids
        BY ChannelElements DEF TypeOK, WireTypeOK
    <2> QED
        BY <1>1, <1>2, <2>1 DEF Connect, RepliesAreAtHome, Sessions
<1>6. RequestsAreFresh'
    <2> DEFINE m == Msg("TCP_CONNECT", nextId)
               n == Len(up[sess]) + 1
    <2>1. m \in Message /\ m.id = nextId
        BY <1>1, MessagesAreMessages DEF MessageType, Msg
    <2>2. queue' = queue /\ (up' = up \/ up' = [up EXCEPT ![sess] = @ \o <<m>>])
        BY DEF Connect, Send, TypeOK, WireTypeOK
    <2>3. \A s \in Sessions : \A k \in DOMAIN up[s] : up[s][k].id \in Ids
        BY ChannelElements DEF TypeOK, WireTypeOK
    <2>4. \A s \in Sessions : \A k \in DOMAIN up[s] :
              up[s][k].type = "TCP_CONNECT" => up[s][k].id # nextId
        BY <1>1 DEF RequestsAreFresh, Sessions
    <2>5. task' = task /\ \A s \in Sessions : task[s][nextId] = "none"
        BY <1>1 DEF WorkIsAtHome, proxyVars, Sessions
    <2>6. CASE up' = up
        BY <1>2, <2>2, <2>3, <2>4, <2>5, <2>6 DEF RequestsAreFresh
    <2>7. CASE up' = [up EXCEPT ![sess] = @ \o <<m>>]
        <3> HIDE DEF m
        <3>1. up[sess] \in Seq(Message)
            BY <1>1 DEF TypeOK, WireTypeOK
        <3>2. up'[sess] = Append(up[sess], m)
            BY <1>1, <2>1, <2>7, <3>1 DEF TypeOK, WireTypeOK
        <3>3. /\ DOMAIN up'[sess] = DOMAIN up[sess] \cup {n}
              /\ \A k \in DOMAIN up[sess] : up'[sess][k] = up[sess][k]
              /\ up'[sess][n] = m
            BY <2>1, <3>1, <3>2, AppendElements
        <3>4. \A s \in Sessions \ {sess} : up'[s] = up[s]
            BY <2>7 DEF TypeOK, WireTypeOK
        <3>5. \A s \in Sessions : \A k \in DOMAIN up'[s] :
                  \/ s = sess /\ k = n /\ up'[s][k] = m
                  \/ k \in DOMAIN up[s] /\ up'[s][k] = up[s][k]
            BY <3>3, <3>4
        <3> QED
            BY <1>1, <1>2, <2>1, <2>2, <2>3, <2>4, <2>5, <3>5 DEF RequestsAreFresh
    <2> QED
        BY <2>2, <2>6, <2>7
<1> QED
    BY <1>3, <1>4, <1>5, <1>6

\* The other steps of the client hand out no id, and give chunks to readers of
\* pending entries only.
LEMMA ClientStepKeepsHome ==
    ASSUME TypeOK, HomeInv, ClientNext, UNCHANGED proxyVars
    PROVE  HomeInv'
<1> USE DEF HomeInv
<1>fresh. ASSUME UNCHANGED <<nextId, home, sess>>, pending' \subseteq pending,
                 \A id \in Ids : id \notin pending => rcvd'[id] = rcvd[id]
          PROVE  FreshIds'
    BY <1>fresh DEF FreshIds
<1>work. ASSUME UNCHANGED home PROVE WorkIsAtHome'
    BY <1>work DEF WorkIsAtHome, proxyVars
<1>same. ASSUME UNCHANGED <<home, down>> PROVE RepliesAreAtHome'
    BY <1>same DEF RepliesAreAtHome
<1>take. ASSUME UNCHANGED home, NEW m \in Message, Take(m)
         PROVE  RepliesAreAtHome'
    <2>1. /\ sess \in Sessions /\ down[sess] \in Seq(Message) /\ down[sess] # <<>>
          /\ down' = [down EXCEPT ![sess] = Tail(@)]
        BY <1>take, TakeIsTyped DEF TypeOK, WireTypeOK, Take
    <2>2. \A k \in DOMAIN Tail(down[sess]) :
              k + 1 \in DOMAIN down[sess] /\ Tail(down[sess])[k] = down[sess][k + 1]
        BY <2>1, TailElements
    <2>3. \A s \in Sessions : down'[s] = IF s = sess THEN Tail(down[sess]) ELSE down[s]
        BY <2>1 DEF TypeOK, WireTypeOK
    <2> QED
        BY <1>take, <2>1, <2>2, <2>3 DEF RepliesAreAtHome
<1>lost. ASSUME UNCHANGED home, down' = [down EXCEPT ![sess] = <<>>]
         PROVE  RepliesAreAtHome'
    <2>1. \A s \in Sessions : down'[s] = IF s = sess THEN <<>> ELSE down[s]
        BY <1>lost DEF TypeOK, WireTypeOK
    <2> QED
        BY <1>lost, <2>1 DEF RepliesAreAtHome
<1>quiet. ASSUME UNCHANGED <<home, up, task>>, queue' = queue \/ queue' = <<>>
          PROVE  RequestsAreFresh'
    BY <1>quiet DEF RequestsAreFresh
<1>send. ASSUME UNCHANGED home, NEW id \in Ids, Send(<<Msg("TCP_CLOSE", id)>>)
         PROVE  RequestsAreFresh'
    BY <1>send, MessagesAreMessages, SendOneKeepsRequests DEF MessageType, Msg, proxyVars
<1>1. CASE Connect
    BY <1>1, ConnectKeepsHome
<1>2. ASSUME NEW id \in Ids, RequestTimeout(id) PROVE HomeInv'
    BY <1>2, <1>fresh, <1>work, <1>same, <1>send DEF RequestTimeout
<1>3. ASSUME NEW id \in Ids, Cancel(id) PROVE HomeInv'
    BY <1>3, <1>fresh, <1>work, <1>same, <1>send DEF Cancel
<1>4. ASSUME NEW id \in Ids, Write(id) PROVE HomeInv'
    <2> DEFINE m == DataMsg(id, sent[id] + 1)
    <2>1. sent[id] + 1 \in 0 .. MaxChunks
        BY <1>4, WireAssumption DEF Write, TypeOK, ClientTypeOK
    <2>2. m \in Message /\ m.type # "TCP_CONNECT"
        BY <2>1 DEF DataMsg, Message, MessageType
    <2>3. Send(<<m>>) /\ UNCHANGED <<home, task>>
        BY <1>4 DEF Write, proxyVars
    <2>4. RequestsAreFresh'
        <3> HIDE DEF m
        <3> QED BY <2>2, <2>3, SendOneKeepsRequests
    <2> QED
        BY <1>4, <1>fresh, <1>work, <1>same, <2>4 DEF Write
<1>5. ASSUME NEW id \in Ids, CloseWriter(id) PROVE HomeInv'
    BY <1>5, <1>fresh, <1>work, <1>same, <1>send DEF CloseWriter
<1>6. CASE Reap
    <2>1. PICK oldest \in Ids :
              \E l \in Listing({id \in pending : id <= oldest}) :
                  Send([k \in DOMAIN l |-> Msg("TCP_CLOSE", l[k])])
        BY <1>6 DEF Reap
    <2> DEFINE stale == {id \in pending : id <= oldest}
    <2>2. PICK l \in Listing(stale) : Send([k \in DOMAIN l |-> Msg("TCP_CLOSE", l[k])])
        BY <2>1
    <2>3. stale \subseteq Ids /\ IsFiniteSet(stale) /\ Cardinality(stale) \in Nat
        BY FewerPending, FS_CardinalityType
    <2>4. l \in [1 .. Cardinality(stale) -> Ids]
        BY <2>2, <2>3 DEF Listing
    <2> DEFINE ms == [k \in DOMAIN l |-> Msg("TCP_CLOSE", l[k])]
               n == Cardinality(stale)
    <2>5. /\ ms \in [1 .. n -> Message]
          /\ \A k \in DOMAIN ms : ms[k].type # "TCP_CONNECT"
        BY <2>4, MessagesAreMessages DEF MessageType, Msg
    <2>6. ms \in Seq(Message)
        <3> HIDE DEF ms, n
        <3>1. n \in Nat
            BY <2>3 DEF n
        <3> QED
            BY <2>5, <3>1, SeqDef
    <2>7. UNCHANGED <<home, task>>
        BY <1>6 DEF Reap, proxyVars
    <2>8. RequestsAreFresh'
        BY <2>2, <2>5, <2>6, <2>7, SendKeepsRequests
    <2>9. UNCHANGED <<nextId, home, sess, rcvd, down>> /\ pending' \subseteq pending
        BY <1>6 DEF Reap
    <2> QED
        BY <1>fresh, <1>work, <1>same, <2>8, <2>9
<1>7. CASE NoHandler
    <2>1. PICK m \in Message :
              /\ Take(m)
              /\ \/ Send(<<Msg("TCP_CLOSE", m.id)>>)
                 \/ UNCHANGED <<queue, up>>
        BY <1>7 DEF NoHandler
    <2>2. UNCHANGED <<nextId, home, sess, rcvd, pending, task>>
        BY <1>7 DEF NoHandler, proxyVars
    <2>3. RequestsAreFresh'
        BY <1>send, <1>quiet, <2>1, <2>2 DEF Message
    <2> QED
        BY <1>fresh, <1>work, <1>take, <2>1, <2>2, <2>3
<1>8. CASE ConnectAck
    <2>1. PICK m \in Message : Take(m)
        BY <1>8 DEF ConnectAck
    <2>2. UNCHANGED <<nextId, home, sess, rcvd, pending, task, queue, up>>
        BY <1>8 DEF ConnectAck, proxyVars
    <2> QED
        BY <1>fresh, <1>work, <1>take, <1>quiet, <2>1, <2>2
<1>9. CASE StreamData
    <2>1. PICK m \in Message :
              /\ Take(m)
              /\ m.id \in pending
              /\ \/ /\ rcvd' = [rcvd EXCEPT ![m.id] = Append(@, m.chunk)]
                    /\ UNCHANGED <<queue, up, pending>>
                 \/ /\ pending' = pending \ {m.id}
                    /\ Send(<<Msg("TCP_CLOSE", m.id)>>)
                    /\ UNCHANGED rcvd
        BY <1>9 DEF StreamData
    <2>2. UNCHANGED <<nextId, home, sess, task>>
        BY <1>9 DEF StreamData, proxyVars
    <2>3. RequestsAreFresh'
        BY <1>send, <1>quiet, <2>1, <2>2 DEF Message
    <2>4. pending' \subseteq pending /\ \A id \in Ids : id \notin pending => rcvd'[id] = rcvd[id]
        BY <2>1 DEF TypeOK, ClientTypeOK
    <2> QED
        BY <1>fresh, <1>work, <1>take, <2>1, <2>2, <2>3, <2>4
<1>10. CASE StreamClose
    <2>1. PICK m \in Message : Take(m) /\ pending' = pending \ {m.id}
        BY <1>10 DEF StreamClose
    <2>2. UNCHANGED <<nextId, home, sess, rcvd, task, queue, up>>
        BY <1>10 DEF StreamClose, proxyVars
    <2> QED
        BY <1>fresh, <1>work, <1>take, <1>quiet, <2>1, <2>2
<1>11. CASE StreamError
    <2>1. PICK m \in Message : Take(m) /\ pending' = pending \ {m.id}
        BY <1>11 DEF StreamError
    <2>2. UNCHANGED <<nextId, home, sess, rcvd, task, queue, up>>
        BY <1>11 DEF StreamError, proxyVars
    <2> QED
        BY <1>fresh, <1>work, <1>take, <1>quiet, <2>1, <2>2
<1>12. ASSUME HandleDisconnect
       PROVE  pending' \subseteq pending /\ (queue' = queue \/ queue' = <<>>)
    BY <1>12 DEF HandleDisconnect, RejectPending
<1>13. CASE ClientLinkClosed
    <2>1. /\ UNCHANGED <<nextId, home, sess, rcvd, task, up>>
          /\ down' = [down EXCEPT ![sess] = <<>>]
          /\ HandleDisconnect
        BY <1>13 DEF ClientLinkClosed, proxyVars
    <2> QED
        BY <1>12, <1>fresh, <1>work, <1>lost, <1>quiet, <2>1
<1>14. CASE HeartbeatTimeout
    <2>1. UNCHANGED <<nextId, home, sess, rcvd, task, up, down>> /\ HandleDisconnect
        BY <1>14 DEF HeartbeatTimeout, proxyVars
    <2> QED
        BY <1>12, <1>fresh, <1>work, <1>same, <1>quiet, <2>1
<1>15. CASE CloseClient
    <2>1. /\ UNCHANGED <<nextId, home, sess, rcvd, task, up>>
          /\ down' = down \/ down' = [down EXCEPT ![sess] = <<>>]
          /\ queue' = <<>> /\ pending' \subseteq pending
        BY <1>15 DEF CloseClient, RejectPending, proxyVars
    <2> QED
        BY <1>fresh, <1>work, <1>same, <1>lost, <1>quiet, <2>1
<1> QED
    BY <1>1, <1>2, <1>3, <1>4, <1>5, <1>6, <1>7, <1>8, <1>9, <1>10, <1>11,
       <1>13, <1>14, <1>15 DEF ClientNext

\* The server hears of a call in the session of the call, and speaks of it there.
LEMMA ProxyStepKeepsHome ==
    ASSUME TypeOK, HomeInv, ProxyNext, UNCHANGED clientVars
    PROVE  HomeInv'
<1> USE DEF HomeInv
<1>c. UNCHANGED <<nextId, home, pending, rcvd, queue>>
    BY DEF clientVars
<1>t. /\ task \in [Sessions -> [Ids -> TaskState]]
      /\ produced \in [Sessions -> [Ids -> 0 .. MaxChunks]]
      /\ conns \in [Sessions -> SUBSET Ids]
      /\ up \in [Sessions -> Seq(Message)] /\ down \in [Sessions -> Seq(Message)]
    BY DEF TypeOK, WireTypeOK, ProxyTypeOK
<1>1. PICK s \in Sessions :
          \/ HandleConnect(s) \/ HandleData(s) \/ HandleClose(s)
          \/ ServerLinkClosed(s) \/ ServerHeartbeatTimeout(s) \/ CloseTransport(s)
          \/ \E id \in Ids :
                \/ ConnectDone(s, id) \/ LateConnect(s, id)
                \/ ReadChunk(s, id) \/ SendChunk(s, id) \/ PipeEnd(s, id)
                \/ WriteFails(s, id)
    BY DEF ProxyNext
<1>fresh. ASSUME UNCHANGED sess PROVE FreshIds'
    BY <1>c, <1>fresh DEF FreshIds
<1>same. ASSUME UNCHANGED down PROVE RepliesAreAtHome'
    BY <1>c, <1>same DEF RepliesAreAtHome
<1>reply. ASSUME NEW m \in Message, home[m.id] = s, Reply(s, m)
          PROVE  RepliesAreAtHome'
    <2>1. CASE down' = down
        BY <1>same, <2>1
    <2>2. CASE down' = [down EXCEPT ![s] = Append(@, m)]
        <3>1. down[s] \in Seq(Message) /\ down'[s] = Append(down[s], m)
            BY <1>t, <2>2
        <3>2. /\ DOMAIN down'[s] = DOMAIN down[s] \cup {Len(down[s]) + 1}
              /\ \A k \in DOMAIN down[s] : down'[s][k] = down[s][k]
              /\ down'[s][Len(down[s]) + 1] = m
            BY <3>1, AppendElements
        <3>3. \A z \in Sessions \ {s} : down'[z] = down[z]
            BY <1>t, <2>2
        <3> QED
            BY <1>c, <1>reply, <3>2, <3>3 DEF RepliesAreAtHome
    <2> QED
        BY <1>reply, <2>1, <2>2 DEF Reply
<1>close. ASSUME NEW id \in Ids, Close(s, id) PROVE RepliesAreAtHome'
    <2>1. CASE id \in conns[s]
        <3>1. home[id] = s
            BY <2>1 DEF WorkIsAtHome
        <3>2. Msg("TCP_CLOSE", id) \in Message /\ Msg("TCP_CLOSE", id).id = id
            BY MessagesAreMessages DEF MessageType, Msg
        <3> QED
            BY <1>close, <1>reply, <2>1, <3>1, <3>2 DEF Close
    <2>2. CASE id \notin conns[s]
        BY <1>close, <1>same, <2>2 DEF Close
    <2> QED
        BY <2>1, <2>2
<1>work. ASSUME NEW id \in Ids, NEW state \in TaskState \ {"none"}, SetTask(s, id, state),
                task[s][id] # "none",
                produced' = produced \/ produced' = [produced EXCEPT ![s][id] = @ + 1],
                state = "holding" => produced'[s][id] # 0,
                \A z \in Sessions : conns'[z] \subseteq conns[z] \cup (IF z = s THEN {id} ELSE {})
         PROVE  WorkIsAtHome' /\ (up' = up => RequestsAreFresh')
    <2>1. \A z \in Sessions, i \in Ids :
              task'[z][i] = IF z = s /\ i = id THEN state ELSE task[z][i]
        BY <1>t, <1>work DEF SetTask
    <2>2. \A z \in Sessions, i \in Ids : ~(z = s /\ i = id) =>
              /\ produced'[z][i] = produced[z][i]
              /\ i \in conns'[z] => i \in conns[z]
        BY <1>t, <1>work
    <2>3. home[id] = s
        BY <1>work DEF WorkIsAtHome
    <2>4. WorkIsAtHome'
        BY <1>c, <1>work, <2>1, <2>2, <2>3 DEF WorkIsAtHome
    <2>5. ASSUME up' = up PROVE RequestsAreFresh'
        <3>1. \A z \in Sessions : \A k \in DOMAIN up[z] : up[z][k].id \in Ids
            BY <1>t, ChannelElements
        <3> QED
            BY <1>c, <1>work, <2>1, <2>5, <3>1 DEF RequestsAreFresh
    <2> QED
        BY <2>4, <2>5
<1>idle. ASSUME UNCHANGED <<task, produced>>, \A z \in Sessions : conns'[z] \subseteq conns[z]
         PROVE  WorkIsAtHome'
    BY <1>c, <1>idle DEF WorkIsAtHome
<1>less. ASSUME UNCHANGED task, up' = up \/ up' = [up EXCEPT ![s] = <<>>]
         PROVE  RequestsAreFresh'
    <2>1. CASE up' = up
        BY <1>c, <1>less, <2>1 DEF RequestsAreFresh
    <2>2. CASE up' = [up EXCEPT ![s] = <<>>]
        <3>1. \A z \in Sessions : up'[z] = IF z = s THEN <<>> ELSE up[z]
            BY <1>t, <2>2
        <3> QED
            BY <1>c, <1>less, <3>1 DEF RequestsAreFresh
    <2> QED
        BY <1>less, <2>1, <2>2
<1>rest. ASSUME NEW m \in Message, Receive(s, m)
         PROVE  /\ up[s] # <<>> /\ m = up[s][1] /\ 1 \in DOMAIN up[s]
                /\ \A z \in Sessions \ {s} : up'[z] = up[z]
                /\ \A k \in DOMAIN up'[s] : k + 1 \in DOMAIN up[s] /\ up'[s][k] = up[s][k + 1]
                /\ DOMAIN up'[s] \subseteq Nat /\ 0 \notin DOMAIN up'[s]
    <2>1. up[s] \in Seq(Message) /\ up[s] # <<>> /\ up'[s] = Tail(up[s])
        BY <1>rest, <1>t DEF Receive
    <2>2. \A z \in Sessions \ {s} : up'[z] = up[z]
        BY <1>rest, <1>t DEF Receive
    <2>3. /\ Tail(up[s]) \in Seq(Message) /\ Head(up[s]) = up[s][1]
          /\ \A k \in DOMAIN Tail(up[s]) : k + 1 \in DOMAIN up[s] /\ Tail(up[s])[k] = up[s][k + 1]
        BY <2>1, TailElements
    <2>4. 1 \in DOMAIN up[s] /\ m = Head(up[s])
        BY <1>rest, <2>1 DEF Receive
    <2>5. DOMAIN up'[s] \subseteq Nat /\ 0 \notin DOMAIN up'[s]
        BY <2>1, <2>3
    <2> QED
        BY <2>1, <2>2, <2>3, <2>4, <2>5
<1>took. ASSUME NEW m \in Message, Receive(s, m), UNCHANGED task PROVE RequestsAreFresh'
    BY <1>c, <1>took, <1>rest DEF RequestsAreFresh
<1>2. CASE HandleConnect(s)
    <2>1. PICK m \in Message :
              /\ Receive(s, m)
              /\ m.type = "TCP_CONNECT"
              /\ SetTask(s, m.id, "connecting")
        BY <1>2 DEF HandleConnect
    <2>2. UNCHANGED <<sess, down, conns, produced>>
        BY <1>2 DEF HandleConnect
    <2>3. m.id \in Ids /\ home[m.id] = s /\ task[s][m.id] = "none"
        BY <1>rest, <2>1 DEF RequestsAreFresh, Message
    <2>4. \A z \in Sessions, i \in Ids :
              task'[z][i] = IF z = s /\ i = m.id THEN "connecting" ELSE task[z][i]
        BY <1>t, <2>1, <2>3 DEF SetTask
    <2>5. WorkIsAtHome'
        BY <1>c, <2>2, <2>3, <2>4 DEF WorkIsAtHome
    <2>6. \A k \in DOMAIN up'[s] : up'[s][k].type = "TCP_CONNECT" => up'[s][k].id # m.id
        BY <1>rest, <2>1 DEF RequestsAreFresh
    <2>7. \A z \in Sessions : \A k \in DOMAIN up[z] : up[z][k].id \in Ids
        BY <1>t, ChannelElements
    <2>8. RequestsAreFresh'
        <3>1. ASSUME NEW k \in DOMAIN up'[s], up'[s][k].type = "TCP_CONNECT"
              PROVE  task'[s][up'[s][k].id] = "none"
            <4>1. k + 1 \in DOMAIN up[s] /\ up'[s][k] = up[s][k + 1]
                BY <1>rest, <2>1
            <4>2. task[s][up'[s][k].id] = "none" /\ up'[s][k].id \in Ids
                BY <2>7, <3>1, <4>1 DEF RequestsAreFresh
            <4>3. up'[s][k].id # m.id
                BY <2>6, <3>1
            <4> QED
                BY <2>4, <4>2, <4>3
        <3>2. ASSUME NEW z \in Sessions \ {s}, NEW k \in DOMAIN up'[z],
                     up'[z][k].type = "TCP_CONNECT"
              PROVE  task'[z][up'[z][k].id] = "none"
            <4>1. up'[z] = up[z]
                BY <1>rest, <2>1
            <4>2. task[z][up[z][k].id] = "none" /\ up[z][k].id \in Ids
                BY <2>7, <3>2, <4>1 DEF RequestsAreFresh
            <4> QED
                BY <2>4, <4>1, <4>2
        <3>3. \A z \in Sessions : \A k \in DOMAIN up'[z] :
                  up'[z][k].type = "TCP_CONNECT" => task'[z][up'[z][k].id] = "none"
            BY <3>1, <3>2
        <3> QED
            BY <1>c, <1>rest, <2>1, <3>3 DEF RequestsAreFresh
    <2> QED
        BY <1>fresh, <1>same, <2>2, <2>5, <2>8
<1>3. CASE HandleData(s)
    <2>1. PICK m \in Message : Receive(s, m)
        BY <1>3 DEF HandleData
    <2>2. UNCHANGED <<sess, down, conns, produced, task>>
        BY <1>3 DEF HandleData
    <2> QED
        BY <1>fresh, <1>same, <1>idle, <1>took, <2>1, <2>2
<1>4. CASE HandleClose(s)
    <2>1. PICK m \in Message : Receive(s, m) /\ Close(s, m.id)
        BY <1>4 DEF HandleClose
    <2>2. UNCHANGED <<sess, produced, task>>
        BY <1>4 DEF HandleClose
    <2>3. \A z \in Sessions : conns'[z] \subseteq conns[z]
        BY <1>t, <2>1 DEF Close
    <2> QED
        BY <1>fresh, <1>close, <1>idle, <1>took, <2>1, <2>2, <2>3 DEF Message
<1>5. CASE ServerLinkClosed(s)
    BY <1>5, <1>fresh, <1>same, <1>idle, <1>less DEF ServerLinkClosed, LinkLost
<1>6. CASE ServerHeartbeatTimeout(s)
    BY <1>6, <1>fresh, <1>same, <1>idle, <1>less DEF ServerHeartbeatTimeout, HeartbeatLost
<1>7. CASE CloseTransport(s)
    <2>1. \A z \in Sessions : conns'[z] \subseteq conns[z]
        BY <1>7, <1>t DEF CloseTransport, EndTransport
    <2> QED
        BY <1>7, <2>1, <1>fresh, <1>same, <1>idle, <1>less DEF CloseTransport, EndTransport
<1>8. ASSUME NEW id \in Ids, ConnectDone(s, id) PROVE HomeInv'
    <2>1. /\ task[s][id] = "connecting"
          /\ \E state \in {"reading", "refused", "abandoned"} : SetTask(s, id, state)
          /\ \E t \in {"TCP_CONNECT_ACK", "ERROR"} : Reply(s, Msg(t, id))
          /\ UNCHANGED <<sess, up, produced>>
          /\ conns' = conns \/ conns' = [conns EXCEPT ![s] = @ \cup {id}]
        BY <1>8 DEF ConnectDone, ConnectOk, ConnectFail, ConnectTimeout
    <2>2. home[id] = s
        BY <2>1 DEF WorkIsAtHome
    <2>3. RepliesAreAtHome'
        BY <1>reply, <2>1, <2>2, MessagesAreMessages DEF MessageType, Msg
    <2>4. \A z \in Sessions : conns'[z] \subseteq conns[z] \cup (IF z = s THEN {id} ELSE {})
        BY <1>t, <2>1
    <2>5. WorkIsAtHome' /\ RequestsAreFresh'
        BY <1>work, <2>1, <2>4 DEF TaskState
    <2> QED
        BY <1>fresh, <2>1, <2>3, <2>5
<1>9. ASSUME NEW id \in Ids, LateConnect(s, id) PROVE HomeInv'
    BY <1>9, <1>fresh, <1>same, <1>work DEF LateConnect, TaskState
<1>10. ASSUME NEW id \in Ids, ReadChunk(s, id) PROVE HomeInv'
    <2>1. produced'[s][id] # 0
        BY <1>10, <1>t DEF ReadChunk
    <2> QED
        BY <1>10, <2>1, <1>fresh, <1>same, <1>work DEF ReadChunk, TaskState
<1>11. ASSUME NEW id \in Ids, SendChunk(s, id) PROVE HomeInv'
    <2>1. home[id] = s
        BY <1>11 DEF SendChunk, WorkIsAtHome
    <2>2. DataMsg(id, produced[s][id]) \in Message /\ DataMsg(id, produced[s][id]).id = id
        BY <1>t DEF DataMsg, Message, MessageType
    <2>3. RepliesAreAtHome'
        BY <1>11, <1>reply, <2>1, <2>2 DEF SendChunk
    <2> QED
        BY <1>11, <2>3, <1>fresh, <1>work DEF SendChunk, TaskState
<1>12. ASSUME NEW id \in Ids, PipeEnd(s, id) PROVE HomeInv'
    <2>1. /\ task[s][id] = "reading"
          /\ \E state \in {"ended", "cut"} : SetTask(s, id, state)
          /\ Close(s, id)
          /\ UNCHANGED <<sess, up, produced>>
        BY <1>12 DEF PipeEnd
    <2>2. \A z \in Sessions : conns'[z] \subseteq conns[z]
        BY <1>t, <2>1 DEF Close
    <2>3. WorkIsAtHome' /\ RequestsAreFresh'
        BY <1>work, <2>1, <2>2 DEF TaskState
    <2> QED
        BY <1>fresh, <1>close, <2>1, <2>3
<1>13. ASSUME NEW id \in Ids, WriteFails(s, id) PROVE HomeInv'
    <2>1. \A z \in Sessions : conns'[z] \subseteq conns[z]
        BY <1>13, <1>t DEF WriteFails, Close
    <2> QED
        BY <1>13, <2>1, <1>fresh, <1>close, <1>idle, <1>less DEF WriteFails
<1> QED
    BY <1>1, <1>2, <1>3, <1>4, <1>5, <1>6, <1>7, <1>8, <1>9, <1>10, <1>11, <1>12, <1>13

\* A new session starts with what was queued, and nothing that was queued is a
\* request.
LEMMA NewSessionKeepsHome ==
    ASSUME TypeOK, HomeInv, NewSession
    PROVE  HomeInv'
<1> USE DEF HomeInv
<1>1. /\ UNCHANGED <<nextId, home, pending, rcvd, down, task, produced, conns>>
      /\ sess' = sess + 1 /\ queue' = <<>> /\ up' = [up EXCEPT ![sess + 1] = queue]
    BY DEF NewSession, Assign, FlushQueue, Accept, AssignSocket
<1>2. FreshIds'
    BY <1>1, WireAssumption DEF FreshIds, TypeOK, WireTypeOK, ClientTypeOK
<1>3. \A s \in Sessions : up'[s] = IF s = sess + 1 THEN queue ELSE up[s]
    BY <1>1 DEF TypeOK, WireTypeOK
<1>4. RequestsAreFresh'
    BY <1>1, <1>3 DEF RequestsAreFresh
<1> QED
    BY <1>1, <1>2, <1>4 DEF WorkIsAtHome, RepliesAreAtHome

LEMMA InitIsHome == Init => HomeInv
<1> SUFFICES ASSUME Init PROVE HomeInv
    OBVIOUS
<1>1. FreshIds
    BY WireAssumption DEF Init, WireInit, ClientInit, FreshIds
<1>2. RequestsAreFresh
    BY DEF Init, WireInit, ClientInit, RequestsAreFresh
<1>3. WorkIsAtHome
    BY DEF Init, ProxyInit, WorkIsAtHome
<1>4. RepliesAreAtHome
    BY DEF Init, WireInit, RepliesAreAtHome
<1> QED
    BY <1>1, <1>2, <1>3, <1>4 DEF HomeInv

\* A call, its request, the server's work for it and the replies all belong to
\* one session, however often the client reconnects.
THEOREM CallsStayHome == Spec => []HomeInv
<1>1. TypeOK /\ HomeInv /\ [Next]_vars => HomeInv'
    <2> SUFFICES ASSUME TypeOK, HomeInv, [Next]_vars PROVE HomeInv'
        OBVIOUS
    <2>1. CASE UNCHANGED vars
        BY <2>1 DEF vars, wireVars, clientVars, proxyVars, HomeInv, FreshIds,
                    RequestsAreFresh, WorkIsAtHome, RepliesAreAtHome
    <2> QED
        BY <2>1, ClientStepKeepsHome, ProxyStepKeepsHome, NewSessionKeepsHome DEF Next
<1> QED
    BY <1>1, InitIsHome, TypesAreCorrect, PTL DEF Spec

-----------------------------------------------------------------------------
(* Channels and what they carry of one stream                              *)

LEMMA ChunksAreNumbers ==
    ASSUME NEW ch \in Seq(Message), NEW k \in DOMAIN ch
    PROVE  ch[k].chunk \in Nat
<1>1. ch[k] \in Message
    BY ChannelElements
<1> QED
    BY <1>1, WireAssumption DEF Message

\* A message that is no chunk of id changes nothing for id.
LEMMA AppendOther ==
    ASSUME NEW ch \in Seq(Message), NEW m \in Message, NEW id \in Ids,
           NEW got \in Nat, NEW top \in Nat, ~IsChunk(m, id)
    PROVE  /\ InFlight(ch, id, got, top) => InFlight(Append(ch, m), id, got, top)
           /\ Reaches(ch, id, got, top) => Reaches(Append(ch, m), id, got, top)
<1> DEFINE new == Append(ch, m)
           n == Len(ch) + 1
<1>1. /\ DOMAIN new = DOMAIN ch \cup {n}
      /\ \A k \in DOMAIN ch : new[k] = ch[k] /\ k < n
      /\ new[n] = m
    BY AppendElements
<1>2. \A k \in DOMAIN new : IsChunk(new[k], id) => k \in DOMAIN ch /\ new[k] = ch[k]
    BY <1>1
<1> HIDE DEF new, n
<1>3. InFlight(ch, id, got, top) => InFlight(new, id, got, top)
    BY <1>1, <1>2 DEF InFlight
<1>4. Reaches(ch, id, got, top) => Reaches(new, id, got, top)
    BY <1>1, <1>2 DEF Reaches
<1> QED
    BY <1>3, <1>4 DEF new

\* The chunk after the last one sent continues what is in flight.
LEMMA AppendNext ==
    ASSUME NEW ch \in Seq(Message), NEW m \in Message, NEW id \in Ids,
           NEW got \in Nat, NEW top \in Nat, got <= top,
           IsChunk(m, id), m.chunk = top + 1,
           InFlight(ch, id, got, top), Reaches(ch, id, got, top)
    PROVE  /\ InFlight(Append(ch, m), id, got, top + 1)
           /\ Reaches(Append(ch, m), id, got, top + 1)
<1> DEFINE new == Append(ch, m)
           n == Len(ch) + 1
<1>1. /\ DOMAIN new = DOMAIN ch \cup {n}
      /\ \A k \in DOMAIN ch : new[k] = ch[k] /\ k < n /\ k \in Nat
      /\ new[n] = m /\ n \in Nat
    BY AppendElements
<1>2. \A k \in DOMAIN ch : ch[k].chunk \in Nat
    BY ChunksAreNumbers
<1> HIDE DEF new, n
<1>3. ASSUME NEW v \in got + 1 .. top
      PROVE  \E j \in DOMAIN ch : IsChunk(ch[j], id) /\ ch[j].chunk = v
    <2>1. PICK k \in DOMAIN ch : IsChunk(ch[k], id) /\ ch[k].chunk = top
        BY <1>3 DEF Reaches
    <2>2. CASE v = top
        BY <2>1, <2>2
    <2>3. CASE v # top
        <3>1. v \in got + 1 .. ch[k].chunk - 1
            BY <1>3, <2>1, <2>3
        <3> QED
            BY <2>1, <3>1 DEF InFlight
    <2> QED
        BY <2>2, <2>3
<1>4. ASSUME NEW k \in DOMAIN new, IsChunk(new[k], id)
      PROVE  /\ got < new[k].chunk
             /\ new[k].chunk <= top + 1
             /\ \A j \in DOMAIN new : IsChunk(new[j], id) /\ j < k => new[j].chunk < new[k].chunk
             /\ \A v \in got + 1 .. new[k].chunk - 1 :
                   \E j \in DOMAIN new : IsChunk(new[j], id) /\ new[j].chunk = v
    <2>1. CASE k = n
        <3>1. new[k].chunk = top + 1
            BY <1>1, <2>1
        <3>2. \A j \in DOMAIN new : IsChunk(new[j], id) /\ j < k => new[j].chunk <= top
            BY <1>1, <2>1 DEF InFlight
        <3>3. \A j \in DOMAIN new : j < k => new[j].chunk \in Nat
            BY <1>1, <1>2, <2>1
        <3>4. \A v \in got + 1 .. top :
                  \E j \in DOMAIN new : IsChunk(new[j], id) /\ new[j].chunk = v
            BY <1>1, <1>3
        <3> QED
            BY <3>1, <3>2, <3>3, <3>4
    <2>2. CASE k # n
        <3>1. k \in DOMAIN ch /\ new[k] = ch[k] /\ ch[k].chunk \in Nat
            BY <1>1, <1>2, <1>4, <2>2
        <3>2. /\ got < ch[k].chunk
              /\ ch[k].chunk <= top
              /\ \A j \in DOMAIN ch : IsChunk(ch[j], id) /\ j < k => ch[j].chunk < ch[k].chunk
              /\ \A v \in got + 1 .. ch[k].chunk - 1 :
                    \E j \in DOMAIN ch : IsChunk(ch[j], id) /\ ch[j].chunk = v
            BY <1>4, <3>1 DEF InFlight
        <3>3. \A j \in DOMAIN new : j < k => j \in DOMAIN ch /\ new[j] = ch[j]
            BY <1>1, <3>1
        <3> QED
            BY <1>1, <3>1, <3>2, <3>3
    <2> QED
        BY <2>1, <2>2
<1>5. InFlight(new, id, got, top + 1)
    BY <1>4 DEF InFlight
<1>6. Reaches(new, id, got, top + 1)
    BY <1>1 DEF Reaches
<1> QED
    BY <1>5, <1>6 DEF new

\* Taking a message that is no chunk of id changes nothing for id.
LEMMA TailOther ==
    ASSUME NEW ch \in Seq(Message), ch # <<>>, NEW id \in Ids,
           NEW got \in Nat, NEW top \in Nat, ~IsChunk(Head(ch), id)
    PROVE  /\ InFlight(ch, id, got, top) => InFlight(Tail(ch), id, got, top)
           /\ Reaches(ch, id, got, top) => Reaches(Tail(ch), id, got, top)
<1> DEFINE new == Tail(ch)
<1>1. /\ Head(ch) = ch[1]
      /\ \A k \in DOMAIN new : k + 1 \in DOMAIN ch /\ new[k] = ch[k + 1] /\ k \in Nat
    BY TailElements
<1>2. \A k \in DOMAIN ch : k # 1 => k - 1 \in DOMAIN new /\ new[k - 1] = ch[k]
    <2>1. DOMAIN ch = 1 .. Len(ch) /\ DOMAIN new = 1 .. Len(ch) - 1 /\ Len(ch) \in Nat
        BY HeadTailProperties
    <2> QED
        BY <1>1, <2>1
<1>3. \A k \in DOMAIN ch : IsChunk(ch[k], id) => k - 1 \in DOMAIN new /\ new[k - 1] = ch[k]
    BY <1>1, <1>2
<1> HIDE DEF new
<1>4. ASSUME InFlight(ch, id, got, top) PROVE InFlight(new, id, got, top)
    <2> SUFFICES ASSUME NEW k \in DOMAIN new, IsChunk(new[k], id)
                 PROVE  /\ got < new[k].chunk
                        /\ new[k].chunk <= top
                        /\ \A j \in DOMAIN new : IsChunk(new[j], id) /\ j < k =>
                              new[j].chunk < new[k].chunk
                        /\ \A v \in got + 1 .. new[k].chunk - 1 :
                              \E j \in DOMAIN new : IsChunk(new[j], id) /\ new[j].chunk = v
        BY DEF InFlight
    <2>1. k + 1 \in DOMAIN ch /\ new[k] = ch[k + 1] /\ IsChunk(ch[k + 1], id)
        BY <1>1
    <2>2. got < new[k].chunk /\ new[k].chunk <= top
        BY <1>4, <2>1 DEF InFlight
    <2>3. \A j \in DOMAIN new : IsChunk(new[j], id) /\ j < k => new[j].chunk < new[k].chunk
        BY <1>1, <1>4, <2>1 DEF InFlight
    <2>4. ASSUME NEW v \in got + 1 .. new[k].chunk - 1
          PROVE  \E j \in DOMAIN new : IsChunk(new[j], id) /\ new[j].chunk = v
        <3>1. PICK j \in DOMAIN ch : IsChunk(ch[j], id) /\ ch[j].chunk = v
            BY <1>4, <2>1 DEF InFlight
        <3> QED
            BY <1>3, <3>1
    <2> QED
        BY <2>2, <2>3, <2>4
<1>5. ASSUME Reaches(ch, id, got, top) PROVE Reaches(new, id, got, top)
    BY <1>3, <1>5 DEF Reaches
<1> QED
    BY <1>4, <1>5 DEF new

\* The first chunk in flight is the next one to be got.
LEMMA TailNext ==
    ASSUME NEW ch \in Seq(Message), ch # <<>>, NEW id \in Ids,
           NEW got \in Nat, NEW top \in Nat, IsChunk(Head(ch), id),
           InFlight(ch, id, got, top)
    PROVE  /\ Head(ch).chunk = got + 1
           /\ got + 1 <= top
           /\ InFlight(Tail(ch), id, got + 1, top)
           /\ Reaches(ch, id, got, top) => Reaches(Tail(ch), id, got + 1, top)
<1> DEFINE new == Tail(ch)
<1>1. /\ Head(ch) = ch[1] /\ 1 \in DOMAIN ch
      /\ \A k \in DOMAIN new : k + 1 \in DOMAIN ch /\ new[k] = ch[k + 1] /\ k \in Nat /\ k # 0
    BY TailElements
<1>2. \A k \in DOMAIN ch : k # 1 => k - 1 \in DOMAIN new /\ new[k - 1] = ch[k]
    <2>1. DOMAIN ch = 1 .. Len(ch) /\ DOMAIN new = 1 .. Len(ch) - 1 /\ Len(ch) \in Nat
        BY HeadTailProperties
    <2> QED
        BY <1>1, <2>1
<1>3. \A k \in DOMAIN ch : ch[k].chunk \in Nat /\ k \in Nat /\ k # 0
    BY ChunksAreNumbers
<1> HIDE DEF new
<1>4. ch[1].chunk = got + 1 /\ got + 1 <= top
    <2>1. got < ch[1].chunk /\ ch[1].chunk <= top
        BY <1>1 DEF InFlight
    <2>2. ASSUME got + 1 < ch[1].chunk PROVE FALSE
        <3>1. got + 1 \in got + 1 .. ch[1].chunk - 1
            BY <1>1, <1>3, <2>2
        <3>2. PICK j \in DOMAIN ch : IsChunk(ch[j], id) /\ ch[j].chunk = got + 1
            BY <1>1, <3>1 DEF InFlight
        <3>3. 1 < j
            BY <1>3, <2>2, <3>2
        <3>4. ch[1].chunk < ch[j].chunk
            BY <1>1, <3>2, <3>3 DEF InFlight
        <3> QED
            BY <1>1, <1>3, <2>2, <3>2, <3>4
    <2> QED
        BY <1>1, <1>3, <2>1, <2>2
<1>5. \A k \in DOMAIN ch : k # 1 /\ IsChunk(ch[k], id) => got + 1 < ch[k].chunk
    BY <1>1, <1>3, <1>4 DEF InFlight
<1>6. ASSUME NEW k \in DOMAIN new, IsChunk(new[k], id)
      PROVE  /\ got + 1 < new[k].chunk
             /\ new[k].chunk <= top
             /\ \A j \in DOMAIN new : IsChunk(new[j], id) /\ j < k => new[j].chunk < new[k].chunk
             /\ \A v \in (got + 1) + 1 .. new[k].chunk - 1 :
                   \E j \in DOMAIN new : IsChunk(new[j], id) /\ new[j].chunk = v
    <2>1. k + 1 \in DOMAIN ch /\ k + 1 # 1 /\ new[k] = ch[k + 1] /\ IsChunk(ch[k + 1], id)
        BY <1>1, <1>6
    <2>2. got + 1 < new[k].chunk /\ new[k].chunk <= top
        BY <1>5, <2>1 DEF InFlight
    <2>3. \A j \in DOMAIN new : IsChunk(new[j], id) /\ j < k => new[j].chunk < new[k].chunk
        BY <1>1, <2>1 DEF InFlight
    <2>4. ASSUME NEW v \in (got + 1) + 1 .. new[k].chunk - 1
          PROVE  \E j \in DOMAIN new : IsChunk(new[j], id) /\ new[j].chunk = v
        <3>1. v \in got + 1 .. ch[k + 1].chunk - 1 /\ v # got + 1
            BY <1>3, <2>1
        <3>2. PICK j \in DOMAIN ch : IsChunk(ch[j], id) /\ ch[j].chunk = v
            BY <2>1, <3>1 DEF InFlight
        <3>3. j # 1
            BY <1>4, <3>1, <3>2
        <3> QED
            BY <1>2, <3>2, <3>3
    <2> QED
        BY <2>2, <2>3, <2>4
<1>7. InFlight(new, id, got + 1, top)
    BY <1>6 DEF InFlight
<1>8. ASSUME Reaches(ch, id, got, top) PROVE Reaches(new, id, got + 1, top)
    <2>1. PICK k \in DOMAIN ch : IsChunk(ch[k], id) /\ ch[k].chunk = top
        BY <1>4, <1>8 DEF Reaches
    <2>2. CASE k = 1
        BY <1>4, <2>1, <2>2 DEF Reaches
    <2>3. CASE k # 1
        BY <1>2, <2>1, <2>3 DEF Reaches
    <2> QED
        BY <2>2, <2>3
<1> QED
    BY <1>1, <1>4, <1>7, <1>8 DEF new

-----------------------------------------------------------------------------
(* Deliveries, step by step                                                *)

\* A call that was made has a session, and the client is not in an earlier one.
LEMMA HomeIsSession ==
    ASSUME TypeOK, HomeInv, NEW id \in Ids, home[id] # 0
    PROVE  home[id] \in Sessions /\ home[id] <= sess /\ sess \in Nat
BY WireAssumption DEF TypeOK, WireTypeOK, ClientTypeOK, HomeInv, FreshIds, Sessions

\* A chunk being held has been produced, so what was sent is a number.
LEMMA SentUpIsNumber ==
    ASSUME TypeOK, HomeInv, NEW s \in Sessions, NEW id \in Ids
    PROVE  /\ SentUp(s, id) \in Nat
           /\ produced[s][id] \in Nat
           /\ SentUp(s, id) <= produced[s][id]
<1>1. produced[s][id] \in Nat
    BY WireAssumption DEF TypeOK, ProxyTypeOK
<1>2. task[s][id] = "holding" => produced[s][id] # 0
    BY DEF HomeInv, WorkIsAtHome
<1> QED
    BY <1>1, <1>2 DEF SentUp

\* A link that is no longer whole stays so: no step brings a session back.
LEMMA WholeOnlyEnds ==
    ASSUME TypeOK, NEW s \in Sessions, s <= sess, Next, Whole(s)'
    PROVE  Whole(s)
<1> USE DEF Whole, LinkUp
<1>t. /\ sws \in [Sessions -> BOOLEAN] /\ sess \in Nat
      /\ tstate \in [Sessions -> TransportState]
    BY DEF TypeOK, WireTypeOK, ProxyTypeOK
<1>1. CASE NewSession
    BY <1>1, <1>t DEF NewSession, Assign, Sessions
<1>2. CASE ClientNext /\ UNCHANGED proxyVars
    <2>1. UNCHANGED <<sess, sws>> /\ (cws' => cws)
        BY <1>2 DEF ClientNext, Connect, RequestTimeout, Cancel, Write, CloseWriter, Reap,
                    NoHandler, ConnectAck, StreamData, StreamClose, StreamError,
                    ClientLinkClosed, HeartbeatTimeout, CloseClient
    <2>2. UNCHANGED tstate
        BY <1>2 DEF proxyVars
    <2> QED
        BY <2>1, <2>2
<1>3. CASE ProxyNext /\ UNCHANGED clientVars
    <2>1. UNCHANGED <<sess, cws>>
        BY <1>3 DEF ProxyNext, HandleConnect, HandleData, HandleClose, ServerLinkClosed, LinkLost,
                    ServerHeartbeatTimeout, HeartbeatLost, CloseTransport, EndTransport, ConnectDone, ConnectOk,
                    ConnectFail, ConnectTimeout, LateConnect, ReadChunk, SendChunk,
                    PipeEnd, WriteFails
    <2>2. PICK z \in Sessions :
              \/ UNCHANGED <<sws, tstate>>
              \/ ServerLinkClosed(z)
              \/ ServerHeartbeatTimeout(z)
              \/ CloseTransport(z)
        BY <1>3 DEF ProxyNext, HandleConnect, HandleData, HandleClose,
                    ConnectDone, ConnectOk, ConnectFail, ConnectTimeout, LateConnect,
                    ReadChunk, SendChunk, PipeEnd, WriteFails
    <2>3. CASE UNCHANGED <<sws, tstate>>
        BY <2>1, <2>3
    <2>4. CASE ServerLinkClosed(z)
        BY <1>t, <2>1, <2>4 DEF ServerLinkClosed, LinkLost
    <2>5. CASE ServerHeartbeatTimeout(z)
        BY <1>t, <2>1, <2>5 DEF ServerHeartbeatTimeout, HeartbeatLost
    <2>6. CASE CloseTransport(z)
        BY <1>t, <2>1, <2>6 DEF CloseTransport, EndTransport
    <2> QED
        BY <2>2, <2>3, <2>4, <2>5, <2>6
<1> QED
    BY <1>1, <1>2, <1>3 DEF Next

\* What a step leaves alone stays delivered in order.
LEMMA DeliveryIsLeftAlone ==
    ASSUME TypeOK, NEW id \in Ids, NEW s \in Sessions, s = home[id], DeliveryOf(id),
           s <= sess, Next,
           home'[id] = home[id], rcvd'[id] = rcvd[id], down'[s] = down[s],
           id \in pending' => id \in pending,
           task'[s][id] = task[s][id], produced'[s][id] = produced[s][id]
    PROVE  DeliveryOf(id)'
<1>1. Whole(s)' => Whole(s)
    BY WholeOnlyEnds
<1>2. /\ \A k \in DOMAIN rcvd[id] : rcvd[id][k] = k
      /\ Len(rcvd[id]) <= SentUp(s, id)
      /\ id \in pending => InFlight(down[s], id, Len(rcvd[id]), SentUp(s, id))
      /\ id \in pending /\ Whole(s) => Reaches(down[s], id, Len(rcvd[id]), SentUp(s, id))
    BY DEF DeliveryOf, Delivery
<1>3. SentUp(s, id)' = SentUp(s, id)
    BY DEF SentUp
<1> QED
    BY <1>1, <1>2, <1>3 DEF DeliveryOf, Delivery

\* The client takes a message: a chunk goes to the reader it is meant for, or
\* that reader's entry is gone.
LEMMA TakeKeepsDelivery ==
    ASSUME TypeOK, HomeInv, NEW id \in Ids, NEW s \in Sessions, s = home[id],
           DeliveryOf(id), s <= sess, Next,
           NEW m \in Message, Take(m),
           home'[id] = home[id], id \in pending' => id \in pending,
           UNCHANGED <<task, produced>>,
           \/ rcvd'[id] = rcvd[id] /\ (id \notin pending' \/ ~IsChunk(m, id))
           \/ id \in pending /\ IsChunk(m, id) /\ rcvd'[id] = Append(rcvd[id], m.chunk)
    PROVE  DeliveryOf(id)'
<1> DEFINE r == rcvd[id]
           ch == down[s]
           top == SentUp(s, id)
<1>1. Whole(s)' => Whole(s)
    BY WholeOnlyEnds
<1>2. /\ \A k \in DOMAIN r : r[k] = k
      /\ Len(r) <= top
      /\ id \in pending => InFlight(ch, id, Len(r), top)
      /\ id \in pending /\ Whole(s) => Reaches(ch, id, Len(r), top)
    BY DEF DeliveryOf, Delivery
<1>3. r \in Seq(0 .. MaxChunks) /\ Len(r) \in Nat /\ ch \in Seq(Message)
    BY DEF TypeOK, WireTypeOK, ClientTypeOK
<1>4. SentUp(s, id)' = top /\ top \in Nat
    BY SentUpIsNumber DEF SentUp
<1>5. CASE s # sess
    <2>1. down'[s] = ch
        BY <1>5, TakeIsTyped DEF Take, TypeOK, WireTypeOK
    <2>2. m.id # id
        <3>1. /\ sess \in Sessions /\ down[sess] # <<>> /\ m = Head(down[sess])
              /\ down[sess] \in Seq(Message)
            BY TakeIsTyped DEF Take, TypeOK, WireTypeOK
        <3>2. 1 \in DOMAIN down[sess] /\ m = down[sess][1]
            BY <3>1
        <3>3. home[m.id] = sess
            BY <3>1, <3>2 DEF HomeInv, RepliesAreAtHome
        <3> QED
            BY <1>5, <3>3
    <2> QED
        BY <2>1, <2>2, DeliveryIsLeftAlone DEF IsChunk
<1>6. CASE s = sess
    <2>1. ch # <<>> /\ m = Head(ch) /\ down'[s] = Tail(ch)
        BY <1>6 DEF Take, TypeOK, WireTypeOK
    <2>2. CASE rcvd'[id] = r /\ id \notin pending'
        BY <1>2, <1>4, <2>2 DEF DeliveryOf, Delivery
    <2>3. CASE rcvd'[id] = r /\ ~IsChunk(m, id)
        <3>1. /\ InFlight(ch, id, Len(r), top) => InFlight(Tail(ch), id, Len(r), top)
              /\ Reaches(ch, id, Len(r), top) => Reaches(Tail(ch), id, Len(r), top)
            BY <1>3, <1>4, <2>1, <2>3, TailOther
        <3> QED
            BY <1>1, <1>2, <1>4, <2>1, <2>3, <3>1 DEF DeliveryOf, Delivery
    <2>4. CASE id \in pending /\ IsChunk(m, id) /\ rcvd'[id] = Append(r, m.chunk)
        <3>1. /\ m.chunk = Len(r) + 1
              /\ Len(r) + 1 <= top
              /\ InFlight(Tail(ch), id, Len(r) + 1, top)
              /\ Reaches(ch, id, Len(r), top) => Reaches(Tail(ch), id, Len(r) + 1, top)
            BY <1>2, <1>3, <1>4, <2>1, <2>4, TailNext
        <3>2. /\ Len(rcvd'[id]) = Len(r) + 1
              /\ \A k \in DOMAIN rcvd'[id] : rcvd'[id][k] = k
            <4>1. m.chunk \in 0 .. MaxChunks
                BY DEF Message
            <4>2. /\ DOMAIN Append(r, m.chunk) = 1 .. Len(r) + 1 /\ DOMAIN r = 1 .. Len(r)
                  /\ Len(Append(r, m.chunk)) = Len(r) + 1
                  /\ \A k \in 1 .. Len(r) : Append(r, m.chunk)[k] = r[k]
                  /\ Append(r, m.chunk)[Len(r) + 1] = m.chunk
                BY <1>3, <4>1, AppendProperties
            <4>3. \A k \in 1 .. Len(r) + 1 : k \in 1 .. Len(r) \/ k = Len(r) + 1
                BY <1>3
            <4> QED
                BY <1>2, <2>4, <3>1, <4>2, <4>3
        <3> QED
            BY <1>1, <1>2, <1>4, <2>1, <2>4, <3>1, <3>2 DEF DeliveryOf, Delivery
    <2> QED
        BY <2>2, <2>3, <2>4
<1> QED
    BY <1>5, <1>6

\* The client loses what was on its way: its link is not whole any more.
LEMMA LossKeepsDelivery ==
    ASSUME TypeOK, HomeInv, NEW id \in Ids, NEW s \in Sessions, s = home[id],
           DeliveryOf(id), s <= sess, Next,
           down' = [down EXCEPT ![sess] = <<>>], UNCHANGED <<sess, task, produced>>, ~cws',
           home'[id] = home[id], rcvd'[id] = rcvd[id], id \in pending' => id \in pending
    PROVE  DeliveryOf(id)'
<1>1. CASE s # sess
    BY <1>1, DeliveryIsLeftAlone DEF TypeOK, WireTypeOK
<1>2. CASE s = sess
    <2>1. down'[s] = <<>> /\ ~Whole(s)' /\ SentUp(s, id)' = SentUp(s, id)
        BY <1>2 DEF Whole, LinkUp, SentUp, TypeOK, WireTypeOK
    <2>2. InFlight(<<>>, id, Len(rcvd[id]), SentUp(s, id))
        BY DEF InFlight
    <2>3. /\ \A k \in DOMAIN rcvd[id] : rcvd[id][k] = k
          /\ Len(rcvd[id]) <= SentUp(s, id)
        BY DEF DeliveryOf, Delivery
    <2> QED
        BY <2>1, <2>2, <2>3 DEF DeliveryOf, Delivery
<1> QED
    BY <1>1, <1>2

\* A new call starts with nothing received, sent or in flight.
LEMMA ConnectStartsDelivery ==
    ASSUME TypeOK, HomeInv, Connect, UNCHANGED proxyVars,
           NEW id \in Ids, id = nextId
    PROVE  DeliveryOf(id)'
<1> DEFINE s == sess
<1>1. s \in Sessions /\ s # 0 /\ home[id] = 0 /\ rcvd[id] = <<>>
    BY WireAssumption
    DEF Connect, TypeOK, WireTypeOK, ClientTypeOK, Ids, Sessions, HomeInv, FreshIds
<1>2. home'[id] = s /\ rcvd'[id] = <<>> /\ down' = down
    BY <1>1 DEF Connect, TypeOK, ClientTypeOK
<1>3. task'[s][id] = "none" /\ produced'[s][id] = 0
    BY <1>1 DEF HomeInv, WorkIsAtHome, proxyVars
<1>4. \A k \in DOMAIN down[s] : down[s][k].id # id
    BY <1>1 DEF HomeInv, RepliesAreAtHome
<1>5. InFlight(down[s], id, 0, 0) /\ Reaches(down[s], id, 0, 0)
    BY <1>4 DEF InFlight, Reaches, IsChunk
<1> HIDE DEF s
<1>6. SentUp(home[id], id)' = 0
    BY <1>2, <1>3 DEF SentUp
<1> QED
    BY <1>2, <1>5, <1>6 DEF DeliveryOf, Delivery

\* The client only ever takes the next chunk of a stream.
LEMMA ClientStepKeepsChunks ==
    ASSUME TypeOK, HomeInv, EntryHasOpenReader, ChunksInv, ClientNext, UNCHANGED proxyVars
    PROVE  ChunksInv'
<1> SUFFICES ASSUME NEW id \in Ids, home'[id] # 0
             PROVE  DeliveryOf(id)'
    BY DEF ChunksInv
<1>n. Next
    BY DEF Next
<1>p. UNCHANGED <<task, produced>>
    BY DEF proxyVars
<1> DEFINE s == home[id]
<1>old. ASSUME home'[id] = home[id]
        PROVE  s \in Sessions /\ s <= sess /\ DeliveryOf(id)
    BY <1>old, HomeIsSession DEF ChunksInv
<1>same. ASSUME UNCHANGED <<home, rcvd, down>>, pending' \subseteq pending
         PROVE  DeliveryOf(id)'
    BY <1>same, <1>old, <1>n, <1>p, DeliveryIsLeftAlone
<1>take. ASSUME NEW m \in Message, Take(m), UNCHANGED home, pending' \subseteq pending,
                rcvd'[id] = rcvd[id], id \notin pending' \/ ~IsChunk(m, id)
         PROVE  DeliveryOf(id)'
    BY <1>take, <1>old, <1>n, <1>p, TakeKeepsDelivery
<1>lost. ASSUME UNCHANGED <<home, rcvd, sess>>, pending' \subseteq pending, ~cws',
                down' = [down EXCEPT ![sess] = <<>>]
         PROVE  DeliveryOf(id)'
    <2>1. home'[id] = home[id] /\ rcvd'[id] = rcvd[id] /\ (id \in pending' => id \in pending)
        BY <1>lost
    <2>2. UNCHANGED <<sess, task, produced>>
        BY <1>lost, <1>p
    <2>3. s \in Sessions /\ s <= sess /\ DeliveryOf(id)
        BY <1>old, <2>1
    <2> HIDE DEF s
    <2> QED
        BY <1>lost, <1>n, <2>1, <2>2, <2>3, LossKeepsDelivery DEF s
<1>1. CASE Connect
    <2>1. CASE id = nextId
        BY <1>1, <2>1, ConnectStartsDelivery
    <2>2. CASE id # nextId
        <3>1. /\ home'[id] = home[id] /\ rcvd' = rcvd /\ down' = down
              /\ id \in pending' => id \in pending
            BY <1>1, <2>2 DEF Connect, TypeOK, ClientTypeOK
        <3> QED
            BY <1>old, <1>n, <1>p, <3>1, DeliveryIsLeftAlone
    <2> QED
        BY <2>1, <2>2
<1>2. ASSUME NEW i \in Ids, RequestTimeout(i) PROVE DeliveryOf(id)'
    BY <1>2, <1>same DEF RequestTimeout
<1>3. ASSUME NEW i \in Ids, Cancel(i) PROVE DeliveryOf(id)'
    BY <1>3, <1>same DEF Cancel
<1>4. ASSUME NEW i \in Ids, Write(i) PROVE DeliveryOf(id)'
    BY <1>4, <1>same DEF Write
<1>5. ASSUME NEW i \in Ids, CloseWriter(i) PROVE DeliveryOf(id)'
    BY <1>5, <1>same DEF CloseWriter
<1>6. CASE Reap
    BY <1>6, <1>same DEF Reap
<1>7. CASE NoHandler
    BY <1>7, <1>take DEF NoHandler, IsChunk
<1>8. CASE ConnectAck
    BY <1>8, <1>take DEF ConnectAck, IsChunk
<1>9. CASE StreamData
    <2>1. PICK m \in Message :
              /\ Take(m)
              /\ m.id \in pending
              /\ m.type = "TCP_DATA"
              /\ rcvd' = [rcvd EXCEPT ![m.id] = Append(@, m.chunk)]
              /\ UNCHANGED pending
        BY <1>9 DEF StreamData, EntryHasOpenReader, TypeOK, ClientTypeOK
    <2>2. UNCHANGED home
        BY <1>9 DEF StreamData
    <2>3. CASE m.id = id
        <3>1. /\ rcvd'[id] = Append(rcvd[id], m.chunk)
              /\ id \in pending /\ IsChunk(m, id)
            BY <2>1, <2>3 DEF IsChunk, TypeOK, ClientTypeOK
        <3> QED
            BY <1>old, <1>n, <1>p, <2>1, <2>2, <3>1, TakeKeepsDelivery
    <2>4. CASE m.id # id
        <3>1. rcvd'[id] = rcvd[id] /\ ~IsChunk(m, id)
            BY <2>1, <2>4 DEF IsChunk, TypeOK, ClientTypeOK
        <3> QED
            BY <1>take, <2>1, <2>2, <3>1
    <2> QED
        BY <2>3, <2>4
<1>10. CASE StreamClose
    BY <1>10, <1>take DEF StreamClose, IsChunk
<1>11. CASE StreamError
    BY <1>11, <1>take DEF StreamError, IsChunk
<1>12. ASSUME HandleDisconnect PROVE pending' \subseteq pending
    BY <1>12 DEF HandleDisconnect, RejectPending
<1>13. CASE ClientLinkClosed
    BY <1>12, <1>13, <1>lost DEF ClientLinkClosed
<1>14. CASE HeartbeatTimeout
    BY <1>12, <1>14, <1>same DEF HeartbeatTimeout
<1>15. CASE CloseClient
    <2>1. /\ UNCHANGED <<home, rcvd, sess>> /\ pending' \subseteq pending /\ ~cws'
          /\ down' = down \/ down' = [down EXCEPT ![sess] = <<>>]
        BY <1>15 DEF CloseClient, RejectPending
    <2> QED
        BY <1>same, <1>lost, <2>1
<1> QED
    BY <1>1, <1>2, <1>3, <1>4, <1>5, <1>6, <1>7, <1>8, <1>9, <1>10, <1>11,
       <1>13, <1>14, <1>15 DEF ClientNext

\* The server says something else: nothing changes for the stream.
LEMMA ReplyKeepsDelivery ==
    ASSUME TypeOK, HomeInv, NEW id \in Ids, NEW s \in Sessions, s = home[id],
           DeliveryOf(id), s <= sess, Next,
           NEW z \in Sessions, NEW m \in Message, Reply(z, m), z # s \/ ~IsChunk(m, id),
           UNCHANGED clientVars, SentUp(s, id)' = SentUp(s, id)
    PROVE  DeliveryOf(id)'
<1> DEFINE r == rcvd[id]
           ch == down[s]
           top == SentUp(s, id)
<1>1. Whole(s)' => Whole(s)
    BY WholeOnlyEnds
<1>2. /\ \A k \in DOMAIN r : r[k] = k
      /\ Len(r) <= top
      /\ id \in pending => InFlight(ch, id, Len(r), top)
      /\ id \in pending /\ Whole(s) => Reaches(ch, id, Len(r), top)
    BY DEF DeliveryOf, Delivery
<1>3. Len(r) \in Nat /\ ch \in Seq(Message) /\ top \in Nat
    BY SentUpIsNumber DEF TypeOK, WireTypeOK, ClientTypeOK
<1>4. UNCHANGED <<home, rcvd, pending>>
    BY DEF clientVars
<1>5. CASE down'[s] = ch
    BY <1>1, <1>2, <1>4, <1>5 DEF DeliveryOf, Delivery
<1>6. CASE down'[s] = Append(ch, m) /\ ~IsChunk(m, id)
    <2>1. /\ InFlight(ch, id, Len(r), top) => InFlight(Append(ch, m), id, Len(r), top)
          /\ Reaches(ch, id, Len(r), top) => Reaches(Append(ch, m), id, Len(r), top)
        BY <1>3, <1>6, AppendOther
    <2> QED
        BY <1>1, <1>2, <1>4, <1>6, <2>1 DEF DeliveryOf, Delivery
<1> QED
    BY <1>5, <1>6 DEF Reply, TypeOK, WireTypeOK

\* The server sends the chunk it holds: the next one.
LEMMA SendChunkKeepsDelivery ==
    ASSUME TypeOK, HomeInv, NEW id \in Ids, NEW s \in Sessions, s = home[id],
           DeliveryOf(id), s <= sess, Next,
           SendChunk(s, id), UNCHANGED clientVars
    PROVE  DeliveryOf(id)'
<1> DEFINE r == rcvd[id]
           ch == down[s]
           top == SentUp(s, id)
           m == DataMsg(id, produced[s][id])
<1>1. Whole(s)' => Whole(s)
    BY WholeOnlyEnds
<1>2. /\ \A k \in DOMAIN r : r[k] = k
      /\ Len(r) <= top
      /\ id \in pending => InFlight(ch, id, Len(r), top)
      /\ id \in pending /\ Whole(s) => Reaches(ch, id, Len(r), top)
    BY DEF DeliveryOf, Delivery
<1>3. Len(r) \in Nat /\ ch \in Seq(Message) /\ top \in Nat
    BY SentUpIsNumber DEF TypeOK, WireTypeOK, ClientTypeOK
<1>4. UNCHANGED <<home, rcvd, pending>>
    BY DEF clientVars
<1>5. produced[s][id] = top + 1 /\ SentUp(s, id)' = top + 1
    <2>1. task[s][id] = "holding" /\ task'[s][id] = "reading" /\ produced' = produced
        BY DEF SendChunk, SetTask, TypeOK, ProxyTypeOK
    <2>2. produced[s][id] \in Nat
        BY SentUpIsNumber
    <2> QED
        BY <2>1, <2>2 DEF SentUp
<1>6. m \in Message /\ IsChunk(m, id) /\ m.chunk = top + 1
    <2>1. produced[s][id] \in 0 .. MaxChunks
        BY DEF TypeOK, ProxyTypeOK
    <2> QED
        BY <1>5, <2>1 DEF DataMsg, Message, MessageType, IsChunk
<1> HIDE DEF m
<1>7. CASE Whole(s)
    <2>1. down'[s] = Append(ch, m)
        BY <1>7 DEF SendChunk, Reply, Whole, m, TypeOK, WireTypeOK
    <2>2. id \in pending =>
              /\ InFlight(Append(ch, m), id, Len(r), top + 1)
              /\ Reaches(Append(ch, m), id, Len(r), top + 1)
        BY <1>2, <1>3, <1>6, <1>7, AppendNext
    <2> QED
        BY <1>2, <1>3, <1>4, <1>5, <2>1, <2>2 DEF DeliveryOf, Delivery
<1>8. CASE ~Whole(s)
    <2>1. down'[s] = ch
        BY <1>8 DEF SendChunk, Reply, Whole
    <2>2. \A k \in DOMAIN ch : ch[k].chunk \in Nat
        BY <1>3, ChunksAreNumbers
    <2>3. InFlight(ch, id, Len(r), top) => InFlight(ch, id, Len(r), top + 1)
        BY <1>3, <2>2 DEF InFlight
    <2> QED
        BY <1>1, <1>2, <1>3, <1>4, <1>5, <1>8, <2>1, <2>3 DEF DeliveryOf, Delivery
<1> QED
    BY <1>7, <1>8

\* The server sends the chunks of a stream one after the other, in the session
\* of the call only.
LEMMA ProxyStepKeepsChunks ==
    ASSUME TypeOK, HomeInv, ChunksInv, ProxyNext, UNCHANGED clientVars
    PROVE  ChunksInv'
<1> SUFFICES ASSUME NEW id \in Ids, home'[id] # 0
             PROVE  DeliveryOf(id)'
    BY DEF ChunksInv
<1>n. Next
    BY DEF Next
<1>c. UNCHANGED <<home, rcvd, pending>>
    BY DEF clientVars
<1>h. PICK s \in Sessions : s = home[id] /\ s <= sess /\ DeliveryOf(id)
    BY <1>c, HomeIsSession DEF ChunksInv
<1>t. task \in [Sessions -> [Ids -> TaskState]] /\ produced \in [Sessions -> [Ids -> 0 .. MaxChunks]]
    BY DEF TypeOK, ProxyTypeOK
<1>1. PICK z \in Sessions :
          \/ HandleConnect(z) \/ HandleData(z) \/ HandleClose(z)
          \/ ServerLinkClosed(z) \/ ServerHeartbeatTimeout(z) \/ CloseTransport(z)
          \/ \E i \in Ids :
                \/ ConnectDone(z, i) \/ LateConnect(z, i)
                \/ ReadChunk(z, i) \/ SendChunk(z, i) \/ PipeEnd(z, i)
                \/ WriteFails(z, i)
    BY DEF ProxyNext
<1> DEFINE Quiet == SentUp(s, id)' = SentUp(s, id)
<1>quiet. ASSUME UNCHANGED <<task, produced>> PROVE Quiet
    BY <1>quiet DEF SentUp
<1>set. ASSUME NEW i \in Ids, NEW state, SetTask(z, i, state), UNCHANGED produced,
               state # "holding", task[z][i] # "holding"
        PROVE  Quiet
    <2>1. CASE z = s /\ i = id
        BY <1>set, <1>t, <2>1 DEF SetTask, SentUp
    <2>2. CASE ~(z = s /\ i = id)
        <3>1. task'[s][id] = task[s][id]
            BY <1>set, <1>t, <2>2 DEF SetTask
        <3> QED
            BY <1>set, <3>1 DEF SentUp
    <2> QED
        BY <2>1, <2>2
<1>same. ASSUME down' = down, Quiet PROVE DeliveryOf(id)'
    <2>1. Whole(s)' => Whole(s)
        BY <1>h, <1>n, WholeOnlyEnds
    <2> QED
        BY <1>c, <1>h, <1>same, <2>1 DEF DeliveryOf, Delivery
<1>reply. ASSUME NEW m \in Message, Reply(z, m), z # s \/ ~IsChunk(m, id), Quiet
          PROVE  DeliveryOf(id)'
    BY <1>h, <1>n, <1>reply, ReplyKeepsDelivery
<1>close. ASSUME NEW i \in Ids, Close(z, i), Quiet PROVE DeliveryOf(id)'
    <2>1. Msg("TCP_CLOSE", i) \in Message /\ ~IsChunk(Msg("TCP_CLOSE", i), id)
        BY MessagesAreMessages DEF MessageType, Msg, IsChunk
    <2> QED
        BY <1>close, <1>reply, <1>same, <2>1 DEF Close
<1>2. CASE HandleConnect(z)
    <2>1. PICK m \in Message : Receive(z, m) /\ m.type = "TCP_CONNECT" /\ SetTask(z, m.id, "connecting")
        BY <1>2 DEF HandleConnect
    <2>2. UNCHANGED <<down, produced>>
        BY <1>2 DEF HandleConnect
    <2>3. up[z] \in Seq(Message) /\ up[z] # <<>> /\ m = up[z][1] /\ 1 \in DOMAIN up[z]
        BY <2>1 DEF Receive, TypeOK, WireTypeOK
    <2>4. m.id \in Ids /\ task[z][m.id] = "none"
        BY <2>1, <2>3 DEF HomeInv, RequestsAreFresh, Message
    <2> QED
        BY <1>same, <1>set, <2>1, <2>2, <2>4
<1>3. CASE HandleData(z)
    BY <1>3, <1>quiet, <1>same DEF HandleData
<1>4. CASE HandleClose(z)
    <2>1. PICK m \in Message : Close(z, m.id) /\ m.id \in Ids
        BY <1>4 DEF HandleClose, Message
    <2>2. UNCHANGED <<task, produced>>
        BY <1>4 DEF HandleClose
    <2> QED
        BY <1>quiet, <1>close, <2>1, <2>2
<1>5. CASE ServerLinkClosed(z)
    BY <1>5, <1>quiet, <1>same DEF ServerLinkClosed, LinkLost
<1>6. CASE ServerHeartbeatTimeout(z)
    BY <1>6, <1>quiet, <1>same DEF ServerHeartbeatTimeout, HeartbeatLost
<1>7. CASE CloseTransport(z)
    BY <1>7, <1>quiet, <1>same DEF CloseTransport, EndTransport
<1>8. ASSUME NEW i \in Ids, ConnectDone(z, i) PROVE DeliveryOf(id)'
    <2>1. /\ task[z][i] = "connecting"
          /\ \E state \in {"reading", "refused", "abandoned"} : SetTask(z, i, state)
          /\ \E t \in {"TCP_CONNECT_ACK", "ERROR"} : Reply(z, Msg(t, i))
          /\ UNCHANGED produced
        BY <1>8 DEF ConnectDone, ConnectOk, ConnectFail, ConnectTimeout
    <2>2. Quiet
        BY <1>set, <2>1
    <2>3. PICK t \in {"TCP_CONNECT_ACK", "ERROR"} : Reply(z, Msg(t, i))
        BY <2>1
    <2>4. Msg(t, i) \in Message /\ ~IsChunk(Msg(t, i), id)
        BY MessagesAreMessages DEF MessageType, Msg, IsChunk
    <2> QED
        BY <1>reply, <2>2, <2>3, <2>4
<1>9. ASSUME NEW i \in Ids, LateConnect(z, i) PROVE DeliveryOf(id)'
    BY <1>9, <1>same, <1>set DEF LateConnect
<1>10. ASSUME NEW i \in Ids, ReadChunk(z, i) PROVE DeliveryOf(id)'
    <2>1. CASE z = s /\ i = id
        <3>1. /\ task[s][id] = "reading" /\ task'[s][id] = "holding"
              /\ produced'[s][id] = produced[s][id] + 1
              /\ produced[s][id] \in Nat
            BY <1>10, <1>t, <2>1, SentUpIsNumber DEF ReadChunk, SetTask
        <3>2. Quiet
            BY <3>1 DEF SentUp
        <3> QED
            BY <1>10, <1>same, <3>2 DEF ReadChunk
    <2>2. CASE ~(z = s /\ i = id)
        <3>1. task'[s][id] = task[s][id] /\ produced'[s][id] = produced[s][id]
            BY <1>10, <1>t, <2>2 DEF ReadChunk, SetTask
        <3>2. Quiet
            BY <3>1 DEF SentUp
        <3> QED
            BY <1>10, <1>same, <3>2 DEF ReadChunk
    <2> QED
        BY <2>1, <2>2
<1>11. ASSUME NEW i \in Ids, SendChunk(z, i) PROVE DeliveryOf(id)'
    <2>1. CASE z = s /\ i = id
        BY <1>11, <1>h, <1>n, <2>1, SendChunkKeepsDelivery
    <2>2. CASE ~(z = s /\ i = id)
        <3> DEFINE m == DataMsg(i, produced[z][i])
        <3>1. m \in Message /\ (z # s \/ ~IsChunk(m, id))
            BY <1>t, <2>2 DEF DataMsg, Message, MessageType, IsChunk
        <3>2. task'[s][id] = task[s][id] /\ produced' = produced
            BY <1>11, <1>t, <2>2 DEF SendChunk, SetTask
        <3>3. Quiet
            BY <3>2 DEF SentUp
        <3>4. Reply(z, m)
            BY <1>11 DEF SendChunk
        <3> HIDE DEF m
        <3> QED
            BY <1>reply, <3>1, <3>3, <3>4
    <2> QED
        BY <2>1, <2>2
<1>12. ASSUME NEW i \in Ids, PipeEnd(z, i) PROVE DeliveryOf(id)'
    <2>1. /\ task[z][i] = "reading"
          /\ \E state \in {"ended", "cut"} : SetTask(z, i, state)
          /\ Close(z, i)
          /\ UNCHANGED produced
        BY <1>12 DEF PipeEnd
    <2>2. Quiet
        BY <1>set, <2>1
    <2> QED
        BY <1>close, <2>1, <2>2
<1>13. ASSUME NEW i \in Ids, WriteFails(z, i) PROVE DeliveryOf(id)'
    BY <1>13, <1>quiet, <1>close DEF WriteFails
<1> QED
    BY <1>1, <1>2, <1>3, <1>4, <1>5, <1>6, <1>7, <1>8, <1>9, <1>10, <1>11, <1>12, <1>13

\* A new session leaves the streams of the earlier ones as they are.
LEMMA NewSessionKeepsChunks ==
    ASSUME TypeOK, HomeInv, ChunksInv, NewSession
    PROVE  ChunksInv'
<1>1. UNCHANGED <<home, rcvd, down, pending, task, produced>>
    BY DEF NewSession, Assign, Accept, AssignSocket
<1> SUFFICES ASSUME NEW id \in Ids, home'[id] # 0
             PROVE  DeliveryOf(id)'
    BY DEF ChunksInv
<1>2. PICK s \in Sessions : s = home[id] /\ s <= sess /\ DeliveryOf(id)
    BY <1>1, HomeIsSession DEF ChunksInv
<1> QED
    BY <1>1, <1>2, DeliveryIsLeftAlone DEF Next

\* What is in flight continues what has been delivered, in every reachable state.
LEMMA ChunksAreKept == Spec => []ChunksInv
<1>1. Init => ChunksInv
    BY DEF Init, ClientInit, ChunksInv
<1>2. TypeOK /\ HomeInv /\ EntryHasOpenReader /\ ChunksInv /\ [Next]_vars => ChunksInv'
    <2> SUFFICES ASSUME TypeOK, HomeInv, EntryHasOpenReader, ChunksInv, [Next]_vars
                 PROVE  ChunksInv'
        OBVIOUS
    <2>1. CASE UNCHANGED vars
        BY <2>1 DEF vars, wireVars, clientVars, proxyVars, ChunksInv, DeliveryOf,
                    SentUp, Whole, LinkUp
    <2> QED
        BY <2>1, ClientStepKeepsChunks, ProxyStepKeepsChunks, NewSessionKeepsChunks DEF Next
<1> QED
    BY <1>1, <1>2, TypesAreCorrect, CallsStayHome, EntriesAreOpen, PTL DEF Spec

\* Streams deliver in order, without gaps or repetitions, what the target of
\* their call produced, whatever is lost and however often the client reconnects.
THEOREM DownloadsAreInOrder == Spec => []DownloadInOrder
<1>1. TypeOK /\ HomeInv /\ ChunksInv => DownloadInOrder
    <2> SUFFICES ASSUME TypeOK, HomeInv, ChunksInv, NEW id \in Ids, rcvd[id] # <<>>
                 PROVE  /\ Len(rcvd[id]) <= produced[home[id]][id]
                        /\ \A k \in DOMAIN rcvd[id] : rcvd[id][k] = k
        BY DEF DownloadInOrder
    <2>1. home[id] # 0
        BY DEF HomeInv, FreshIds
    <2>2. home[id] \in Sessions
        BY <2>1, HomeIsSession
    <2>3. /\ Len(rcvd[id]) <= SentUp(home[id], id)
          /\ \A k \in DOMAIN rcvd[id] : rcvd[id][k] = k
        BY <2>1 DEF ChunksInv, DeliveryOf, Delivery
    <2>4. /\ SentUp(home[id], id) \in Nat /\ produced[home[id]][id] \in Nat
          /\ SentUp(home[id], id) <= produced[home[id]][id]
        BY <2>2, SentUpIsNumber
    <2>5. Len(rcvd[id]) \in Nat
        BY DEF TypeOK, ClientTypeOK
    <2> QED
        BY <2>3, <2>4, <2>5
<1> QED
    BY <1>1, TypesAreCorrect, CallsStayHome, ChunksAreKept, PTL
=============================================================================
