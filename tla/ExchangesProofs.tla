---------------------------- MODULE ExchangesProofs ----------------------------
(***************************************************************************)
(* Theorems about DNS queries, HTTP requests and UDP sockets, for every    *)
(* number of ids, sessions and chunks and every limit: types and kinds,    *)
(* timers, and the maps of the server.                                     *)
(***************************************************************************)
EXTENDS ExchangesInvariant, TLAPS, FiniteSetTheorems, SequenceTheorems

-----------------------------------------------------------------------------
(* The operators the actions are built from.  S stands for whatever is     *)
(* known of the messages in a channel.                                     *)

LEMMA NothingQueued ==
    ASSUME NEW S
    PROVE  <<>> \in Seq(S) /\ Len(<<>>) = 0 /\ Len(<<>>) <= MaxQueue
BY WireAssumption

\* FirstOf keeps to the limit and invents nothing.
LEMMA FirstOfIsBounded ==
    ASSUME NEW S, NEW q \in Seq(S), NEW n \in Nat
    PROVE  /\ FirstOf(q, n) \in Seq(S) /\ Len(FirstOf(q, n)) <= n
           /\ \A k \in DOMAIN FirstOf(q, n) : k \in DOMAIN q /\ FirstOf(q, n)[k] = q[k]
<1>1. CASE Len(q) <= n
    BY <1>1 DEF FirstOf
<1>2. CASE ~(Len(q) <= n)
    <2>1. n \in 0 .. Len(q) /\ 1 \in 1 .. Len(q) + 1
        BY <1>2
    <2>2. /\ SubSeq(q, 1, n) \in Seq(S) /\ Len(SubSeq(q, 1, n)) = n
          /\ \A k \in 1 .. n : SubSeq(q, 1, n)[k] = q[k]
        BY <2>1, SubSeqProperties
    <2> QED
        BY <1>2, <2>1, <2>2 DEF FirstOf
<1> QED
    BY <1>1, <1>2

\* More messages may be under way when more is known to be possible.
LEMMA ChannelsGrow ==
    ASSUME NEW S, NEW T, S \subseteq T, NEW ch \in Seq(S)
    PROVE  ch \in Seq(T)
<1>1. ch \in [1 .. Len(ch) -> S] /\ Len(ch) \in Nat
    OBVIOUS
<1>2. ch \in [1 .. Len(ch) -> T]
    BY <1>1
<1> QED
    BY <1>1, <1>2, SeqDef

\* send() of the client adds what it is given, and keeps the queue within its
\* limit, whichever way it goes.
LEMMA SendIsTyped ==
    ASSUME NEW S, up \in [Sessions -> Seq(S)], queue \in Seq(S), Len(queue) <= MaxQueue,
           cws => sess \in Sessions, NEW ms \in Seq(S), Send(ms)
    PROVE  up' \in [Sessions -> Seq(S)] /\ queue' \in Seq(S) /\ Len(queue') <= MaxQueue
<1>1. CASE isClosed
    BY <1>1 DEF Send
<1>2. CASE ~isClosed /\ cws
    <2>1. sess \in Sessions /\ up[sess] \o ms \in Seq(S)
        BY <1>2
    <2> QED
        BY <1>2, <2>1 DEF Send
<1>3. CASE ~isClosed /\ ~cws
    <2>1. queue \o ms \in Seq(S)
        OBVIOUS
    <2>2. /\ FirstOf(queue \o ms, MaxQueue) \in Seq(S)
          /\ Len(FirstOf(queue \o ms, MaxQueue)) <= MaxQueue
        BY <2>1, FirstOfIsBounded, WireAssumption
    <2> QED
        BY <1>3, <2>2 DEF Send
<1> QED
    BY <1>1, <1>2, <1>3

\* send() of the transport adds what it is given.
LEMMA ReplyIsTyped ==
    ASSUME NEW S, down \in [Sessions -> Seq(S)], NEW s \in Sessions, NEW m \in S, Reply(s, m)
    PROVE  down' \in [Sessions -> Seq(S)]
BY DEF Reply

LEMMA ReplyTwiceIsTyped ==
    ASSUME NEW S, down \in [Sessions -> Seq(S)], NEW s \in Sessions,
           NEW m \in S, NEW n \in S, ReplyTwice(s, m, n)
    PROVE  down' \in [Sessions -> Seq(S)]
<1>1. down[s] \o <<m, n>> \in Seq(S)
    OBVIOUS
<1> QED
    BY <1>1 DEF ReplyTwice

\* Taking a message, at either end, adds none.
LEMMA TakeIsTyped ==
    ASSUME NEW S, down \in [Sessions -> Seq(S)], sess \in 0 .. MaxSessions, NEW m, Take(m)
    PROVE  sess \in Sessions /\ m \in S /\ down' \in [Sessions -> Seq(S)]
<1>1. sess \in Sessions
    BY WireAssumption DEF Take, Sessions
<1>2. down[sess] \in Seq(S) /\ down[sess] # <<>>
    BY <1>1 DEF Take
<1>3. Head(down[sess]) \in S /\ Tail(down[sess]) \in Seq(S)
    BY <1>2
<1> QED
    BY <1>1, <1>3 DEF Take

LEMMA ReceiveIsTyped ==
    ASSUME NEW S, up \in [Sessions -> Seq(S)], NEW s \in Sessions, NEW m, Receive(s, m)
    PROVE  m \in S /\ up' \in [Sessions -> Seq(S)]
<1>1. up[s] \in Seq(S) /\ up[s] # <<>>
    BY DEF Receive
<1>2. Head(up[s]) \in S /\ Tail(up[s]) \in Seq(S)
    BY <1>1
<1> QED
    BY <1>2 DEF Receive

-----------------------------------------------------------------------------
(* Kinds                                                                   *)

\* What may be said depends on the kinds alone, and grows with them.
LEMMA KindsKept ==
    ASSUME UNCHANGED kind
    PROVE  Asked' = Asked /\ Answered' = Answered
BY DEF Asked, Answered

LEMMA KindsGrow ==
    ASSUME \A id \in Ids : kind[id] # "none" => kind'[id] = kind[id]
    PROVE  Asked \subseteq Asked' /\ Answered \subseteq Answered'
BY DEF Asked, Answered, Counted, RequestMessage

\* The messages the client makes suit the kind of their id.
LEMMA ClientMakes ==
    ASSUME NEW id \in Ids
    PROVE  /\ kind[id] = "http" => Msg("HTTP_BODY_END", id) \in Asked
           /\ kind[id] = "http" => \A n \in 1 .. MaxChunks : Chunk("HTTP_BODY_CHUNK", id, n) \in Asked
           /\ kind[id] = "udp" => \A n \in 1 .. MaxChunks : Chunk("UDP_DATA", id, n) \in Asked
           /\ kind[id] = "udp" => Msg("UDP_CLOSE", id) \in Asked
           /\ kind[id] \in Kind \ {"none"} => Farewell(kind[id], id) \in Asked
<1>1. 0 \in 0 .. MaxChunks + 1 /\ 1 .. MaxChunks \subseteq 0 .. MaxChunks + 1
    BY WireAssumption
<1> QED
    BY <1>1 DEF Msg, Chunk, Farewell, Asked, Counted, RequestMessage, RequestType, IsChunk, Kind

\* So do those the server makes.
LEMMA ServerMakes ==
    ASSUME NEW id \in Ids
    PROVE  /\ kind[id] \in {"dns", "http", "udp"} => Msg("ERROR", id) \in Answered
           /\ kind[id] = "dns" => Msg("DNS_RESPONSE", id) \in Answered
           /\ kind[id] = "http" =>
                 /\ Chunk("HTTP_RESPONSE", id, 0) \in Answered
                 /\ Chunk("HTTP_RESPONSE", id, 1) \in Answered
                 /\ Msg("HTTP_BODY_END", id) \in Answered
                 /\ \A n \in 1 .. MaxChunks : Chunk("HTTP_BODY_CHUNK", id, n) \in Answered
           /\ kind[id] = "udp" =>
                 /\ Msg("UDP_BIND_ACK", id) \in Answered /\ Msg("UDP_CLOSE", id) \in Answered
                 /\ \A n \in 1 .. MaxChunks : Chunk("UDP_DATA", id, n) \in Answered
<1>1. /\ 0 \in 0 .. MaxChunks + 1 /\ 1 \in 0 .. MaxChunks + 1
      /\ 1 .. MaxChunks \subseteq 0 .. MaxChunks + 1
    BY WireAssumption
<1> QED
    BY <1>1 DEF Msg, Chunk, Answered, Counted, RequestMessage, RequestType, IsChunk

\* What is asked and answered are messages of the protocol, about an id that was
\* handed out.
LEMMA MessagesAgree ==
    /\ Asked \subseteq RequestMessage /\ Answered \subseteq RequestMessage
    /\ \A m \in Asked \cup Answered :
          /\ m.id \in Ids /\ kind[m.id] # "none"
          /\ IsChunk(m, m.id) => m.chunk \in 1 .. MaxChunks
BY DEF Asked, Answered, Counted, RequestMessage

\* So the channels are what TypeOK says of them, now and after a step.
LEMMA ChannelsAreTyped ==
    ASSUME NEW S, S \subseteq RequestMessage, NEW f \in [Sessions -> Seq(S)]
    PROVE  f \in [Sessions -> Seq(RequestMessage)]
<1>1. ASSUME NEW s \in Sessions
      PROVE  f[s] \in Seq(RequestMessage)
    BY ChannelsGrow
<1> QED
    BY <1>1

\* What TypeOK says of the client and the links besides, and of the server.
ClientTypes ==
    /\ sess \in 0 .. MaxSessions
    /\ cws \in BOOLEAN /\ (cws => sess # 0)
    /\ nextId \in 1 .. MaxCalls + 1
    /\ home \in [Ids -> 0 .. MaxSessions]
    /\ pending \subseteq Ids /\ Cardinality(pending) <= MaxPending
    /\ timer \subseteq Ids
    /\ call \in [Ids -> CallState]
    /\ reader \in [Ids -> ReaderState]
    /\ rcvd \in [Ids -> Seq(1 .. MaxChunks)]
    /\ sent \in [Ids -> 0 .. MaxChunks]
    /\ writing \in [Ids -> BOOLEAN]
    /\ cstate \in {"connected", "disconnected"}
    /\ isClosed \in BOOLEAN
    /\ RequestTypeOK

ServerTypes ==
    /\ sws \in [Sessions -> BOOLEAN]
    /\ tstate \in [Sessions -> TransportState]
    /\ DnsTypeOK /\ HttpTypeOK /\ UdpTypeOK

LEMMA TypesOfParts ==
    /\ KindInv =>
          /\ ClientTypes /\ ServerTypes /\ ChannelsAgree /\ Len(queue) <= MaxQueue
          /\ WaitingIsTimed /\ ClientAgrees /\ ServerAgrees
    /\ ClientTypes' /\ ServerTypes' /\ ChannelsAgree' /\ Len(queue)' <= MaxQueue => TypeOK'
<1>1. KindInv => /\ ClientTypes /\ ServerTypes /\ ChannelsAgree /\ Len(queue) <= MaxQueue
                 /\ WaitingIsTimed /\ ClientAgrees /\ ServerAgrees
    BY DEF KindInv, TypeOK, ClientTypes, ServerTypes
<1>2. ASSUME ClientTypes', ServerTypes', ChannelsAgree', Len(queue)' <= MaxQueue
      PROVE  TypeOK'
    <2>1. Asked' \subseteq RequestMessage /\ Answered' \subseteq RequestMessage
        BY DEF Asked, Answered, Counted
    <2>2. /\ up' \in [Sessions -> Seq(RequestMessage)]
          /\ down' \in [Sessions -> Seq(RequestMessage)]
        BY <1>2, <2>1, ChannelsAreTyped DEF ChannelsAgree
    <2>3. queue' \in Seq(RequestMessage)
        BY <1>2, <2>1, ChannelsGrow DEF ChannelsAgree
    <2> QED
        BY <1>2, <2>2, <2>3 DEF ClientTypes, ServerTypes, TypeOK
<1> QED
    BY <1>1, <1>2

\* Entries taken out of the pending map keep it within its limit.
LEMMA FewerPending ==
    ASSUME ClientTypes, NEW S, S \subseteq pending
    PROVE  S \subseteq Ids /\ IsFiniteSet(S) /\ Cardinality(S) \in Nat /\ Cardinality(S) <= MaxPending
<1>1. IsFiniteSet(Ids)
    BY FS_Interval, WireAssumption DEF Ids
<1>2. IsFiniteSet(pending)
    BY <1>1, FS_Subset DEF ClientTypes
<1>3. IsFiniteSet(S) /\ Cardinality(S) <= Cardinality(pending)
    BY <1>2, FS_Subset
<1>4. Cardinality(S) \in Nat /\ Cardinality(pending) \in Nat
    BY <1>2, <1>3, FS_CardinalityType
<1> QED
    BY <1>3, <1>4, WireAssumption DEF ClientTypes

-----------------------------------------------------------------------------
(* Types and kinds, step by step                                           *)

\* What suits the kinds can be sent,
LEMMA SendAgrees ==
    ASSUME KindInv, NEW ms, ms \in Seq(Asked'), Send(ms),
           \A id \in Ids : kind[id] # "none" => kind'[id] = kind[id]
    PROVE  /\ up' \in [Sessions -> Seq(Asked')]
           /\ queue' \in Seq(Asked') /\ Len(queue') <= MaxQueue
<1>1. Asked \subseteq Asked'
    BY KindsGrow
<1>2. /\ up \in [Sessions -> Seq(Asked)] /\ queue \in Seq(Asked) /\ Len(queue) <= MaxQueue
      /\ cws => sess \in Sessions
    BY TypesOfParts, WireAssumption DEF ChannelsAgree, ClientTypes, Sessions
<1>3. queue \in Seq(Asked')
    BY <1>1, <1>2, ChannelsGrow
<1>4. \A s \in Sessions : up[s] \in Seq(Asked')
    BY <1>1, <1>2, ChannelsGrow
<1>5. up \in [Sessions -> Seq(Asked')]
    BY <1>2, <1>4
<1> QED
    BY <1>2, <1>3, <1>5, SendIsTyped

LEMMA SendOneAgrees ==
    ASSUME KindInv, NEW m, m \in Asked, Send(<<m>>), UNCHANGED <<kind, down>>
    PROVE  ChannelsAgree' /\ Len(queue') <= MaxQueue
<1>1. <<m>> \in Seq(Asked') /\ Asked' = Asked /\ Answered' = Answered
    BY KindsKept
<1>2. /\ up' \in [Sessions -> Seq(Asked')]
      /\ queue' \in Seq(Asked') /\ Len(queue') <= MaxQueue
    BY <1>1, SendAgrees
<1> QED
    BY <1>1, <1>2, TypesOfParts DEF ChannelsAgree

\* and what is taken suited them.
LEMMA TakeAgrees ==
    ASSUME KindInv, NEW m, Take(m), UNCHANGED kind
    PROVE  /\ sess \in Sessions
           /\ m \in Answered
           /\ down' \in [Sessions -> Seq(Answered')]
           /\ UNCHANGED <<up, queue>> => ChannelsAgree' /\ Len(queue') <= MaxQueue
<1>1. Asked' = Asked /\ Answered' = Answered
    BY KindsKept
<1>2. /\ down \in [Sessions -> Seq(Answered)] /\ sess \in 0 .. MaxSessions
      /\ ChannelsAgree /\ Len(queue) <= MaxQueue
    BY TypesOfParts DEF ChannelsAgree, ClientTypes
<1>3. sess \in Sessions /\ m \in Answered /\ down' \in [Sessions -> Seq(Answered)]
    BY <1>2, TakeIsTyped
<1> QED
    BY <1>1, <1>2, <1>3 DEF ChannelsAgree

\* The client's own steps.  Each changes what it holds for ids that were handed
\* out, and says what suits them.
LEMMA ClientStepAgrees ==
    ASSUME KindInv, RequestNext, UNCHANGED serverVars
    PROVE  KindInv'
<1>t. /\ ClientTypes /\ ServerTypes /\ ChannelsAgree /\ Len(queue) <= MaxQueue
      /\ WaitingIsTimed /\ ClientAgrees /\ ServerAgrees
    BY TypesOfParts
<1>v. UNCHANGED <<tstate, queries, lookups, requests, aborted, bodies, stage, produced,
                  uploaded, finished, sockets, loop, datagrams>>
    BY DEF serverVars, dnsVars, httpVars, udpVars
<1> DEFINE Channels == ChannelsAgree' /\ Len(queue') <= MaxQueue
           Held == ClientTypes' /\ WaitingIsTimed' /\ ClientAgrees'
<1>all. ASSUME Channels, Held, UNCHANGED sws,
               \A id \in Ids : kind[id] # "none" => kind'[id] = kind[id]
        PROVE  KindInv'
    <2>1. ServerTypes'
        BY <1>t, <1>v, <1>all DEF ServerTypes, DnsTypeOK, HttpTypeOK, UdpTypeOK
    <2>2. ServerAgrees'
        BY <1>t, <1>v, <1>all DEF ServerAgrees
    <2>3. TypeOK'
        BY <1>all, <2>1, TypesOfParts
    <2> QED
        BY <1>all, <2>2, <2>3 DEF KindInv
<1>few. ASSUME pending' \subseteq pending
        PROVE  pending' \subseteq Ids /\ Cardinality(pending') <= MaxPending
    BY <1>t, <1>few, FewerPending
<1>one. ASSUME NEW id \in Ids
        PROVE  /\ kind[id] = "http" => Msg("HTTP_BODY_END", id) \in Asked
               /\ kind[id] = "udp" => Msg("UDP_CLOSE", id) \in Asked
               /\ kind[id] # "none" => Farewell(kind[id], id) \in Asked
    BY <1>t, ClientMakes DEF ClientTypes, RequestTypeOK, Kind
<1> USE DEF CallState, ReaderState, Kind, RequestTypeOK
<1> HIDE DEF Channels, Held
\* Calls
<1>take. ASSUME NEW k \in Kind \ {"none"}, TakeId(k), NEW m, m.id = nextId, m \in Counted,
                Send(<<m>>), down' = down,
                \/ k = "dns" /\ m.type = "DNS_QUERY"
                \/ k = "http" /\ m.type = "HTTP_REQUEST"
                \/ k = "udp" /\ m.type = "UDP_BIND"
         PROVE  /\ nextId \in Ids /\ sess \in Sessions /\ kind[nextId] = "none"
                /\ nextId' \in 1 .. MaxCalls + 1 /\ home' \in [Ids -> 0 .. MaxSessions]
                /\ kind' \in [Ids -> Kind]
                /\ \A id \in Ids : kind[id] # "none" => kind'[id] = kind[id]
                /\ Channels
    <2>1. nextId \in Ids /\ sess \in Sessions /\ kind[nextId] = "none"
        BY <1>t, <1>take, WireAssumption DEF TakeId, ClientTypes, ClientAgrees, Ids, Sessions
    <2>2. nextId' \in 1 .. MaxCalls + 1 /\ home' \in [Ids -> 0 .. MaxSessions]
        BY <1>t, <1>take, <2>1, WireAssumption DEF TakeId, ClientTypes, Ids, Sessions
    <2>3. kind' = [kind EXCEPT ![nextId] = k] /\ kind' \in [Ids -> Kind]
        BY <1>t, <1>take, <2>1 DEF TakeId, ClientTypes
    <2>4. \A id \in Ids : kind[id] # "none" => kind'[id] = kind[id]
        BY <1>t, <2>1, <2>3 DEF ClientTypes
    <2>5. m \in Asked'
        BY <1>t, <1>take, <2>1, <2>3 DEF Asked, ClientTypes
    <2>6. <<m>> \in Seq(Asked')
        BY <2>5
    <2>7. /\ up' \in [Sessions -> Seq(Asked')]
          /\ queue' \in Seq(Asked') /\ Len(queue') <= MaxQueue
        BY <1>take, <2>4, <2>6, SendAgrees
    <2>8. down' \in [Sessions -> Seq(Answered')]
        <3>1. Answered \subseteq Answered' /\ down \in [Sessions -> Seq(Answered)]
            BY <1>t, <2>4, KindsGrow DEF ChannelsAgree
        <3>2. \A s \in Sessions : down[s] \in Seq(Answered')
            BY <3>1, ChannelsGrow
        <3> QED
            BY <1>take, <3>1, <3>2
    <2> QED
        BY <2>1, <2>2, <2>3, <2>4, <2>7, <2>8 DEF Channels, ChannelsAgree
<1>await. ASSUME NEW k \in {"dns", "http"}, Await(k)
          PROVE  pending' \subseteq Ids /\ Cardinality(pending') <= MaxPending
    <2>1. nextId \in Ids /\ pending' = pending \cup {nextId} /\ Cardinality(pending) < MaxPending
        BY <1>t, <1>await, WireAssumption DEF Await, TakeId, ClientTypes, Ids
    <2>2. IsFiniteSet(pending) /\ Cardinality(pending) \in Nat
        BY <1>t, FewerPending
    <2>3. Cardinality(pending \cup {nextId}) =
              IF nextId \in pending THEN Cardinality(pending) ELSE Cardinality(pending) + 1
        BY <2>2, FS_AddElement
    <2> QED
        BY <1>t, <2>1, <2>2, <2>3, WireAssumption DEF ClientTypes
<1>fresh. ASSUME NEW new \in Ids, sess \in Sessions, kind[new] = "none",
                 new = nextId, nextId' = nextId + 1, sess' = sess,
                 \A id \in Ids : id # new =>
                     /\ kind'[id] = kind[id] /\ home'[id] = home[id] /\ rcvd'[id] = rcvd[id]
                     /\ sent'[id] = sent[id] /\ call'[id] = call[id] /\ reader'[id] = reader[id]
                     /\ writing'[id] = writing[id] /\ (id \in interest' <=> id \in interest)
                     /\ (id \in pending' <=> id \in pending) /\ (id \in timer' <=> id \in timer),
                 kind'[new] \in {"dns", "http", "udp"}, home'[new] = sess,
                 IF kind'[new] = "udp"
                 THEN call'[new] = "none" /\ new \notin timer' /\ new \notin pending'
                 ELSE call'[new] = "waiting" /\ new \in timer' /\ new \notin interest',
                 reader'[new] = "none", kind'[new] # "http" => ~writing'[new]
          PROVE  WaitingIsTimed' /\ ClientAgrees'
    <2>1. WaitingIsTimed'
        BY <1>t, <1>fresh DEF WaitingIsTimed
    <2>2. ASSUME NEW id \in Ids, id # new, id >= nextId + 1
          PROVE  id >= nextId
        BY <1>t, <2>2 DEF ClientTypes, Ids
    <2>3. ~(new >= nextId + 1) /\ sess # 0 /\ sess <= sess
        BY <1>fresh, WireAssumption DEF Ids, Sessions
    <2> DEFINE Agrees(id) ==
                   /\ id >= nextId => kind[id] = "none"
                   /\ kind[id] = "none" <=> home[id] = 0
                   /\ home[id] <= sess
                   /\ kind[id] = "none" => rcvd[id] = <<>> /\ sent[id] = 0
                   /\ kind[id] \in {"none", "udp"} <=> call[id] = "none"
                   /\ id \in pending => call[id] \in {"waiting", "connected"}
                   /\ id \in pending /\ kind[id] = "dns" => call[id] = "waiting"
                   /\ id \in interest => kind[id] = "udp"
                   /\ kind[id] # "http" => reader[id] = "none" /\ ~writing[id]
                   /\ reader[id] # "none" => call[id] = "connected"
    <2>4. Agrees(new)'
        BY <1>fresh, <2>3
    <2>5. ASSUME NEW id \in Ids, id # new PROVE Agrees(id)'
        <3>1. Agrees(id)
            BY <1>t DEF ClientAgrees
        <3>2. id >= nextId + 1 => id >= nextId
            BY <2>2, <2>5
        <3> QED
            BY <1>fresh, <2>5, <3>1, <3>2
    <2> QED
        BY <2>1, <2>4, <2>5 DEF ClientAgrees
<1>1. CASE QueryDNS
    <2>1. Msg("DNS_QUERY", nextId) \in Counted
        BY <1>t, <1>1, WireAssumption
        DEF QueryDNS, Await, TakeId, ClientTypes, Ids, Counted, RequestMessage, RequestType, Msg, IsChunk
    <2>2. TakeId("dns") /\ Msg("DNS_QUERY", nextId).id = nextId
          /\ Msg("DNS_QUERY", nextId).type = "DNS_QUERY"
        BY <1>1 DEF QueryDNS, Await, Msg
    <2>3. /\ nextId \in Ids /\ sess \in Sessions /\ kind[nextId] = "none"
          /\ nextId' \in 1 .. MaxCalls + 1 /\ home' \in [Ids -> 0 .. MaxSessions]
          /\ kind' \in [Ids -> Kind]
          /\ \A id \in Ids : kind[id] # "none" => kind'[id] = kind[id]
          /\ Channels
        BY <1>1, <1>take, <2>1, <2>2 DEF QueryDNS
    <2>4. pending' \subseteq Ids /\ Cardinality(pending') <= MaxPending
        BY <1>1, <1>await DEF QueryDNS
    <2>5. ClientTypes'
        BY <1>t, <1>1, <2>3, <2>4 DEF QueryDNS, Await, TakeId, ClientTypes
    <2>6. WaitingIsTimed' /\ ClientAgrees'
        BY <1>t, <1>1, <1>fresh, <2>3 DEF QueryDNS, Await, TakeId, ClientTypes, WaitingIsTimed, ClientAgrees
    <2> QED
        BY <1>all, <1>1, <2>3, <2>5, <2>6 DEF QueryDNS, Held
<1>2. CASE FetchHTTP
    <2>p. PICK body \in BOOLEAN, announced \in BOOLEAN :
              /\ Await("http")
              /\ writing' = [writing EXCEPT ![nextId] = body]
              /\ Send(<<Chunk("HTTP_REQUEST", nextId, Flag(announced))>>)
        BY <1>2 DEF FetchHTTP
    <2>c. UNCHANGED <<sess, cws, sws, down, reader, rcvd, sent, cstate, isClosed, torn, interest>>
        BY <1>2 DEF FetchHTTP
    <2>1. Chunk("HTTP_REQUEST", nextId, Flag(announced)) \in Counted
        BY <1>t, <2>p, WireAssumption
        DEF Await, TakeId, ClientTypes, Ids, Counted, RequestMessage, RequestType, Chunk, Flag, IsChunk
    <2>2. TakeId("http") /\ Chunk("HTTP_REQUEST", nextId, Flag(announced)).id = nextId
          /\ Chunk("HTTP_REQUEST", nextId, Flag(announced)).type = "HTTP_REQUEST"
        BY <2>p DEF Await, Chunk
    <2>3. /\ nextId \in Ids /\ sess \in Sessions /\ kind[nextId] = "none"
          /\ nextId' \in 1 .. MaxCalls + 1 /\ home' \in [Ids -> 0 .. MaxSessions]
          /\ kind' \in [Ids -> Kind]
          /\ \A id \in Ids : kind[id] # "none" => kind'[id] = kind[id]
          /\ Channels
        BY <1>take, <2>p, <2>c, <2>1, <2>2
    <2>4. pending' \subseteq Ids /\ Cardinality(pending') <= MaxPending
        BY <1>await, <2>p
    <2>5. ClientTypes'
        BY <1>t, <2>p, <2>c, <2>3, <2>4 DEF Await, TakeId, ClientTypes
    <2>6. WaitingIsTimed' /\ ClientAgrees'
        BY <1>t, <1>fresh, <2>p, <2>c, <2>3 DEF Await, TakeId, ClientTypes, WaitingIsTimed, ClientAgrees
    <2> QED
        BY <1>all, <2>c, <2>3, <2>5, <2>6 DEF Held
<1>3. CASE UdpBind
    <2>1. Msg("UDP_BIND", nextId) \in Counted
        BY <1>t, <1>3, WireAssumption
        DEF UdpBind, TakeId, ClientTypes, Ids, Counted, RequestMessage, RequestType, Msg, IsChunk
    <2>2. TakeId("udp") /\ Msg("UDP_BIND", nextId).id = nextId
          /\ Msg("UDP_BIND", nextId).type = "UDP_BIND"
        BY <1>3 DEF UdpBind, Msg
    <2>3. /\ nextId \in Ids /\ sess \in Sessions /\ kind[nextId] = "none"
          /\ nextId' \in 1 .. MaxCalls + 1 /\ home' \in [Ids -> 0 .. MaxSessions]
          /\ kind' \in [Ids -> Kind]
          /\ \A id \in Ids : kind[id] # "none" => kind'[id] = kind[id]
          /\ Channels
        BY <1>3, <1>take, <2>1, <2>2 DEF UdpBind
    <2>5. ClientTypes'
        BY <1>t, <1>3, <2>3 DEF UdpBind, TakeId, ClientTypes
    <2>6. WaitingIsTimed' /\ ClientAgrees'
        BY <1>t, <1>3, <1>fresh, <2>3 DEF UdpBind, TakeId, ClientTypes, WaitingIsTimed, ClientAgrees
    <2> QED
        BY <1>3, <1>all, <2>3, <2>5, <2>6 DEF UdpBind, Held
\* What the client says
<1>4. ASSUME NEW id \in Ids, SendBodyChunk(id) PROVE KindInv'
    <2>1. sent[id] + 1 \in 1 .. MaxChunks /\ UNCHANGED <<kind, torn, interest>>
        BY <1>t, <1>4, WireAssumption DEF SendBodyChunk, ClientTypes, requestVars
    <2>2. Chunk("HTTP_BODY_CHUNK", id, sent[id] + 1) \in Asked
        BY <1>4, <2>1, ClientMakes DEF SendBodyChunk
    <2>3. Channels
        BY <1>4, <2>1, <2>2, SendOneAgrees DEF SendBodyChunk, Channels
    <2>4. Held
        BY <1>t, <1>4, <2>1 DEF SendBodyChunk, Held, ClientTypes, WaitingIsTimed, ClientAgrees
    <2> QED
        BY <1>4, <1>all, <2>1, <2>3, <2>4 DEF SendBodyChunk
<1>5. ASSUME NEW id \in Ids, SendBodyEnd(id) PROVE KindInv'
    <2>1. Channels
        BY <1>5, <1>one, SendOneAgrees DEF SendBodyEnd, Channels
    <2>2. Held
        BY <1>t, <1>5 DEF SendBodyEnd, Held, ClientTypes, WaitingIsTimed, ClientAgrees
    <2> QED
        BY <1>5, <1>all, <2>1, <2>2 DEF SendBodyEnd
<1>6. ASSUME NEW id \in Ids, GiveUp(id) PROVE KindInv'
    <2>1. kind[id] # "none" /\ UNCHANGED <<kind, torn, interest>>
        BY <1>t, <1>6 DEF GiveUp, WaitingIsTimed, ClientAgrees, requestVars
    <2>2. Channels
        BY <1>6, <1>one, <2>1, SendOneAgrees DEF GiveUp, Channels
    <2>3. pending' \subseteq Ids /\ Cardinality(pending') <= MaxPending
        BY <1>6, <1>few DEF GiveUp
    <2>4. Held
        BY <1>t, <1>6, <2>1, <2>3 DEF GiveUp, Held, ClientTypes, WaitingIsTimed, ClientAgrees
    <2> QED
        BY <1>6, <1>all, <2>1, <2>2, <2>4 DEF GiveUp
<1>7. ASSUME NEW id \in Ids, CancelBody(id) PROVE KindInv'
    <2>1. UNCHANGED <<kind, torn, interest, sess, cws, sws, up, down, queue>>
        BY <1>7 DEF CancelBody, requestVars, wireVars
    <2>2. Channels
        BY <1>t, <2>1, KindsKept DEF Channels, ChannelsAgree
    <2>3. Held
        BY <1>t, <1>7, <2>1 DEF CancelBody, Held, ClientTypes, WaitingIsTimed, ClientAgrees
    <2> QED
        BY <1>all, <2>1, <2>2, <2>3
<1>8. CASE ReapRequests
    <2>1. PICK oldest \in Ids :
              LET stale == {id \in pending : id <= oldest} IN
              /\ pending' = pending \ stale
              /\ \E l \in Listing(stale) :
                     Send([k \in DOMAIN l |-> Farewell(kind[l[k]], l[k])])
        BY <1>8 DEF ReapRequests
    <2> DEFINE stale == {id \in pending : id <= oldest}
    <2>2. PICK l \in Listing(stale) : Send([k \in DOMAIN l |-> Farewell(kind[l[k]], l[k])])
        BY <2>1
    <2>3. stale \subseteq Ids /\ Cardinality(stale) \in Nat
        BY <1>t, FewerPending
    <2>4. l \in [1 .. Cardinality(stale) -> stale]
        BY <2>2 DEF Listing
    <2>c. UNCHANGED <<kind, torn, interest, sess, cws, sws, down, nextId, home, timer, call,
                      reader, rcvd, sent, writing, cstate, isClosed>>
        BY <1>8 DEF ReapRequests, requestVars
    <2>5. \A k \in DOMAIN l : Farewell(kind[l[k]], l[k]) \in Asked
        <3>1. \A id \in stale : id \in Ids /\ kind[id] # "none"
            BY <1>t, <2>3 DEF ClientAgrees
        <3> QED
            BY <1>one, <2>4, <3>1
    <2> DEFINE ms == [k \in DOMAIN l |-> Farewell(kind[l[k]], l[k])]
               n == Cardinality(stale)
    <2>6. ms \in [1 .. n -> Asked]
        BY <2>4, <2>5
    <2>7. ms \in Seq(Asked')
        <3> HIDE DEF ms, n
        <3>1. n \in Nat /\ Asked' = Asked
            BY <2>3, <2>c, KindsKept DEF n
        <3> QED
            BY <2>6, <3>1, SeqDef
    <2>8. /\ up' \in [Sessions -> Seq(Asked')]
          /\ queue' \in Seq(Asked') /\ Len(queue') <= MaxQueue
        BY <2>2, <2>7, <2>c, SendAgrees
    <2>9. Channels
        BY <1>t, <2>8, <2>c, KindsKept DEF Channels, ChannelsAgree
    <2>10. pending' \subseteq Ids /\ Cardinality(pending') <= MaxPending /\ pending' \subseteq pending
        BY <1>few, <2>1
    <2>11. Held
        BY <1>t, <2>10, <2>c DEF Held, ClientTypes, WaitingIsTimed, ClientAgrees
    <2> QED
        BY <1>all, <2>9, <2>11, <2>c
<1>9. ASSUME NEW id \in Ids, UdpSend(id) PROVE KindInv'
    <2>1. sent[id] + 1 \in 1 .. MaxChunks /\ UNCHANGED <<kind, torn, interest>> /\ kind[id] = "udp"
        BY <1>t, <1>9, WireAssumption DEF UdpSend, ClientTypes, ClientAgrees, requestVars
    <2>2. Chunk("UDP_DATA", id, sent[id] + 1) \in Asked
        BY <1>9, <2>1, ClientMakes
    <2>3. Channels
        BY <1>9, <2>1, <2>2, SendOneAgrees DEF UdpSend, Channels
    <2>4. Held
        BY <1>t, <1>9, <2>1 DEF UdpSend, Held, ClientTypes, WaitingIsTimed, ClientAgrees
    <2> QED
        BY <1>9, <1>all, <2>1, <2>3, <2>4 DEF UdpSend
<1>10. ASSUME NEW id \in Ids, UdpDrop(id) PROVE KindInv'
    <2>1. kind[id] = "udp"
        BY <1>t, <1>10 DEF UdpDrop, ClientAgrees
    <2>2. Channels
        BY <1>10, <1>one, <2>1, SendOneAgrees DEF UdpDrop, Channels
    <2>3. Held
        BY <1>t, <1>10 DEF UdpDrop, Held, ClientTypes, WaitingIsTimed, ClientAgrees
    <2> QED
        BY <1>10, <1>all, <2>2, <2>3 DEF UdpDrop
\* What it hears
<1>11. CASE DnsResponse
    <2>1. PICK m : /\ Take(m) /\ m.id \in pending /\ m.type = "DNS_RESPONSE"
                   /\ timer' = timer \ {m.id}
                   /\ call' = [call EXCEPT ![m.id] = "connected"]
                   /\ pending' = pending \ {m.id}
        BY <1>11 DEF DnsResponse
    <2>c. UNCHANGED <<kind, torn, interest, sess, cws, sws, up, nextId, home, reader, rcvd,
                      sent, writing, cstate, queue, isClosed>>
        BY <1>11 DEF DnsResponse, requestVars
    <2>2. m \in Answered /\ Channels
        BY <2>1, <2>c, TakeAgrees DEF Channels
    <2>3. m.id \in Ids /\ kind[m.id] = "dns"
        BY <2>1, <2>2 DEF Answered, Counted, RequestMessage
    <2>4. pending' \subseteq Ids /\ Cardinality(pending') <= MaxPending
        BY <1>few, <2>1
    <2>5. Held
        BY <1>t, <2>1, <2>3, <2>4, <2>c DEF Held, ClientTypes, WaitingIsTimed, ClientAgrees
    <2> QED
        BY <1>all, <2>2, <2>5, <2>c
<1>12. CASE HttpResponse
    <2>1. PICK m : /\ Take(m) /\ m.id \in pending /\ m.type = "HTTP_RESPONSE"
                   /\ timer' = timer \ {m.id}
                   /\ call' = [call EXCEPT ![m.id] = "connected"]
                   /\ reader' = [reader EXCEPT ![m.id] = IF m.chunk = 1 THEN "open" ELSE "none"]
        BY <1>12 DEF HttpResponse
    <2>c. UNCHANGED <<kind, torn, interest, sess, cws, sws, up, nextId, home, pending, rcvd,
                      sent, writing, cstate, queue, isClosed>>
        BY <1>12 DEF HttpResponse, requestVars
    <2>2. m \in Answered /\ Channels
        BY <2>1, <2>c, TakeAgrees DEF Channels
    <2>3. m.id \in Ids /\ kind[m.id] = "http"
        BY <2>1, <2>2 DEF Answered, Counted, RequestMessage
    <2>5. Held
        BY <1>t, <2>1, <2>3, <2>c DEF Held, ClientTypes, WaitingIsTimed, ClientAgrees
    <2> QED
        BY <1>all, <2>2, <2>5, <2>c
<1>13. CASE BodyChunk
    <2>1. PICK m : /\ Take(m) /\ m.id \in pending /\ m.type = "HTTP_BODY_CHUNK"
                   /\ rcvd' = IF reader[m.id] = "open"
                              THEN [rcvd EXCEPT ![m.id] = Append(@, m.chunk)] ELSE rcvd
        BY <1>13 DEF BodyChunk
    <2>c. UNCHANGED <<kind, torn, interest, sess, cws, sws, up, nextId, home, pending, timer,
                      call, reader, sent, writing, cstate, queue, isClosed>>
        BY <1>13 DEF BodyChunk, requestVars
    <2>2. m \in Answered /\ Channels
        BY <2>1, <2>c, TakeAgrees DEF Channels
    <2>3. m.id \in Ids /\ kind[m.id] = "http" /\ m.chunk \in 1 .. MaxChunks
        BY <2>1, <2>2 DEF Answered, Counted, RequestMessage, IsChunk
    <2>4. rcvd' \in [Ids -> Seq(1 .. MaxChunks)]
        BY <1>t, <2>1, <2>3 DEF ClientTypes
    <2>5. \A id \in Ids : id # m.id => rcvd'[id] = rcvd[id]
        BY <1>t, <2>1, <2>3 DEF ClientTypes
    <2>6. Held
        BY <1>t, <2>3, <2>4, <2>5, <2>c DEF Held, ClientTypes, WaitingIsTimed, ClientAgrees
    <2> QED
        BY <1>all, <2>2, <2>6, <2>c
<1>14. CASE BodyEnd
    <2>1. PICK m : /\ Take(m) /\ m.id \in pending /\ m.type = "HTTP_BODY_END"
                   /\ reader' = [reader EXCEPT ![m.id] = IF @ = "open" THEN "closed" ELSE @]
                   /\ pending' = pending \ {m.id}
        BY <1>14 DEF BodyEnd
    <2>c. UNCHANGED <<kind, torn, interest, sess, cws, sws, up, nextId, home, timer, call, rcvd,
                      sent, writing, cstate, queue, isClosed>>
        BY <1>14 DEF BodyEnd, requestVars
    <2>2. m \in Answered /\ Channels
        BY <2>1, <2>c, TakeAgrees DEF Channels
    <2>3. m.id \in Ids /\ kind[m.id] = "http"
        BY <2>1, <2>2 DEF Answered, Counted, RequestMessage
    <2>4. pending' \subseteq Ids /\ Cardinality(pending') <= MaxPending
        BY <1>few, <2>1
    <2>5. Held
        BY <1>t, <2>1, <2>3, <2>4, <2>c DEF Held, ClientTypes, WaitingIsTimed, ClientAgrees
    <2> QED
        BY <1>all, <2>2, <2>5, <2>c
<1>15. CASE Stray
    <2>1. PICK m : /\ Take(m)
                   /\ IF m.type \in {"HTTP_BODY_CHUNK", "UDP_DATA"}
                      THEN Send(<<Farewell(kind[m.id], m.id)>>)
                      ELSE UNCHANGED <<queue, up>>
        BY <1>15 DEF Stray
    <2>c. UNCHANGED <<kind, torn, interest, sess, cws, sws, nextId, home, pending, timer, call,
                      reader, rcvd, sent, writing, cstate, isClosed>>
        BY <1>15 DEF Stray, requestVars
    <2>2. m \in Answered /\ down' \in [Sessions -> Seq(Answered')]
        BY <2>1, <2>c, TakeAgrees
    <2>3. m.id \in Ids /\ kind[m.id] # "none"
        BY <2>2 DEF Answered, Counted, RequestMessage
    <2>4. Farewell(kind[m.id], m.id) \in Asked' /\ Asked' = Asked
        BY <1>one, <2>3, <2>c, KindsKept
    <2>5. /\ up' \in [Sessions -> Seq(Asked')]
          /\ queue' \in Seq(Asked') /\ Len(queue') <= MaxQueue
        <3>1. CASE UNCHANGED <<queue, up>>
            BY <1>t, <2>4, <3>1 DEF ChannelsAgree
        <3>2. CASE Send(<<Farewell(kind[m.id], m.id)>>)
            <4>1. <<Farewell(kind[m.id], m.id)>> \in Seq(Asked')
                BY <2>4
            <4> QED
                BY <2>c, <3>2, <4>1, SendAgrees
        <3> QED
            BY <2>1, <3>1, <3>2
    <2>6. Channels
        BY <2>2, <2>5 DEF Channels, ChannelsAgree
    <2>7. Held
        BY <1>t, <2>c DEF Held, ClientTypes, WaitingIsTimed, ClientAgrees
    <2> QED
        BY <1>all, <2>6, <2>7, <2>c
<1>16. CASE UdpHears
    <2>1. PICK m : /\ Take(m) /\ m.id \in interest
                   /\ rcvd' = IF m.type = "UDP_DATA"
                              THEN [rcvd EXCEPT ![m.id] = Append(@, m.chunk)] ELSE rcvd
                   /\ interest' = IF m.type \in {"UDP_CLOSE", "ERROR"} THEN interest \ {m.id}
                                                                       ELSE interest
        BY <1>16 DEF UdpHears
    <2>c. UNCHANGED <<kind, torn, sess, cws, sws, up, nextId, home, pending, timer, call, reader,
                      sent, writing, cstate, queue, isClosed>>
        BY <1>16 DEF UdpHears
    <2>2. m \in Answered /\ Channels
        BY <2>1, <2>c, TakeAgrees DEF Channels
    <2>3. m.id \in Ids /\ kind[m.id] = "udp" /\ (m.type = "UDP_DATA" => m.chunk \in 1 .. MaxChunks)
        BY <1>t, <2>1, <2>2 DEF Answered, Counted, RequestMessage, IsChunk, ClientAgrees
    <2>4. rcvd' \in [Ids -> Seq(1 .. MaxChunks)] /\ interest' \subseteq interest
        BY <1>t, <2>1, <2>3 DEF ClientTypes
    <2>5. \A id \in Ids : id # m.id => rcvd'[id] = rcvd[id]
        BY <1>t, <2>1, <2>3 DEF ClientTypes
    <2>6. Held
        BY <1>t, <2>3, <2>4, <2>5, <2>c DEF Held, ClientTypes, WaitingIsTimed, ClientAgrees
    <2> QED
        BY <1>all, <2>2, <2>6, <2>c
\* The end of the link
<1>17. CASE StreamError /\ UNCHANGED requestVars
    <2>1. PICK m : /\ Take(m) /\ m.id \in pending /\ m.type = "ERROR"
                   /\ reader' = [reader EXCEPT ![m.id] = IF @ = "open" THEN "errored" ELSE @]
                   /\ timer' = timer \ {m.id}
                   /\ call' = [call EXCEPT ![m.id] = IF @ = "waiting" THEN "failed" ELSE @]
                   /\ pending' = pending \ {m.id}
        BY <1>17 DEF StreamError
    <2>c. UNCHANGED <<kind, torn, interest, sess, cws, sws, up, nextId, home, rcvd, sent, writing,
                      cstate, queue, isClosed>>
        BY <1>17 DEF StreamError, requestVars
    <2>2. m \in Answered /\ Channels
        BY <2>1, <2>c, TakeAgrees DEF Channels
    <2>3. m.id \in Ids
        BY <2>2 DEF Answered, Counted, RequestMessage
    <2>4. pending' \subseteq Ids /\ Cardinality(pending') <= MaxPending
        BY <1>few, <2>1
    <2>5. Held
        BY <1>t, <2>1, <2>3, <2>4, <2>c DEF Held, ClientTypes, WaitingIsTimed, ClientAgrees
    <2> QED
        BY <1>all, <2>2, <2>5, <2>c
<1>lost. ASSUME \/ UNCHANGED <<cstate, queue, reader, call, timer, pending>>
                \/ /\ cstate' = "disconnected" /\ queue' = <<>> /\ RejectPending
                   /\ \/ reader' = reader
                      \/ reader' = [id \in Ids |-> IF id \in pending /\ reader[id] = "open"
                                                   THEN "errored" ELSE reader[id]],
                UNCHANGED <<kind, torn, interest, sess, sws, up, nextId, home, rcvd, sent,
                            writing>>,
                \/ UNCHANGED <<cws, down>>
                \/ cws' = FALSE /\ down' = [down EXCEPT ![sess] = <<>>] /\ sess # 0
                \/ cws' = FALSE /\ down' = down,
                isClosed' \in BOOLEAN
         PROVE  KindInv'
    <2>1. pending' \subseteq Ids /\ Cardinality(pending') <= MaxPending /\ pending' \subseteq pending
        BY <1>few, <1>lost DEF RejectPending
    <2>2. queue' = queue \/ queue' = <<>>
        BY <1>lost
    <2>3. queue' \in Seq(Asked) /\ Len(queue') <= MaxQueue
        BY <1>t, <2>2, NothingQueued DEF ChannelsAgree
    <2>4. down' \in [Sessions -> Seq(Answered)]
        BY <1>t, <1>lost, NothingQueued, WireAssumption DEF ChannelsAgree, ClientTypes, Sessions
    <2>5. Channels
        BY <1>t, <1>lost, <2>3, <2>4, KindsKept DEF Channels, ChannelsAgree
    <2>6. reader' \in [Ids -> ReaderState] /\ call' \in [Ids -> CallState] /\ timer' \subseteq timer
        BY <1>t, <1>lost DEF RejectPending, ClientTypes
    <2>7. \A id \in Ids :
              /\ reader'[id] = reader[id] \/ (reader[id] = "open" /\ reader'[id] = "errored")
              /\ call'[id] = call[id] \/ (call[id] = "waiting" /\ call'[id] = "failed")
              /\ id \in timer' <=> id \in timer /\ (id \notin pending \/ call'[id] = call[id])
              /\ id \in pending' \/ id \notin pending => call'[id] = call[id]
              /\ id \in pending /\ id \notin timer' => call'[id] # "waiting"
        BY <1>t, <1>lost DEF RejectPending, ClientTypes, ClientAgrees, WaitingIsTimed
    <2>u. UNCHANGED <<kind, torn, interest, sess, nextId, home, rcvd, sent, writing>>
        BY <1>lost
    <2>l. cws' = cws \/ cws' = FALSE
        BY <1>lost
    <2>s. isClosed' \in BOOLEAN /\ (cstate' = cstate \/ cstate' = "disconnected")
        BY <1>lost
    <2>b. cws' \in BOOLEAN /\ (cws' => cws)
        <3>1. cws \in BOOLEAN
            BY <1>t DEF ClientTypes
        <3>2. CASE cws' = cws
            BY <3>1, <3>2
        <3>3. CASE cws' = FALSE
            BY <3>3
        <3> QED
            BY <2>l, <3>2, <3>3
    <2>c. cstate' \in {"connected", "disconnected"}
        BY <1>t, <2>s DEF ClientTypes
    <2>8. ClientTypes'
        BY <1>t, <2>1, <2>6, <2>b, <2>c, <2>s, <2>u DEF ClientTypes
    <2>9. WaitingIsTimed' /\ ClientAgrees'
        <3>1. WaitingIsTimed'
            BY <1>t, <2>6, <2>7 DEF WaitingIsTimed
        <3>2. ClientAgrees'
            BY <1>t, <2>1, <2>7, <2>u DEF ClientAgrees
        <3> QED
            BY <3>1, <3>2
    <2> QED
        BY <1>all, <1>lost, <2>5, <2>8, <2>9 DEF Held
<1>18. CASE (ClientLinkClosed \/ HeartbeatTimeout) /\ UNCHANGED requestVars
    BY <1>t, <1>18, <1>lost
    DEF ClientLinkClosed, HeartbeatTimeout, HandleDisconnect, requestVars, ClientTypes
<1>19. CASE CloseClient /\ UNCHANGED requestVars
    BY <1>t, <1>19, <1>lost DEF CloseClient, requestVars, ClientTypes
<1> QED
    BY <1>1, <1>2, <1>3, <1>4, <1>5, <1>6, <1>7, <1>8, <1>9, <1>10, <1>11, <1>12, <1>13,
       <1>14, <1>15, <1>16, <1>17, <1>18, <1>19 DEF RequestNext, UDPDriver

\* What suits the kinds can be answered,
LEMMA ReplyAgrees ==
    ASSUME KindInv, UNCHANGED kind, NEW s \in Sessions, NEW m \in Answered, Reply(s, m)
    PROVE  down' \in [Sessions -> Seq(Answered')]
<1>1. down \in [Sessions -> Seq(Answered)] /\ Answered' = Answered
    BY KindsKept DEF KindInv, ChannelsAgree
<1> QED
    BY <1>1, ReplyIsTyped

\* and what a transport receives suited them.
LEMMA ReceiveAgrees ==
    ASSUME KindInv, UNCHANGED kind, NEW s \in Sessions, NEW m, Receive(s, m)
    PROVE  /\ m \in Asked
           /\ m.id \in Ids /\ m.chunk \in 0 .. MaxChunks + 1
           /\ up' \in [Sessions -> Seq(Asked')]
<1>1. up \in [Sessions -> Seq(Asked)] /\ Asked' = Asked
    BY KindsKept DEF KindInv, ChannelsAgree
<1>2. m \in Asked /\ up' \in [Sessions -> Seq(Asked)]
    BY <1>1, ReceiveIsTyped
<1> QED
    BY <1>1, <1>2 DEF Asked, Counted, RequestMessage

\* The server's steps.
LEMMA ServerStepAgrees ==
    ASSUME KindInv, ServerNext, UNCHANGED <<clientVars, requestVars>>
    PROVE  KindInv'
<1>t. /\ ClientTypes /\ ServerTypes /\ ChannelsAgree /\ Len(queue) <= MaxQueue
      /\ WaitingIsTimed /\ ClientAgrees /\ ServerAgrees
    BY TypesOfParts
<1>v. UNCHANGED <<nextId, home, pending, timer, call, reader, rcvd, sent, writing, cstate,
                  queue, isClosed, kind, torn, interest>>
    BY DEF clientVars, requestVars
<1>k. Asked' = Asked /\ Answered' = Answered
    BY <1>v, KindsKept
<1> DEFINE Links == /\ UNCHANGED <<sess, cws>> /\ sws' \in [Sessions -> BOOLEAN]
                    /\ tstate' \in [Sessions -> TransportState]
           Up == up' \in [Sessions -> Seq(Asked')]
           Down == down' \in [Sessions -> Seq(Answered')]
           Dns == DnsTypeOK' /\ \A z \in Sessions, i \in Ids :
                     i \in lookups'[z] \cup queries'[z] => kind[i] = "dns"
           Http == HttpTypeOK' /\ \A z \in Sessions, i \in Ids :
                     stage'[z][i] # "none" => kind[i] = "http"
           Udp == UdpTypeOK' /\ \A z \in Sessions, i \in Ids :
                     /\ loop'[z][i] # "none" => kind[i] = "udp"
                     /\ loop'[z][i] = "holding" => datagrams'[z][i] # 0
<1>all. ASSUME Links, Up, Down, Dns, Http, Udp PROVE KindInv'
    <2>1. ClientTypes'
        BY <1>t, <1>v, <1>all DEF ClientTypes, RequestTypeOK
    <2>2. WaitingIsTimed' /\ ClientAgrees'
        BY <1>t, <1>v, <1>all DEF WaitingIsTimed, ClientAgrees
    <2>3. ServerTypes' /\ ServerAgrees'
        BY <1>v, <1>all DEF ServerTypes, ServerAgrees
    <2>4. ChannelsAgree' /\ Len(queue)' <= MaxQueue
        BY <1>t, <1>k, <1>v, <1>all DEF ChannelsAgree
    <2> QED
        BY <2>1, <2>2, <2>3, <2>4, TypesOfParts DEF KindInv
<1>up. UNCHANGED up => Up
    BY <1>t, <1>k DEF ChannelsAgree
<1>down. UNCHANGED down => Down
    BY <1>t, <1>k DEF ChannelsAgree
<1>dns. UNCHANGED dnsVars => Dns
    BY <1>t DEF dnsVars, ServerTypes, DnsTypeOK, ServerAgrees
<1>http. UNCHANGED httpVars => Http
    BY <1>t DEF httpVars, ServerTypes, HttpTypeOK, ServerAgrees
<1>udp. UNCHANGED udpVars => Udp
    BY <1>t DEF udpVars, ServerTypes, UdpTypeOK, ServerAgrees
<1>links. UNCHANGED <<sess, cws, sws, tstate>> => Links
    BY <1>t DEF ServerTypes
<1> HIDE DEF Links, Up, Down, Dns, Http, Udp
<1>reply. ASSUME NEW s \in Sessions, NEW m \in Answered, Reply(s, m) PROVE Down
    BY <1>v, <1>reply, ReplyAgrees DEF Down
<1>stage. ASSUME NEW s \in Sessions, NEW id \in Ids, NEW to \in Stage, SetStage(s, id, to)
          PROVE  /\ stage' \in [Sessions -> [Ids -> Stage]]
                 /\ kind[id] = "http" => \A z \in Sessions, i \in Ids :
                       stage'[z][i] # "none" => kind[i] = "http"
    BY <1>t, <1>stage DEF SetStage, ServerTypes, HttpTypeOK, ServerAgrees
<1>settled. ASSUME NEW s \in Sessions, NEW id \in Ids, NEW to \in Stage, SetStage(s, id, to),
                   CleanupRequest(s, id), UNCHANGED <<aborted, produced, uploaded, finished>>,
                   kind[id] = "http"
            PROVE  Http
    <2>1. requests' \in [Sessions -> SUBSET Ids] /\ bodies' \in [Sessions -> SUBSET Ids]
        BY <1>t, <1>settled DEF CleanupRequest, ServerTypes, HttpTypeOK
    <2> QED
        BY <1>t, <1>stage, <1>settled, <2>1 DEF Http, ServerTypes, HttpTypeOK
<1>loop. ASSUME NEW s \in Sessions, NEW id \in Ids, NEW to \in Loop, SetLoop(s, id, to),
                UNCHANGED datagrams, to # "holding", sockets' \in [Sessions -> SUBSET Ids],
                kind[id] = "udp"
         PROVE  Udp
    BY <1>t, <1>loop DEF SetLoop, Udp, ServerTypes, UdpTypeOK, ServerAgrees
<1>close. ASSUME NEW s \in Sessions, NEW id \in Ids, CloseSocket(s, id)
          PROVE  sockets' \in [Sessions -> SUBSET Ids]
    BY <1>t, <1>close DEF CloseSocket, ServerTypes, UdpTypeOK
<1>1. PICK s \in Sessions :
          \/ Dispatch(s)
          \/ ServerLinkClosed(s) \/ ServerHeartbeatTimeout(s) \/ CloseTransport(s)
          \/ \E id \in Ids :
                \/ DnsStep(s, id) /\ UNCHANGED <<httpVars, udpVars>>
                \/ HttpStep(s, id) /\ UNCHANGED <<dnsVars, udpVars>>
                \/ UdpStep(s, id) /\ UNCHANGED <<dnsVars, httpVars>>
    BY DEF ServerNext
\* Messages
<1>2. CASE Dispatch(s)
    <2>1. PICK m :
              /\ Receive(s, m)
              /\ \/ HandleQuery(s, m) /\ UNCHANGED <<httpVars, udpVars>>
                 \/ HttpReceive(s, m) /\ UNCHANGED <<dnsVars, udpVars>>
                 \/ UdpReceive(s, m) /\ UNCHANGED <<dnsVars, httpVars>>
                 \/ m.type = "ERROR" /\ UNCHANGED <<dnsVars, httpVars, udpVars, down>>
              /\ UNCHANGED <<sess, cws, sws, tstate>>
        BY <1>2 DEF Dispatch
    <2>2. Links
        BY <1>links, <2>1
    <2>3. m \in Asked /\ m.id \in Ids /\ m.chunk \in 0 .. MaxChunks + 1 /\ Up
        BY <1>v, <2>1, ReceiveAgrees DEF Up
    <2>4. /\ m.type = "DNS_QUERY" => kind[m.id] = "dns"
          /\ m.type \in {"HTTP_REQUEST", "HTTP_BODY_CHUNK", "HTTP_BODY_END"} => kind[m.id] = "http"
          /\ m.type \in {"UDP_BIND", "UDP_CLOSE"} => kind[m.id] = "udp"
          /\ m.type = "HTTP_BODY_CHUNK" => m.chunk \in 1 .. MaxChunks
        BY <2>3 DEF Asked, Counted, IsChunk
    <2>5. Msg("ERROR", m.id) \in Answered
        BY <2>3, ServerMakes DEF Asked
    <2>6. CASE HandleQuery(s, m) /\ UNCHANGED <<httpVars, udpVars>>
        <3>1. Down
            BY <1>down, <1>reply, <2>5, <2>6 DEF HandleQuery
        <3>2. Dns
            BY <1>t, <1>dns, <2>3, <2>4, <2>6
            DEF HandleQuery, Dns, ServerTypes, DnsTypeOK, ServerAgrees
        <3> QED
            BY <1>all, <1>http, <1>udp, <2>2, <2>3, <2>6, <3>1, <3>2
    <2>7. CASE HttpReceive(s, m) /\ UNCHANGED <<dnsVars, udpVars>>
        <3>1. CASE HandleRequest(s, m)
            <4>1. Down
                BY <1>down, <1>reply, <2>5, <3>1 DEF HandleRequest
            <4>2. /\ requests' \in [Sessions -> SUBSET Ids] /\ bodies' \in [Sessions -> SUBSET Ids]
                  /\ UNCHANGED <<aborted, produced, uploaded, finished>>
                <5>1. \/ UNCHANGED <<requests, bodies>>
                      \/ /\ requests' = [requests EXCEPT ![s] = @ \cup {m.id}]
                         /\ bodies' = [bodies EXCEPT ![s] = IF m.chunk = 1 THEN @ \cup {m.id} ELSE @]
                    BY <3>1 DEF HandleRequest
                <5>2. requests \in [Sessions -> SUBSET Ids] /\ bodies \in [Sessions -> SUBSET Ids]
                    BY <1>t DEF ServerTypes, HttpTypeOK
                <5>3. UNCHANGED <<aborted, produced, uploaded, finished>>
                    BY <3>1 DEF HandleRequest
                <5>4. requests' \in [Sessions -> SUBSET Ids]
                    BY <2>3, <5>1, <5>2
                <5>5. bodies' \in [Sessions -> SUBSET Ids]
                    BY <2>3, <5>1, <5>2
                <5> QED
                    BY <5>3, <5>4, <5>5
            <4>3. SetStage(s, m.id, "fetching") \/ SetStage(s, m.id, "failed")
                BY <3>1 DEF HandleRequest
            <4>4. kind[m.id] = "http"
                BY <2>4, <3>1 DEF HandleRequest
            <4>5. Http
                BY <1>t, <1>stage, <2>3, <4>2, <4>3, <4>4 DEF Http, ServerTypes, HttpTypeOK, Stage
            <4> QED
                BY <1>all, <1>dns, <1>udp, <2>2, <2>3, <2>7, <4>1, <4>5
        <3>2. CASE HandleBodyChunk(s, m)
            <4>1. Append(uploaded[s][m.id], m.chunk) \in Seq(1 .. MaxChunks)
                BY <1>t, <2>3, <2>4, <3>2 DEF HandleBodyChunk, ServerTypes, HttpTypeOK
            <4>2. uploaded' \in [Sessions -> [Ids -> Seq(1 .. MaxChunks)]]
                BY <1>t, <2>3, <3>2, <4>1 DEF HandleBodyChunk, ServerTypes, HttpTypeOK
            <4>3. Http /\ UNCHANGED down
                BY <1>t, <3>2, <4>2 DEF HandleBodyChunk, Http, ServerTypes, HttpTypeOK, ServerAgrees
            <4> QED
                BY <1>all, <1>dns, <1>down, <1>udp, <2>2, <2>3, <2>7, <4>3
        <3>3. CASE HandleBodyEnd(s, m)
            <4>1. Http /\ UNCHANGED down
                BY <1>t, <2>3, <3>3 DEF HandleBodyEnd, Http, ServerTypes, HttpTypeOK, ServerAgrees
            <4> QED
                BY <1>all, <1>dns, <1>down, <1>udp, <2>2, <2>3, <2>7, <4>1
        <3> QED
            BY <2>7, <3>1, <3>2, <3>3 DEF HttpReceive
    <2>8. CASE UdpReceive(s, m) /\ UNCHANGED <<dnsVars, httpVars>>
        <3>1. CASE HandleBind(s, m)
            <4>1. Msg("UDP_BIND_ACK", m.id) \in Answered
                BY <2>3, <2>4, <3>1, ServerMakes DEF HandleBind
            <4>2. Down
                BY <1>reply, <2>5, <3>1, <4>1 DEF HandleBind
            <4>3. Udp
                <5>1. kind[m.id] = "udp" /\ UNCHANGED datagrams
                    BY <2>4, <3>1 DEF HandleBind
                <5>2. CASE UNCHANGED <<sockets, loop>>
                    BY <1>udp, <5>1, <5>2 DEF udpVars
                <5>3. CASE /\ sockets' = [sockets EXCEPT ![s] = @ \cup {m.id}]
                           /\ SetLoop(s, m.id, "receiving")
                    <6>1. sockets' \in [Sessions -> SUBSET Ids]
                        BY <1>t, <2>3, <5>3 DEF ServerTypes, UdpTypeOK
                    <6> QED
                        BY <1>loop, <2>3, <5>1, <5>3, <6>1 DEF Loop
                <5> QED
                    BY <3>1, <5>2, <5>3 DEF HandleBind
            <4> QED
                BY <1>all, <1>dns, <1>http, <2>2, <2>3, <2>8, <4>2, <4>3
        <3>2. CASE HandleUdpClose(s, m)
            <4>1. Msg("UDP_CLOSE", m.id) \in Answered
                BY <2>3, <2>4, <3>2, ServerMakes DEF HandleUdpClose
            <4>2. Down
                BY <1>down, <1>reply, <3>2, <4>1 DEF HandleUdpClose, CloseSocket
            <4>3. sockets' \in [Sessions -> SUBSET Ids] /\ UNCHANGED <<loop, datagrams>>
                BY <1>close, <2>3, <3>2 DEF HandleUdpClose
            <4>4. Udp
                BY <1>t, <4>3 DEF Udp, ServerTypes, UdpTypeOK, ServerAgrees
            <4> QED
                BY <1>all, <1>dns, <1>http, <2>2, <2>3, <2>8, <4>2, <4>4
        <3>3. CASE HandleUdpData(m)
            BY <1>all, <1>dns, <1>http, <1>udp, <1>down, <2>2, <2>3, <2>8, <3>3 DEF HandleUdpData
        <3> QED
            BY <2>8, <3>1, <3>2, <3>3 DEF UdpReceive
    <2>9. CASE m.type = "ERROR" /\ UNCHANGED <<dnsVars, httpVars, udpVars, down>>
        BY <1>all, <1>dns, <1>http, <1>udp, <1>down, <2>2, <2>3, <2>9
    <2> QED
        BY <2>1, <2>6, <2>7, <2>8, <2>9
\* The life of the transport
<1>3. CASE ServerLinkClosed(s)
    <2>1. Links
        BY <1>t, <1>3 DEF ServerLinkClosed, LinkLost, Links, ServerTypes, TransportState
    <2>2. Up
        BY <1>t, <1>k, <1>3 DEF ServerLinkClosed, LinkLost, Up, ChannelsAgree
    <2> QED
        BY <1>3, <1>all, <1>dns, <1>http, <1>udp, <1>down, <2>1, <2>2 DEF ServerLinkClosed, LinkLost
<1>4. CASE ServerHeartbeatTimeout(s)
    <2>1. Links
        BY <1>t, <1>4 DEF ServerHeartbeatTimeout, HeartbeatLost, Links, ServerTypes, TransportState
    <2> QED
        BY <1>4, <1>all, <1>dns, <1>http, <1>udp, <1>down, <1>up, <2>1
        DEF ServerHeartbeatTimeout, HeartbeatLost
<1>5. CASE CloseTransport(s)
    <2>1. Links
        BY <1>t, <1>5 DEF CloseTransport, EndTransport, Links, ServerTypes, TransportState
    <2>2. Up
        BY <1>t, <1>k, <1>5 DEF CloseTransport, EndTransport, Up, ChannelsAgree
    <2>3. Http
        BY <1>t, <1>5 DEF CloseTransport, AbortAll, Http, ServerTypes, HttpTypeOK, ServerAgrees
    <2>4. Udp
        BY <1>t, <1>5 DEF CloseTransport, CloseSockets, Udp, ServerTypes, UdpTypeOK, ServerAgrees
    <2> QED
        BY <1>5, <1>all, <1>dns, <1>down, <2>1, <2>2, <2>3, <2>4 DEF CloseTransport, EndTransport
\* DNS
<1>6. ASSUME NEW id \in Ids, DnsStep(s, id), UNCHANGED <<httpVars, udpVars>> PROVE KindInv'
    <2>1. kind[id] = "dns"
        BY <1>t, <1>6 DEF DnsStep, QueryTimeout, LookupEnds, ServerAgrees
    <2>2. Msg("ERROR", id) \in Answered /\ Msg("DNS_RESPONSE", id) \in Answered
        BY <2>1, ServerMakes
    <2>3. Down
        BY <1>6, <1>reply, <2>2 DEF DnsStep, QueryTimeout, LookupEnds
    <2>4. Dns
        BY <1>t, <1>6
        DEF DnsStep, QueryTimeout, LookupEnds, Dns, ServerTypes, DnsTypeOK, ServerAgrees
    <2>5. UNCHANGED <<sess, cws, sws, up, tstate>>
        BY <1>6 DEF DnsStep, QueryTimeout, LookupEnds
    <2> QED
        BY <1>6, <1>all, <1>http, <1>udp, <1>up, <1>links, <2>3, <2>4, <2>5
\* HTTP
<1>7. ASSUME NEW id \in Ids, HttpStep(s, id), UNCHANGED <<dnsVars, udpVars>> PROVE KindInv'
    <2> USE DEF Stage, Http, ServerTypes, HttpTypeOK, ServerAgrees
    <2>1. CASE BodyCancelled(s, id)
        <3>1. Http
            BY <1>t, <2>1 DEF BodyCancelled
        <3> QED
            BY <1>7, <1>all, <1>dns, <1>udp, <1>up, <1>down, <1>links, <2>1, <3>1
            DEF BodyCancelled, wireVars

    <2>3. CASE FetchFails(s, id) \/ BodyDone(s, id) \/ CutOff(s, id) \/ ReadFails(s, id)
        <3>2. kind[id] = "http" /\ UNCHANGED <<sess, cws, sws, up, tstate>>
            BY <1>t, <2>3 DEF FetchFails, BodyDone, CutOff, ReadFails
        <3>1. Http
            <4> HIDE DEF Http
            <4> QED
                BY <1>settled, <2>3, <3>2 DEF FetchFails, BodyDone, CutOff, ReadFails
        <3>3. Msg("ERROR", id) \in Answered /\ Msg("HTTP_BODY_END", id) \in Answered
            BY <3>2, ServerMakes
        <3>4. Down
            BY <1>reply, <2>3, <3>3 DEF FetchFails, BodyDone, CutOff, ReadFails
        <3> QED
            BY <1>7, <1>all, <1>dns, <1>udp, <1>up, <1>links, <3>1, <3>2, <3>4
    <2>4. CASE Responds(s, id)
        <3>1. Http /\ kind[id] = "http"
            BY <1>t, <1>stage, <2>4 DEF Responds
        <3>2. Down
            BY <1>reply, <2>4, <3>1, ServerMakes DEF Responds
        <3> QED
            BY <1>7, <1>all, <1>dns, <1>udp, <1>up, <1>links, <2>4, <3>1, <3>2 DEF Responds
    <2>5. CASE RespondsWithoutBody(s, id)
        <3>1. Http /\ kind[id] = "http"
            <4> HIDE DEF Http
            <4> QED
                BY <1>t, <1>settled, <2>5 DEF RespondsWithoutBody
        <3>2. Chunk("HTTP_RESPONSE", id, 0) \in Answered /\ Msg("HTTP_BODY_END", id) \in Answered
            BY <3>1, ServerMakes
        <3>3. Down
            BY <1>t, <1>k, <2>5, <3>2, ReplyTwiceIsTyped DEF RespondsWithoutBody, Down, ChannelsAgree
        <3> QED
            BY <1>7, <1>all, <1>dns, <1>udp, <1>up, <1>links, <2>5, <3>1, <3>3 DEF RespondsWithoutBody
    <2>6. CASE ReadBody(s, id)
        <3>1. produced[s][id] + 1 \in 1 .. MaxChunks /\ kind[id] = "http"
            BY <1>t, <2>6, WireAssumption DEF ReadBody
        <3>2. Http
            BY <1>t, <2>6, <3>1 DEF ReadBody
        <3>3. Chunk("HTTP_BODY_CHUNK", id, produced[s][id] + 1) \in Answered
            BY <3>1, ServerMakes
        <3>4. Down
            BY <1>reply, <2>6, <3>3 DEF ReadBody
        <3> QED
            BY <1>7, <1>all, <1>dns, <1>udp, <1>up, <1>links, <2>6, <3>2, <3>4 DEF ReadBody
    <2> QED
        BY <1>7, <2>1, <2>3, <2>4, <2>5, <2>6 DEF HttpStep, FetchEnds
\* UDP
<1>8. ASSUME NEW id \in Ids, UdpStep(s, id), UNCHANGED <<dnsVars, httpVars>> PROVE KindInv'
    <2> USE DEF SetLoop, Loop, Udp, ServerTypes, UdpTypeOK, ServerAgrees
    <2>1. CASE Datagram(s, id)
        <3>1. datagrams[s][id] + 1 \in 1 .. MaxChunks
            BY <1>t, <2>1, WireAssumption DEF Datagram
        <3>2. Udp
            BY <1>t, <2>1, <3>1 DEF Datagram
        <3> QED
            BY <1>8, <1>all, <1>dns, <1>http, <1>up, <1>down, <1>links, <2>1, <3>2
            DEF Datagram, wireVars
    <2>2. CASE SendDatagram(s, id)
        <3>1. datagrams[s][id] \in 1 .. MaxChunks /\ kind[id] = "udp"
            BY <1>t, <2>2, WireAssumption DEF SendDatagram
        <3>2. Udp
            BY <1>t, <2>2 DEF SendDatagram
        <3>3. Chunk("UDP_DATA", id, datagrams[s][id]) \in Answered
            BY <3>1, ServerMakes
        <3>4. Down
            BY <1>reply, <2>2, <3>3 DEF SendDatagram
        <3> QED
            BY <1>8, <1>all, <1>dns, <1>http, <1>up, <1>links, <2>2, <3>2, <3>4 DEF SendDatagram
    <2>3. CASE LoopEnds(s, id)
        <3>1. kind[id] = "udp"
            BY <1>t, <2>3 DEF LoopEnds
        <3>2. Udp
            <4> HIDE DEF Udp
            <4> QED
                BY <1>close, <1>loop, <2>3, <3>1 DEF LoopEnds
        <3>3. Msg("UDP_CLOSE", id) \in Answered
            BY <3>1, ServerMakes
        <3>4. Down
            BY <1>down, <1>reply, <2>3, <3>3 DEF LoopEnds, CloseSocket
        <3> QED
            BY <1>8, <1>all, <1>dns, <1>http, <1>up, <1>links, <2>3, <3>2, <3>4 DEF LoopEnds
    <2> QED
        BY <1>8, <2>1, <2>2, <2>3 DEF UdpStep
<1> QED
    BY <1>1, <1>2, <1>3, <1>4, <1>5, <1>6, <1>7, <1>8

\* A new session starts from the queue and a fresh transport.
LEMMA NewSessionAgrees ==
    ASSUME KindInv, NewSession
    PROVE  KindInv'
<1>t. /\ ClientTypes /\ ServerTypes /\ ChannelsAgree /\ Len(queue) <= MaxQueue
      /\ WaitingIsTimed /\ ClientAgrees /\ ServerAgrees
    BY TypesOfParts
<1>v. UNCHANGED <<nextId, home, pending, timer, call, reader, rcvd, sent, writing, isClosed,
                  kind, torn, interest, down, queries, lookups, requests, aborted, bodies,
                  stage, produced, uploaded, finished, sockets, loop, datagrams>>
    BY DEF NewSession, Assign, requestVars, dnsVars, httpVars, udpVars
<1>1. /\ sess + 1 \in Sessions /\ sess' = sess + 1 /\ cws' = TRUE /\ cstate' = "connected"
      /\ up' = [up EXCEPT ![sess + 1] = queue] /\ queue' = <<>>
    BY <1>t, WireAssumption DEF NewSession, Assign, FlushQueue, ClientTypes, Sessions
<1>2. /\ tstate' = [tstate EXCEPT ![sess + 1] = "connected"]
      /\ sws' = [sws EXCEPT ![sess + 1] = TRUE]
    BY DEF NewSession, AssignSocket
<1>3. ClientTypes'
    <2>1. sess' \in 0 .. MaxSessions /\ sess' # 0
        BY <1>1, WireAssumption DEF Sessions
    <2> QED
        BY <1>t, <1>v, <1>1, <2>1 DEF ClientTypes, RequestTypeOK
<1>4. ServerTypes'
    BY <1>t, <1>v, <1>1, <1>2
    DEF ServerTypes, TransportState, DnsTypeOK, HttpTypeOK, UdpTypeOK
<1>5. ChannelsAgree' /\ Len(queue)' <= MaxQueue
    <2>1. Asked' = Asked /\ Answered' = Answered
        BY <1>v, KindsKept
    <2>2. up' \in [Sessions -> Seq(Asked)]
        BY <1>t, <1>1 DEF ChannelsAgree
    <2> QED
        BY <1>t, <1>v, <1>1, <2>1, <2>2, NothingQueued DEF ChannelsAgree
<1>6. ClientAgrees'
    <2>1. ASSUME NEW id \in Ids PROVE home[id] <= sess'
        BY <1>t, <1>1, WireAssumption DEF ClientAgrees, ClientTypes
    <2> QED
        BY <1>t, <1>v, <1>1, <2>1 DEF ClientAgrees
<1>7. WaitingIsTimed' /\ ServerAgrees'
    BY <1>t, <1>v DEF WaitingIsTimed, ServerAgrees
<1> QED
    BY <1>3, <1>4, <1>5, <1>6, <1>7, TypesOfParts DEF KindInv

LEMMA InitAgrees ==
    ASSUME Init
    PROVE  KindInv
<1> USE DEF Init
<1>1. sess \in 0 .. MaxSessions /\ nextId \in 1 .. MaxCalls + 1 /\ 0 \in 0 .. MaxSessions
      /\ 0 \in 0 .. MaxChunks
    BY WireAssumption DEF WireInit, ClientInit
<1>2. queue \in Seq(RequestMessage) /\ queue \in Seq(Asked) /\ Len(queue) <= MaxQueue
    BY NothingQueued DEF ClientInit
<1>3. pending \subseteq Ids /\ Cardinality(pending) <= MaxPending
    BY FS_EmptySet, WireAssumption DEF ClientInit
<1>4. up \in [Sessions -> Seq(RequestMessage)] /\ down \in [Sessions -> Seq(RequestMessage)]
      /\ up \in [Sessions -> Seq(Asked)] /\ down \in [Sessions -> Seq(Answered)]
    BY DEF WireInit
<1>5. ClientTypes
    <2>1. <<>> \in Seq(1 .. MaxChunks) /\ 0 \in 0 .. MaxChunks
        BY <1>1, EmptySeq
    <2>2. /\ home \in [Ids -> 0 .. MaxSessions] /\ sent \in [Ids -> 0 .. MaxChunks]
          /\ rcvd \in [Ids -> Seq(1 .. MaxChunks)] /\ writing \in [Ids -> BOOLEAN]
        BY <1>1, <2>1 DEF ClientInit
    <2>3. call \in [Ids -> CallState] /\ reader \in [Ids -> ReaderState]
        BY DEF ClientInit, CallState, ReaderState
    <2>4. RequestTypeOK
        BY DEF RequestInit, RequestTypeOK, Kind
    <2> QED
        BY <1>1, <1>3, <2>2, <2>3, <2>4 DEF WireInit, ClientInit, ClientTypes
<1>6. ServerTypes
    BY <1>1
    DEF WireInit, DnsInit, HttpInit, UdpInit, ServerTypes, TransportState, DnsTypeOK, HttpTypeOK,
        UdpTypeOK, Stage, Loop
<1>7. TypeOK
    BY <1>2, <1>4, <1>5, <1>6 DEF TypeOK, ClientTypes, ServerTypes
<1>8. WaitingIsTimed /\ ClientAgrees
    BY <1>1, WireAssumption DEF WireInit, ClientInit, RequestInit, WaitingIsTimed, ClientAgrees
<1>9. ServerAgrees
    BY DEF DnsInit, HttpInit, UdpInit, ServerAgrees
<1> QED
    BY <1>2, <1>4, <1>7, <1>8, <1>9 DEF KindInv, ChannelsAgree

LEMMA NothingChangesKinds ==
    ASSUME KindInv, UNCHANGED vars
    PROVE  KindInv'
BY DEF KindInv, vars, wireVars, clientVars, requestVars, serverVars, dnsVars, httpVars, udpVars,
       TypeOK, RequestTypeOK, DnsTypeOK, HttpTypeOK, UdpTypeOK, WaitingIsTimed, ChannelsAgree,
       Asked, Answered, ClientAgrees, ServerAgrees

LEMMA KindsHold == Spec => []KindInv
<1>1. Init => KindInv
    BY InitAgrees
<1>2. KindInv /\ [Next]_vars => KindInv'
    <2> SUFFICES ASSUME KindInv, [Next]_vars PROVE KindInv'
        OBVIOUS
    <2>1. CASE NewSession
        BY <2>1, NewSessionAgrees
    <2>2. CASE RequestNext /\ UNCHANGED serverVars
        BY <2>2, ClientStepAgrees
    <2>3. CASE ServerNext /\ UNCHANGED <<clientVars, requestVars>>
        BY <2>3, ServerStepAgrees
    <2>4. CASE UNCHANGED vars
        BY <2>4, NothingChangesKinds
    <2> QED
        BY <2>1, <2>2, <2>3, <2>4 DEF Next
<1> QED
    BY <1>1, <1>2, PTL DEF Spec

\* Whatever the client, the proxies and the link do, every variable keeps its
\* type; in particular the queue and the pending map keep within their limits.
THEOREM Types == Spec => []TypeOK
<1>1. KindInv => TypeOK
    BY DEF KindInv
<1> QED
    BY <1>1, KindsHold, PTL

\* No query and no fetch waits without a clock: the timer of request() and of
\* receiveResponse() is armed exactly while the promise is unsettled, whichever
\* of the answer, the error, the timer, disconnect() and close() settles it.
THEOREM Timed == Spec => []WaitingIsTimed
<1>1. KindInv => WaitingIsTimed
    BY DEF KindInv
<1> QED
    BY <1>1, KindsHold, PTL

-----------------------------------------------------------------------------
(* Channels                                                                *)

\* What a channel carries are messages.
LEMMA ChannelElements ==
    ASSUME NEW ch \in Seq(RequestMessage), NEW k \in DOMAIN ch
    PROVE  ch[k] \in RequestMessage /\ ch[k].id \in Ids /\ ch[k].chunk \in Nat
<1>1. ch[k] \in RequestMessage
    OBVIOUS
<1> QED
    BY <1>1, WireAssumption DEF RequestMessage

\* What is left after the head has been taken was there before, one place on.
LEMMA TailElements ==
    ASSUME NEW ch \in Seq(RequestMessage), ch # <<>>
    PROVE  /\ Tail(ch) \in Seq(RequestMessage)
           /\ Head(ch) = ch[1] /\ 1 \in DOMAIN ch
           /\ \A k \in DOMAIN Tail(ch) : k + 1 \in DOMAIN ch /\ Tail(ch)[k] = ch[k + 1]
           /\ \A k \in DOMAIN ch : k # 1 => k - 1 \in DOMAIN Tail(ch) /\ Tail(ch)[k - 1] = ch[k]
<1> DEFINE new == Tail(ch)
<1>1. /\ Head(ch) = ch[1] /\ new \in Seq(RequestMessage) /\ 1 \in DOMAIN ch
      /\ \A k \in DOMAIN new : k + 1 \in DOMAIN ch /\ new[k] = ch[k + 1]
    BY HeadTailProperties
<1>2. DOMAIN ch = 1 .. Len(ch) /\ DOMAIN new = 1 .. Len(ch) - 1 /\ Len(ch) \in Nat
    BY HeadTailProperties
<1>3. \A k \in 1 .. Len(ch) : k # 1 => k - 1 \in DOMAIN new /\ (k - 1) + 1 = k
    BY <1>2
<1> HIDE DEF new
<1>4. \A k \in DOMAIN ch : k # 1 => k - 1 \in DOMAIN new /\ new[k - 1] = ch[k]
    BY <1>1, <1>2, <1>3
<1> QED
    BY <1>1, <1>4 DEF new

\* An appended channel is the old one and the new message.
LEMMA AppendElements ==
    ASSUME NEW ch \in Seq(RequestMessage), NEW m \in RequestMessage
    PROVE  /\ Append(ch, m) \in Seq(RequestMessage)
           /\ DOMAIN Append(ch, m) = DOMAIN ch \cup {Len(ch) + 1}
           /\ \A k \in DOMAIN ch : Append(ch, m)[k] = ch[k] /\ k < Len(ch) + 1 /\ k \in Nat
           /\ Append(ch, m)[Len(ch) + 1] = m /\ Len(ch) + 1 \in Nat
BY AppendProperties

LEMMA ConcatElements ==
    ASSUME NEW ch \in Seq(RequestMessage), NEW ms \in Seq(RequestMessage)
    PROVE  /\ ch \o ms \in Seq(RequestMessage)
           /\ \A k \in DOMAIN ch : k \in DOMAIN (ch \o ms) /\ (ch \o ms)[k] = ch[k]
           /\ \A k \in DOMAIN (ch \o ms) :
                 \/ k \in DOMAIN ch /\ (ch \o ms)[k] = ch[k]
                 \/ /\ k \notin DOMAIN ch /\ k > Len(ch)
                    /\ \E j \in DOMAIN ms : (ch \o ms)[k] = ms[j]
           /\ \A k \in DOMAIN ms : \E j \in DOMAIN (ch \o ms) : (ch \o ms)[j] = ms[k]
<1>1. /\ ch \o ms \in Seq(RequestMessage)
      /\ Len(ch \o ms) = Len(ch) + Len(ms)
      /\ \A k \in 1 .. Len(ch) : (ch \o ms)[k] = ch[k]
      /\ \A k \in 1 .. Len(ms) : (ch \o ms)[Len(ch) + k] = ms[k]
    BY ConcatProperties
<1>2. ASSUME NEW k \in 1 .. Len(ch \o ms), k \notin 1 .. Len(ch)
      PROVE  k > Len(ch) /\ \E j \in 1 .. Len(ms) : (ch \o ms)[k] = ms[j]
    <2>1. k - Len(ch) \in 1 .. Len(ms) /\ Len(ch) + (k - Len(ch)) = k /\ k > Len(ch)
        BY <1>1, <1>2
    <2> QED
        BY <1>1, <2>1
<1>3. ASSUME NEW k \in 1 .. Len(ms)
      PROVE  \E j \in 1 .. Len(ch \o ms) : (ch \o ms)[j] = ms[k]
    <2>1. Len(ch) + k \in 1 .. Len(ch \o ms)
        BY <1>1
    <2> QED
        BY <1>1, <2>1
<1>4. \A k \in 1 .. Len(ch) : k \in 1 .. Len(ch \o ms)
    BY <1>1
<1>5. /\ DOMAIN ch = 1 .. Len(ch) /\ DOMAIN ms = 1 .. Len(ms)
      /\ DOMAIN (ch \o ms) = 1 .. Len(ch \o ms)
    BY <1>1
<1> DEFINE new == ch \o ms
<1> HIDE DEF new
<1>6. /\ new \in Seq(RequestMessage)
      /\ \A k \in DOMAIN ch : k \in DOMAIN new /\ new[k] = ch[k]
    BY <1>1, <1>4, <1>5 DEF new
<1>7. ASSUME NEW k \in DOMAIN new, k \notin DOMAIN ch
      PROVE  k > Len(ch) /\ \E j \in DOMAIN ms : new[k] = ms[j]
    BY <1>2, <1>5, <1>7 DEF new
<1>8. \A k \in DOMAIN ms : \E j \in DOMAIN new : new[j] = ms[k]
    BY <1>3, <1>5 DEF new
<1>9. \A k \in DOMAIN new :
          \/ k \in DOMAIN ch /\ new[k] = ch[k]
          \/ /\ k \notin DOMAIN ch /\ k > Len(ch)
             /\ \E j \in DOMAIN ms : new[k] = ms[j]
    BY <1>6, <1>7
<1> QED
    BY <1>6, <1>8, <1>9 DEF new

\* Messages an exchange does not begin with.
Plain(ms) == \A k \in DOMAIN ms : ~Begins(ms[k])

\* What BeginsWith says survives what is sent and what is taken.
LEMMA BeginsWithMore ==
    ASSUME NEW ch \in Seq(RequestMessage), NEW ms \in Seq(RequestMessage), NEW id,
           Plain(ms), BeginsWith(ch, id)
    PROVE  BeginsWith(ch \o ms, id)
<1> DEFINE new == ch \o ms
<1>1. \A k \in DOMAIN new : \/ k \in DOMAIN ch /\ new[k] = ch[k]
                            \/ k > Len(ch) /\ ~Begins(new[k])
    BY ConcatElements DEF Plain
<1>2. DOMAIN ch = 1 .. Len(ch) /\ Len(ch) \in Nat
    OBVIOUS
<1>3. DOMAIN new = 1 .. Len(new) /\ Len(new) \in Nat
    BY ConcatElements
<1> HIDE DEF new
<1>4. ASSUME NEW k \in DOMAIN new, NEW j \in DOMAIN new,
             Begins(new[k]), new[k].id = id, new[j].id = id
      PROVE  k <= j
    <2>1. k \in DOMAIN ch /\ new[k] = ch[k]
        BY <1>1, <1>4
    <2>2. CASE j \in DOMAIN ch /\ new[j] = ch[j]
        BY <1>4, <2>1, <2>2 DEF BeginsWith
    <2>3. CASE j > Len(ch)
        BY <1>2, <1>3, <2>1, <2>3
    <2> QED
        BY <1>1, <2>2, <2>3
<1>5. BeginsWith(new, id)
    BY <1>4 DEF BeginsWith
<1> QED
    BY <1>5 DEF new

LEMMA BeginsWithNew ==
    ASSUME NEW ch \in Seq(RequestMessage), NEW m \in RequestMessage, NEW id,
           \A k \in DOMAIN ch : ch[k].id # m.id, BeginsWith(ch, id)
    PROVE  BeginsWith(Append(ch, m), id)
<1> DEFINE new == Append(ch, m)
<1>1. /\ DOMAIN new = DOMAIN ch \cup {Len(ch) + 1}
      /\ \A k \in DOMAIN ch : new[k] = ch[k] /\ k < Len(ch) + 1
      /\ new[Len(ch) + 1] = m /\ Len(ch) + 1 \in Nat
    BY AppendElements
<1> HIDE DEF new
<1>2. BeginsWith(new, id)
    BY <1>1 DEF BeginsWith
<1> QED
    BY <1>2 DEF new

LEMMA BeginsWithTail ==
    ASSUME NEW ch \in Seq(RequestMessage), ch # <<>>, NEW id, BeginsWith(ch, id)
    PROVE  /\ BeginsWith(Tail(ch), id)
           /\ ch[1].id = id => \A k \in DOMAIN Tail(ch) : ~(Begins(Tail(ch)[k]) /\ Tail(ch)[k].id = id)
<1> DEFINE new == Tail(ch)
<1>1. /\ 1 \in DOMAIN ch
      /\ \A k \in DOMAIN new : k + 1 \in DOMAIN ch /\ new[k] = ch[k + 1]
      /\ DOMAIN new \subseteq Nat \ {0}
    BY TailElements
<1> HIDE DEF new
<1>2. BeginsWith(new, id)
    BY <1>1 DEF BeginsWith
<1>3. ch[1].id = id => \A k \in DOMAIN new : ~(Begins(new[k]) /\ new[k].id = id)
    BY <1>1 DEF BeginsWith
<1> QED
    BY <1>2, <1>3 DEF new

-----------------------------------------------------------------------------
(* What a step of the client does to the channels                          *)

\* It says ms, wherever that goes.
Says(ms) ==
    /\ \A s \in Sessions : up'[s] = up[s] \/ (s = sess /\ up'[s] = up[s] \o ms)
    /\ queue' \in {queue, <<>>, FirstOf(queue \o ms, MaxQueue)}

\* It begins an exchange with m, in the session it is in.
SaysFirst(m) ==
    /\ kind[m.id] = "none" /\ home'[m.id] = sess
    /\ queue' = queue
    /\ \A s \in Sessions : up'[s] = up[s] \/ (s = sess /\ up'[s] = Append(up[s], m))

Speaks ==
    \/ \E ms \in Seq(Asked') : Plain(ms) /\ Says(ms)
    \/ \E m \in Asked' : SaysFirst(m)

\* It hears one message, loses all of them, or neither.
Hears ==
    \A s \in Sessions :
        \/ down'[s] = down[s] \/ down'[s] = <<>>
        \/ down[s] # <<>> /\ down'[s] = Tail(down[s])

\* What it keeps in any case.
KeepsSession ==
    /\ UNCHANGED <<sess, sws>>
    /\ cws' => cws /\ isClosed' = isClosed
    /\ cstate' = "connected" => cstate = "connected" /\ cws' = cws
    /\ \A id \in Ids : kind[id] # "none" => home'[id] = home[id]

LEMMA SendSays ==
    ASSUME KindInv, NEW ms, Send(ms)
    PROVE  Says(ms)
<1>1. up \in [Sessions -> Seq(Asked)] /\ (cws => sess \in Sessions)
    BY WireAssumption DEF KindInv, TypeOK, ChannelsAgree, Sessions
<1> QED
    BY <1>1 DEF Send, Says

\* Nothing but what the exchange of id may say at any time.
LEMMA OneSpeaks ==
    ASSUME KindInv, NEW m \in Asked', ~Begins(m), Send(<<m>>)
    PROVE  Speaks
<1>1. <<m>> \in Seq(Asked') /\ Plain(<<m>>)
    BY DEF Plain
<1> QED
    BY <1>1, SendSays DEF Speaks

LEMMA SilenceSpeaks ==
    ASSUME UNCHANGED up, queue' \in {queue, <<>>}
    PROVE  Speaks
<1>1. <<>> \in Seq(Asked') /\ Plain(<<>>)
    BY DEF Plain
<1> QED
    BY <1>1 DEF Speaks, Says

LEMMA FirstSpeaks ==
    ASSUME KindInv, ClientAgrees, NEW k \in Kind \ {"none"}, TakeId(k), NEW m \in Asked',
           m.id = nextId, Send(<<m>>), UNCHANGED <<sess, sws, cws, isClosed, cstate, down>>
    PROVE  Speaks /\ Hears /\ KeepsSession
<1>1. /\ up \in [Sessions -> Seq(Asked)] /\ sess \in Sessions /\ nextId \in Ids
      /\ home \in [Ids -> 0 .. MaxSessions] /\ kind[nextId] = "none"
    <2>1. /\ up \in [Sessions -> Seq(Asked)] /\ sess \in 0 .. MaxSessions /\ (cws => sess # 0)
          /\ nextId \in 1 .. MaxCalls + 1 /\ home \in [Ids -> 0 .. MaxSessions]
        BY DEF KindInv, TypeOK, ChannelsAgree
    <2>2. sess \in Sessions /\ nextId \in Ids
        BY <2>1, WireAssumption DEF Sessions, Ids, TakeId
    <2> QED
        BY <2>1, <2>2 DEF ClientAgrees
<1>2. home'[nextId] = sess /\ \A id \in Ids : kind[id] # "none" => home'[id] = home[id]
    BY <1>1 DEF TakeId
<1>3. SaysFirst(m)
    <2>1. up[sess] \o <<m>> = Append(up[sess], m)
        BY <1>1, AppendIsConcat
    <2> QED
        BY <1>1, <1>2, <2>1 DEF SaysFirst, Send, TakeId
<1> QED
    BY <1>2, <1>3 DEF Speaks, Hears, KeepsSession

\* Taking a message is hearing it.
LEMMA TakeHears ==
    ASSUME KindInv, NEW m, Take(m)
    PROVE  Hears
<1>1. down \in [Sessions -> Seq(Answered)]
    BY DEF KindInv, ChannelsAgree
<1> QED
    BY <1>1 DEF Take, Hears

LEMMA ClientMoves ==
    ASSUME KindInv, RequestNext
    PROVE  Speaks /\ Hears /\ KeepsSession
<1>t. ClientTypes /\ ChannelsAgree /\ ClientAgrees /\ WaitingIsTimed
    BY TypesOfParts
<1>one. ASSUME NEW id \in Ids
        PROVE  /\ kind[id] = "http" => Msg("HTTP_BODY_END", id) \in Asked
               /\ kind[id] = "udp" => Msg("UDP_CLOSE", id) \in Asked
               /\ kind[id] # "none" => Farewell(kind[id], id) \in Asked
               /\ kind[id] # "none" => ~Begins(Farewell(kind[id], id))
               /\ ~Begins(Msg("HTTP_BODY_END", id)) /\ ~Begins(Msg("UDP_CLOSE", id))
    BY <1>t, ClientMakes DEF ClientTypes, RequestTypeOK, Kind, Begins, Farewell, Msg
<1>kind. UNCHANGED kind => Asked' = Asked
    BY KindsKept
<1>keep. UNCHANGED <<sess, sws, cws, isClosed, cstate, home>> => KeepsSession
    BY DEF KeepsSession
<1>hears. UNCHANGED down => Hears
    BY DEF Hears
<1>new. ASSUME NEW k \in Kind \ {"none"}, TakeId(k), NEW m, m.id = nextId, m \in RequestMessage,
               IsChunk(m, m.id) => m.chunk \in 1 .. MaxChunks,
               \/ k = "dns" /\ m.type = "DNS_QUERY"
               \/ k = "http" /\ m.type = "HTTP_REQUEST"
               \/ k = "udp" /\ m.type = "UDP_BIND",
               Send(<<m>>), UNCHANGED <<sess, sws, cws, isClosed, cstate, down>>
        PROVE  Speaks /\ Hears /\ KeepsSession
    <2>1. nextId \in Ids /\ kind'[nextId] = k
        BY <1>t, <1>new, WireAssumption DEF TakeId, ClientTypes, RequestTypeOK, Ids
    <2>2. m \in Asked'
        BY <1>new, <2>1 DEF Asked, Counted
    <2> QED
        BY <1>t, <1>new, <2>2, FirstSpeaks
<1>1. CASE QueryDNS
    <2>1. Msg("DNS_QUERY", nextId) \in RequestMessage
        BY <1>t, <1>1, WireAssumption
        DEF QueryDNS, Await, TakeId, ClientTypes, Ids, RequestMessage, RequestType, Msg
    <2> QED
        BY <1>1, <1>new, <2>1 DEF QueryDNS, Await, Msg, IsChunk, Kind
<1>2. CASE FetchHTTP
    <2>1. PICK announced \in BOOLEAN :
              /\ Await("http")
              /\ Send(<<Chunk("HTTP_REQUEST", nextId, Flag(announced))>>)
        BY <1>2 DEF FetchHTTP
    <2>2. UNCHANGED <<sess, sws, cws, isClosed, cstate, down>>
        BY <1>2 DEF FetchHTTP
    <2>3. Chunk("HTTP_REQUEST", nextId, Flag(announced)) \in RequestMessage
        BY <1>t, <2>1, WireAssumption
        DEF Await, TakeId, ClientTypes, Ids, RequestMessage, RequestType, Chunk, Flag
    <2> QED
        BY <1>new, <2>1, <2>2, <2>3 DEF Await, Chunk, IsChunk, Kind
<1>3. CASE UdpBind
    <2>1. Msg("UDP_BIND", nextId) \in RequestMessage
        BY <1>t, <1>3, WireAssumption
        DEF UdpBind, TakeId, ClientTypes, Ids, RequestMessage, RequestType, Msg
    <2> QED
        BY <1>3, <1>new, <2>1 DEF UdpBind, Msg, IsChunk, Kind
<1>4. ASSUME NEW id \in Ids, SendBodyChunk(id) PROVE Speaks /\ Hears /\ KeepsSession
    <2>1. sent[id] + 1 \in 1 .. MaxChunks /\ UNCHANGED kind
        BY <1>t, <1>4, WireAssumption DEF SendBodyChunk, ClientTypes, requestVars
    <2>2. Chunk("HTTP_BODY_CHUNK", id, sent[id] + 1) \in Asked'
        BY <1>4, <1>kind, <2>1, ClientMakes DEF SendBodyChunk
    <2> QED
        BY <1>4, <1>hears, <1>keep, <2>2, OneSpeaks DEF SendBodyChunk, Begins, Chunk
<1>5. ASSUME NEW id \in Ids, SendBodyEnd(id) PROVE Speaks /\ Hears /\ KeepsSession
    BY <1>5, <1>hears, <1>keep, <1>kind, <1>one, OneSpeaks DEF SendBodyEnd
<1>6. ASSUME NEW id \in Ids, GiveUp(id) PROVE Speaks /\ Hears /\ KeepsSession
    <2>1. kind[id] # "none" /\ UNCHANGED kind
        BY <1>t, <1>6 DEF GiveUp, WaitingIsTimed, ClientAgrees, requestVars
    <2> QED
        BY <1>6, <1>hears, <1>keep, <1>kind, <1>one, <2>1, OneSpeaks DEF GiveUp
<1>7. ASSUME NEW id \in Ids, CancelBody(id) PROVE Speaks /\ Hears /\ KeepsSession
    BY <1>7, <1>hears, <1>keep, SilenceSpeaks DEF CancelBody, wireVars
<1>8. CASE ReapRequests
    <2>1. PICK oldest \in Ids :
              \E l \in Listing({id \in pending : id <= oldest}) :
                  Send([k \in DOMAIN l |-> Farewell(kind[l[k]], l[k])])
        BY <1>8 DEF ReapRequests
    <2> DEFINE stale == {id \in pending : id <= oldest}
    <2>2. PICK l \in Listing(stale) : Send([k \in DOMAIN l |-> Farewell(kind[l[k]], l[k])])
        BY <2>1
    <2>3. stale \subseteq Ids /\ Cardinality(stale) \in Nat
        BY <1>t, FewerPending
    <2>4. l \in [1 .. Cardinality(stale) -> stale]
        BY <2>2 DEF Listing
    <2>5. \A k \in DOMAIN l : /\ Farewell(kind[l[k]], l[k]) \in Asked
                              /\ ~Begins(Farewell(kind[l[k]], l[k]))
        <3>1. \A id \in stale : id \in Ids /\ kind[id] # "none"
            BY <1>t, <2>3 DEF ClientAgrees
        <3> QED
            BY <1>one, <2>4, <3>1
    <2> DEFINE ms == [k \in DOMAIN l |-> Farewell(kind[l[k]], l[k])]
               n == Cardinality(stale)
    <2>6. ms \in [1 .. n -> Asked] /\ Plain(ms)
        BY <2>4, <2>5 DEF Plain
    <2>7. ms \in Seq(Asked') /\ Plain(ms)
        <3>1. UNCHANGED kind
            BY <1>8 DEF ReapRequests, requestVars
        <3> HIDE DEF ms, n
        <3>2. n \in Nat /\ Asked' = Asked
            BY <1>kind, <2>3, <3>1 DEF n
        <3> QED
            BY <2>6, <3>2, SeqDef
    <2>8. Speaks
        BY <2>2, <2>7, SendSays DEF Speaks
    <2> QED
        BY <1>8, <1>hears, <1>keep, <2>8 DEF ReapRequests
<1>9. ASSUME NEW id \in Ids, UdpSend(id) PROVE Speaks /\ Hears /\ KeepsSession
    <2>1. sent[id] + 1 \in 1 .. MaxChunks /\ UNCHANGED kind /\ kind[id] = "udp"
        BY <1>t, <1>9, WireAssumption DEF UdpSend, ClientTypes, ClientAgrees, requestVars
    <2>2. Chunk("UDP_DATA", id, sent[id] + 1) \in Asked'
        BY <1>kind, <2>1, ClientMakes
    <2> QED
        BY <1>9, <1>hears, <1>keep, <2>2, OneSpeaks DEF UdpSend, Begins, Chunk
<1>10. ASSUME NEW id \in Ids, UdpDrop(id) PROVE Speaks /\ Hears /\ KeepsSession
    <2>1. kind[id] = "udp"
        BY <1>t, <1>10 DEF UdpDrop, ClientAgrees
    <2> QED
        BY <1>10, <1>hears, <1>keep, <1>kind, <1>one, <2>1, OneSpeaks DEF UdpDrop
<1>11. CASE DnsResponse
    BY <1>11, <1>keep, TakeHears, SilenceSpeaks DEF DnsResponse
<1>12. CASE HttpResponse
    BY <1>12, <1>keep, TakeHears, SilenceSpeaks DEF HttpResponse
<1>13. CASE BodyChunk
    BY <1>13, <1>keep, TakeHears, SilenceSpeaks DEF BodyChunk
<1>14. CASE BodyEnd
    BY <1>14, <1>keep, TakeHears, SilenceSpeaks DEF BodyEnd
<1>15. CASE Stray
    <2>1. PICK m : /\ Take(m)
                   /\ IF m.type \in {"HTTP_BODY_CHUNK", "UDP_DATA"}
                      THEN Send(<<Farewell(kind[m.id], m.id)>>)
                      ELSE UNCHANGED <<queue, up>>
        BY <1>15 DEF Stray
    <2>2. UNCHANGED kind
        BY <1>15 DEF Stray, requestVars
    <2>3. m.id \in Ids /\ kind[m.id] # "none"
        BY <2>1, <2>2, TakeAgrees, MessagesAgree
    <2>4. Speaks
        BY <1>kind, <1>one, <2>1, <2>2, <2>3, OneSpeaks, SilenceSpeaks
    <2>5. Hears
        BY <2>1, TakeHears
    <2>6. KeepsSession
        BY <1>15, <1>keep DEF Stray
    <2> QED
        BY <2>4, <2>5, <2>6
<1>16. CASE UdpHears
    BY <1>16, <1>keep, TakeHears, SilenceSpeaks DEF UdpHears
<1>17. CASE StreamError
    BY <1>17, <1>keep, TakeHears, SilenceSpeaks DEF StreamError
<1>18. CASE ClientLinkClosed \/ HeartbeatTimeout
    <2>1. UNCHANGED <<up, sess, sws, home, isClosed>>
        BY <1>18 DEF ClientLinkClosed, HeartbeatTimeout
    <2>2. queue' \in {queue, <<>>} /\ (cstate' = cstate \/ cstate' = "disconnected")
        BY <1>18 DEF ClientLinkClosed, HeartbeatTimeout, HandleDisconnect
    <2>3. Hears
        BY <1>t, <1>18 DEF ClientLinkClosed, HeartbeatTimeout, Hears, ChannelsAgree
    <2>4. cstate' = "disconnected"
        BY <1>t, <1>18 DEF ClientLinkClosed, HeartbeatTimeout, HandleDisconnect, ClientTypes
    <2>5. cws' => cws
        BY <1>18 DEF ClientLinkClosed, HeartbeatTimeout
    <2> QED
        BY <2>1, <2>2, <2>3, <2>4, <2>5, SilenceSpeaks DEF KeepsSession
<1>19. CASE CloseClient
    <2>1. Hears
        BY <1>t, <1>19 DEF CloseClient, Hears, ChannelsAgree
    <2> QED
        BY <1>19, <2>1, SilenceSpeaks DEF CloseClient, KeepsSession
<1> QED
    BY <1>1, <1>2, <1>3, <1>4, <1>5, <1>6, <1>7, <1>8, <1>9, <1>10, <1>11, <1>12, <1>13,
       <1>14, <1>15, <1>16, <1>17, <1>18, <1>19 DEF RequestNext, UDPDriver

-----------------------------------------------------------------------------
(* An exchange lives in one session                                        *)

\* What comes into the channels and the queue when the client speaks.
LEMMA SpeaksElements ==
    ASSUME KindInv, Speaks
    PROVE  /\ \A s \in Sessions : \A k \in DOMAIN up'[s] :
                 \/ \E j \in DOMAIN up[s] : up'[s][k] = up[s][j]
                 \/ ~Begins(up'[s][k])
                 \/ kind[up'[s][k].id] = "none" /\ home'[up'[s][k].id] = s
           /\ \A k \in DOMAIN queue' :
                 \/ \E j \in DOMAIN queue : queue'[k] = queue[j]
                 \/ ~Begins(queue'[k])
           /\ \A s \in Sessions, id \in Ids :
                 BeginsWith(up[s], id) => BeginsWith(up'[s], id)
<1>t. /\ up \in [Sessions -> Seq(RequestMessage)] /\ queue \in Seq(RequestMessage)
      /\ \A s \in Sessions : \A k \in DOMAIN up[s] : kind[up[s][k].id] # "none"
    <2>1. ASSUME NEW s \in Sessions, NEW k \in DOMAIN up[s] PROVE up[s][k] \in Asked
        BY <2>1 DEF KindInv, ChannelsAgree
    <2> QED
        BY <2>1, MessagesAgree DEF KindInv, TypeOK
<1>m. Asked' \subseteq RequestMessage
    BY DEF Asked, Counted
<1>1. ASSUME NEW ms \in Seq(Asked'), Plain(ms), Says(ms)
      PROVE  /\ \A s \in Sessions : \A k \in DOMAIN up'[s] :
                 \/ \E j \in DOMAIN up[s] : up'[s][k] = up[s][j]
                 \/ ~Begins(up'[s][k])
             /\ \A k \in DOMAIN queue' :
                   \/ \E j \in DOMAIN queue : queue'[k] = queue[j]
                   \/ ~Begins(queue'[k])
             /\ \A s \in Sessions, id \in Ids :
                   BeginsWith(up[s], id) => BeginsWith(up'[s], id)
    <2>1. ms \in Seq(RequestMessage)
        BY <1>m, ChannelsGrow
    <2>2. ASSUME NEW ch \in Seq(RequestMessage), NEW k \in DOMAIN (ch \o ms)
          PROVE  \/ \E j \in DOMAIN ch : (ch \o ms)[k] = ch[j]
                 \/ ~Begins((ch \o ms)[k])
        BY <1>1, <2>1, ConcatElements DEF Plain
    <2>3. ASSUME NEW s \in Sessions, NEW k \in DOMAIN up'[s]
          PROVE  \/ \E j \in DOMAIN up[s] : up'[s][k] = up[s][j]
                 \/ ~Begins(up'[s][k])
        <3>1. CASE up'[s] = up[s]
            BY <2>3, <3>1
        <3>2. CASE up'[s] = up[s] \o ms
            BY <1>t, <2>2, <2>3, <3>2
        <3> QED
            BY <1>1, <3>1, <3>2 DEF Says
    <2>4. ASSUME NEW k \in DOMAIN queue'
          PROVE  \/ \E j \in DOMAIN queue : queue'[k] = queue[j]
                 \/ ~Begins(queue'[k])
        <3>1. CASE queue' = queue \/ queue' = <<>>
            BY <2>4, <3>1
        <3>2. CASE queue' = FirstOf(queue \o ms, MaxQueue)
            <4>1. queue \o ms \in Seq(RequestMessage)
                BY <1>t, <2>1, ConcatElements
            <4>2. k \in DOMAIN (queue \o ms) /\ queue'[k] = (queue \o ms)[k]
                BY <2>4, <3>2, <4>1, FirstOfIsBounded, WireAssumption
            <4> QED
                BY <1>t, <2>2, <4>2
        <3> QED
            BY <1>1, <3>1, <3>2 DEF Says
    <2>5. ASSUME NEW s \in Sessions, NEW id \in Ids, BeginsWith(up[s], id)
          PROVE  BeginsWith(up'[s], id)
        BY <1>t, <1>1, <2>1, <2>5, BeginsWithMore DEF Says
    <2> QED
        BY <2>3, <2>4, <2>5
<1>2. ASSUME NEW m \in Asked', SaysFirst(m)
      PROVE  /\ \A s \in Sessions : \A k \in DOMAIN up'[s] :
                 \/ \E j \in DOMAIN up[s] : up'[s][k] = up[s][j]
                 \/ kind[up'[s][k].id] = "none" /\ home'[up'[s][k].id] = s
             /\ queue' = queue
             /\ \A s \in Sessions, id \in Ids :
                   BeginsWith(up[s], id) => BeginsWith(up'[s], id)
    <2>1. m \in RequestMessage
        BY <1>m
    <2>2. ASSUME NEW s \in Sessions, NEW k \in DOMAIN up'[s]
          PROVE  \/ \E j \in DOMAIN up[s] : up'[s][k] = up[s][j]
                 \/ kind[up'[s][k].id] = "none" /\ home'[up'[s][k].id] = s
        <3>1. CASE up'[s] = up[s]
            BY <2>2, <3>1
        <3>2. CASE s = sess /\ up'[s] = Append(up[s], m)
            BY <1>t, <1>2, <2>1, <2>2, <3>2, AppendElements DEF SaysFirst
        <3> QED
            BY <1>2, <3>1, <3>2 DEF SaysFirst
    <2>3. ASSUME NEW s \in Sessions, NEW id \in Ids, BeginsWith(up[s], id)
          PROVE  BeginsWith(up'[s], id)
        <3>1. \A k \in DOMAIN up[s] : up[s][k].id # m.id
            BY <1>t, <1>2 DEF SaysFirst
        <3> QED
            <4>1. BeginsWith(Append(up[s], m), id)
                BY <1>t, <2>1, <2>3, <3>1, BeginsWithNew
            <4> QED
                BY <1>2, <2>3, <4>1 DEF SaysFirst
    <2> QED
        BY <1>2, <2>2, <2>3 DEF SaysFirst
<1>3. CASE \E ms \in Seq(Asked') : Plain(ms) /\ Says(ms)
    BY <1>1, <1>3
<1>4. CASE \E m \in Asked' : SaysFirst(m)
    BY <1>2, <1>4
<1> QED
    BY <1>3, <1>4 DEF Speaks

\* Nothing is said to the client by hearing.
LEMMA HearsElements ==
    ASSUME KindInv, Hears
    PROVE  \A s \in Sessions : \A k \in DOMAIN down'[s] :
               \E j \in DOMAIN down[s] : down'[s][k] = down[s][j]
<1>1. down \in [Sessions -> Seq(RequestMessage)]
    BY DEF KindInv, TypeOK
<1>2. ASSUME NEW s \in Sessions
      PROVE  \A k \in DOMAIN down'[s] : \E j \in DOMAIN down[s] : down'[s][k] = down[s][j]
    <2>1. CASE down'[s] = down[s] \/ down'[s] = <<>>
        BY <2>1
    <2>2. CASE down[s] # <<>> /\ down'[s] = Tail(down[s])
        <3>1. \A k \in DOMAIN Tail(down[s]) :
                  k + 1 \in DOMAIN down[s] /\ Tail(down[s])[k] = down[s][k + 1]
            BY <1>1, <2>2, TailElements
        <3> QED
            BY <2>2, <3>1
    <2> QED
        BY <2>1, <2>2 DEF Hears
<1> QED
    BY <1>2

\* What the client does leaves every exchange where it lives.
LEMMA ClientStaysAtHome ==
    ASSUME KindInv, HomeInv, Speaks, Hears, KeepsSession, UNCHANGED serverVars
    PROVE  HomeInv'
<1>t. ServerAgrees
    BY DEF KindInv
<1>v. UNCHANGED <<tstate, queries, lookups, requests, aborted, bodies, stage, produced,
                  uploaded, finished, sockets, loop, datagrams>>
    BY DEF serverVars, dnsVars, httpVars, udpVars
<1>h. \A id \in Ids : kind[id] # "none" => home'[id] = home[id]
    BY DEF KeepsSession
<1>d. \A s \in Sessions : \A k \in DOMAIN down[s] : down[s][k].id \in Ids /\ kind[down[s][k].id] # "none"
    <2>1. ASSUME NEW s \in Sessions, NEW k \in DOMAIN down[s] PROVE down[s][k] \in Answered
        BY <2>1 DEF KindInv, ChannelsAgree
    <2> QED
        BY <2>1, MessagesAgree
<1>u. \A s \in Sessions : \A k \in DOMAIN up[s] : up[s][k].id \in Ids /\ kind[up[s][k].id] # "none"
    <2>1. ASSUME NEW s \in Sessions, NEW k \in DOMAIN up[s] PROVE up[s][k] \in Asked
        BY <2>1 DEF KindInv, ChannelsAgree
    <2> QED
        BY <2>1, MessagesAgree
<1>e. /\ \A s \in Sessions : \A k \in DOMAIN up'[s] :
            \/ \E j \in DOMAIN up[s] : up'[s][k] = up[s][j]
            \/ ~Begins(up'[s][k])
            \/ kind[up'[s][k].id] = "none" /\ home'[up'[s][k].id] = s
      /\ \A k \in DOMAIN queue' :
            \/ \E j \in DOMAIN queue : queue'[k] = queue[j]
            \/ ~Begins(queue'[k])
      /\ \A s \in Sessions, id \in Ids : BeginsWith(up[s], id) => BeginsWith(up'[s], id)
    BY SpeaksElements
<1>i. \A s \in Sessions : \A k \in DOMAIN up'[s] : up'[s][k].id \in Ids
    <2>1. ASSUME NEW s \in Sessions PROVE up'[s] \in Seq(RequestMessage)
        <3>1. up[s] \in Seq(RequestMessage) /\ Asked' \subseteq RequestMessage
            BY DEF KindInv, TypeOK, Asked, Counted
        <3>2. \A ms \in Seq(Asked') : ms \in Seq(RequestMessage)
            BY <3>1, ChannelsGrow
        <3> QED
            <4>1. ASSUME NEW ms \in Seq(Asked'), Says(ms)
                  PROVE  up'[s] \in Seq(RequestMessage)
                <5>1. up[s] \o ms \in Seq(RequestMessage)
                    BY <3>1, <3>2, ConcatElements
                <5> QED
                    BY <3>1, <4>1, <5>1 DEF Says
            <4>2. ASSUME NEW m \in Asked', SaysFirst(m)
                  PROVE  up'[s] \in Seq(RequestMessage)
                <5>1. Append(up[s], m) \in Seq(RequestMessage)
                    BY <3>1, AppendElements
                <5> QED
                    BY <3>1, <4>2, <5>1 DEF SaysFirst
            <4> QED
                BY <4>1, <4>2 DEF Speaks
    <2> QED
        BY <2>1, ChannelElements
<1>1. OpenEnds'
    BY <1>v DEF HomeInv, OpenEnds, KeepsSession
<1>2. WorkIsAtHome'
    BY <1>t, <1>v, <1>h DEF HomeInv, WorkIsAtHome, ServerAgrees
<1>3. AnswersAreAtHome'
    BY <1>d, <1>h, HearsElements DEF HomeInv, AnswersAreAtHome
<1>4. BeginningsAreAtHome'
    BY <1>u, <1>h, <1>e DEF HomeInv, BeginningsAreAtHome
<1>5. BeginningsAreFresh'
    <2>1. ASSUME NEW s \in Sessions, NEW k \in DOMAIN up'[s], Begins(up'[s][k])
          PROVE  stage[s][up'[s][k].id] = "none" /\ loop[s][up'[s][k].id] = "none"
        <3>1. CASE \E j \in DOMAIN up[s] : up'[s][k] = up[s][j]
            BY <2>1, <3>1 DEF HomeInv, BeginningsAreFresh
        <3>2. CASE kind[up'[s][k].id] = "none"
            BY <1>t, <1>i, <3>2 DEF ServerAgrees
        <3> QED
            BY <1>e, <2>1, <3>1, <3>2
    <2>2. \A s \in Sessions, id \in Ids : BeginsWith(up'[s], id)
        BY <1>e DEF HomeInv, BeginningsAreFresh
    <2> QED
        BY <1>v, <2>1, <2>2 DEF BeginningsAreFresh
<1>6. MapsAreClean'
    BY <1>v DEF HomeInv, MapsAreClean
<1> QED
    BY <1>1, <1>2, <1>3, <1>4, <1>5, <1>6 DEF HomeInv

\* What a step of the server leaves of the way to it.
HearsUp ==
    \A s \in Sessions :
        \/ up'[s] = up[s] \/ up'[s] = <<>>
        \/ up[s] # <<>> /\ up'[s] = Tail(up[s])

\* The server's steps: it works where it has been asked to.
LEMMA ServerStaysAtHome ==
    ASSUME KindInv, HomeInv, ServerNext, UNCHANGED <<clientVars, requestVars>>
    PROVE  HomeInv'
<1>t. ServerTypes /\ ServerAgrees /\ ClientTypes
    BY TypesOfParts
<1>c. up \in [Sessions -> Seq(RequestMessage)] /\ down \in [Sessions -> Seq(RequestMessage)]
    BY DEF KindInv, TypeOK
<1>v. UNCHANGED <<home, kind, queue, isClosed, cstate>>
    BY DEF clientVars, requestVars
<1> DEFINE Links == /\ OpenEnds'
                    /\ \A z \in Sessions : tstate'[z] = "closed" => tstate[z] = "closed"
           Said == AnswersAreAtHome'
           Heard(z, i) == \A k \in DOMAIN up'[z] : ~(Begins(up'[z][k]) /\ up'[z][k].id = i)
           Dns == \A z \in Sessions, i \in Ids :
                     /\ i \in lookups'[z] \cup queries'[z] => home[i] = z
                     /\ i \in queries'[z] => i \in lookups'[z]
                     /\ queries'[z] \subseteq Ids
           Http == \A z \in Sessions, i \in Ids :
                     /\ stage'[z][i] # "none" => home[i] = z
                     /\ stage'[z][i] = "none" =>
                           i \notin aborted'[z] \cup finished'[z] /\ uploaded'[z][i] = <<>>
                     /\ stage'[z][i] \in {"none", "fetching"} => produced'[z][i] = 0
                     /\ i \in requests'[z] <=>
                           stage'[z][i] \in {"fetching", "streaming"} /\ i \notin aborted'[z]
                     /\ i \in bodies'[z] => i \in requests'[z] /\ i \notin finished'[z]
                     /\ stage'[z][i] = "none" \/ stage[z][i] # "none" \/ Heard(z, i)
                     /\ requests'[z] \subseteq Ids /\ bodies'[z] \subseteq Ids
           HttpOver == \A z \in Sessions, i \in Ids :
                          tstate'[z] = "closed" => i \notin requests'[z]
           Udp == \A z \in Sessions, i \in Ids :
                     /\ loop'[z][i] # "none" => home[i] = z
                     /\ loop'[z][i] = "none" => datagrams'[z][i] = 0
                     /\ i \in sockets'[z] => loop'[z][i] \in {"receiving", "holding"}
                     /\ loop'[z][i] = "none" \/ loop[z][i] # "none" \/ Heard(z, i)
                     /\ sockets'[z] \subseteq Ids
           UdpOver == \A z \in Sessions, i \in Ids :
                         tstate'[z] = "closed" => i \notin sockets'[z]
<1>up. ASSUME HearsUp
       PROVE  /\ \A z \in Sessions : \A k \in DOMAIN up'[z] :
                    \E j \in DOMAIN up[z] : up'[z][k] = up[z][j]
              /\ \A z \in Sessions, i \in Ids : BeginsWith(up[z], i) => BeginsWith(up'[z], i)
    <2>1. ASSUME NEW z \in Sessions
          PROVE  /\ \A k \in DOMAIN up'[z] : \E j \in DOMAIN up[z] : up'[z][k] = up[z][j]
                 /\ \A i \in Ids : BeginsWith(up[z], i) => BeginsWith(up'[z], i)
        <3>1. CASE up'[z] = up[z]
            BY <3>1
        <3>2. CASE up'[z] = <<>>
            BY <3>2 DEF BeginsWith
        <3>3. CASE up[z] # <<>> /\ up'[z] = Tail(up[z])
            BY <1>c, <3>3, TailElements, BeginsWithTail
        <3> QED
            BY <1>up, <3>1, <3>2, <3>3 DEF HearsUp
    <2> QED
        BY <2>1
<1>all. ASSUME OpenEnds', HearsUp, Said, Dns, Http, HttpOver, Udp, UdpOver PROVE HomeInv'
    <2>1. WorkIsAtHome'
        BY <1>v, <1>all DEF WorkIsAtHome
    <2>2. BeginningsAreAtHome'
        BY <1>v, <1>up, <1>all DEF HomeInv, BeginningsAreAtHome
    <2>i. ASSUME NEW s \in Sessions, NEW k \in DOMAIN up'[s] PROVE up'[s][k].id \in Ids
        <3>1. PICK j \in DOMAIN up[s] : up'[s][k] = up[s][j]
            BY <1>up, <1>all
        <3> QED
            BY <1>c, <3>1, ChannelElements
    <2>3. BeginningsAreFresh'
        <3>1. ASSUME NEW s \in Sessions, NEW k \in DOMAIN up'[s], Begins(up'[s][k])
              PROVE  stage'[s][up'[s][k].id] = "none" /\ loop'[s][up'[s][k].id] = "none"
            <4>1. ~Heard(s, up'[s][k].id) /\ up'[s][k].id \in Ids
                BY <2>i, <3>1
            <4>2. stage[s][up'[s][k].id] = "none" /\ loop[s][up'[s][k].id] = "none"
                BY <1>up, <1>all, <3>1 DEF HomeInv, BeginningsAreFresh
            <4> HIDE DEF Heard
            <4> QED
                BY <1>all, <4>1, <4>2
        <3>2. \A s \in Sessions, id \in Ids : BeginsWith(up'[s], id)
            BY <1>up, <1>all DEF HomeInv, BeginningsAreFresh
        <3> QED
            BY <3>1, <3>2 DEF BeginningsAreFresh
    <2>4. MapsAreClean'
        <3> HIDE DEF Heard
        <3>1. ASSUME NEW z \in Sessions
              PROVE  /\ requests'[z] \subseteq Ids /\ bodies'[z] \subseteq Ids
                     /\ queries'[z] \subseteq Ids /\ sockets'[z] \subseteq Ids
            <4>1. 1 \in Ids
                BY WireAssumption DEF Ids
            <4> QED
                BY <1>all, <4>1
        <3>2. ASSUME NEW z \in Sessions
              PROVE  /\ requests'[z] = {i \in Ids : stage'[z][i] \in {"fetching", "streaming"}}
                                       \ aborted'[z]
                     /\ bodies'[z] \subseteq requests'[z] /\ bodies'[z] \cap finished'[z] = {}
            BY <1>all, <3>1
        <3>3. ASSUME NEW z \in Sessions
              PROVE  /\ queries'[z] \subseteq lookups'[z]
                     /\ \A i \in sockets'[z] : loop'[z][i] \in {"receiving", "holding"}
            BY <1>all, <3>1
        <3>4. ASSUME NEW z \in Sessions, tstate'[z] = "closed"
              PROVE  requests'[z] = {} /\ sockets'[z] = {}
            BY <1>all, <3>1, <3>4
        <3> QED
            BY <3>2, <3>3, <3>4 DEF MapsAreClean
    <2> QED
        BY <1>all, <2>1, <2>2, <2>3, <2>4 DEF HomeInv
<1>dns. UNCHANGED dnsVars => Dns
    BY <1>t DEF dnsVars, HomeInv, WorkIsAtHome, MapsAreClean, ServerTypes, DnsTypeOK
<1>http. UNCHANGED httpVars => Http
    BY <1>t DEF httpVars, HomeInv, WorkIsAtHome, MapsAreClean, ServerTypes, HttpTypeOK
<1>udp. UNCHANGED udpVars => Udp
    BY <1>t DEF udpVars, HomeInv, WorkIsAtHome, MapsAreClean, ServerTypes, UdpTypeOK
<1>was. ASSUME NEW z \in Sessions, NEW i \in Ids
        PROVE  /\ stage[z][i] # "none" => home[i] = z
               /\ stage[z][i] = "none" => i \notin aborted[z] \cup finished[z] /\ uploaded[z][i] = <<>>
               /\ stage[z][i] \in {"none", "fetching"} => produced[z][i] = 0
               /\ i \in requests[z] <=> stage[z][i] \in {"fetching", "streaming"} /\ i \notin aborted[z]
               /\ i \in bodies[z] => i \in requests[z] /\ i \notin finished[z]
               /\ requests[z] \subseteq Ids /\ bodies[z] \subseteq Ids
    BY <1>t DEF HomeInv, WorkIsAtHome, MapsAreClean, ServerTypes, HttpTypeOK
<1>wasUdp. ASSUME NEW z \in Sessions, NEW i \in Ids
           PROVE  /\ loop[z][i] # "none" => home[i] = z
                  /\ loop[z][i] = "none" => datagrams[z][i] = 0
                  /\ i \in sockets[z] => loop[z][i] \in {"receiving", "holding"}
                  /\ sockets[z] \subseteq Ids
    BY <1>t DEF HomeInv, WorkIsAtHome, MapsAreClean, ServerTypes, UdpTypeOK
<1>httpOver. ASSUME Links, UNCHANGED requests PROVE HttpOver
    BY <1>httpOver DEF HomeInv, MapsAreClean
<1>udpOver. ASSUME Links, UNCHANGED sockets PROVE UdpOver
    BY <1>udpOver DEF HomeInv, MapsAreClean
<1>down. UNCHANGED down => Said
    BY <1>v DEF HomeInv, AnswersAreAtHome
<1>links. UNCHANGED <<cws, sws, tstate>> => Links
    BY <1>v DEF HomeInv, OpenEnds
<1>still. UNCHANGED up => HearsUp
    BY DEF HearsUp
<1>reply. ASSUME NEW s \in Sessions, NEW m \in RequestMessage, home[m.id] = s, Reply(s, m) PROVE Said
    <2>1. CASE down' = down
        BY <1>down, <2>1
    <2>2. CASE down' = [down EXCEPT ![s] = Append(@, m)]
        <3>1. ASSUME NEW z \in Sessions, NEW k \in DOMAIN down'[z] PROVE home[down'[z][k].id] = z
            BY <1>c, <1>reply, <2>2, <3>1, AppendElements DEF HomeInv, AnswersAreAtHome
        <3> QED
            BY <1>v, <3>1 DEF AnswersAreAtHome
    <2> QED
        BY <1>reply, <2>1, <2>2 DEF Reply
<1>msg. ASSUME NEW id \in Ids
        PROVE  /\ \A t \in RequestType : Msg(t, id) \in RequestMessage /\ Msg(t, id).id = id
               /\ \A t \in RequestType, n \in 0 .. MaxChunks + 1 :
                      Chunk(t, id, n) \in RequestMessage /\ Chunk(t, id, n).id = id
    BY WireAssumption DEF Msg, Chunk, RequestMessage
<1>1. PICK s \in Sessions :
          \/ Dispatch(s)
          \/ ServerLinkClosed(s) \/ ServerHeartbeatTimeout(s) \/ CloseTransport(s)
          \/ \E id \in Ids :
                \/ DnsStep(s, id) /\ UNCHANGED <<httpVars, udpVars>>
                \/ HttpStep(s, id) /\ UNCHANGED <<dnsVars, udpVars>>
                \/ UdpStep(s, id) /\ UNCHANGED <<dnsVars, httpVars>>
    BY DEF ServerNext
<1> HIDE DEF Links, Said, Heard, Dns, Http, HttpOver, Udp, UdpOver
<1>open. Links => OpenEnds'
    BY DEF Links
\* Messages
<1>2. CASE Dispatch(s)
    <2>1. PICK m :
              /\ Receive(s, m)
              /\ \/ HandleQuery(s, m) /\ UNCHANGED <<httpVars, udpVars>>
                 \/ HttpReceive(s, m) /\ UNCHANGED <<dnsVars, udpVars>>
                 \/ UdpReceive(s, m) /\ UNCHANGED <<dnsVars, httpVars>>
                 \/ m.type = "ERROR" /\ UNCHANGED <<dnsVars, httpVars, udpVars, down>>
              /\ UNCHANGED <<sess, cws, sws, tstate>>
        BY <1>2 DEF Dispatch
    <2>2. Links
        BY <1>links, <2>1
    <2>3. m.id \in Ids /\ up[s] # <<>> /\ m = up[s][1] /\ 1 \in DOMAIN up[s] /\ up'[s] = Tail(up[s])
          /\ HearsUp
        <3>1. up[s] # <<>> /\ m = Head(up[s]) /\ up' = [up EXCEPT ![s] = Tail(@)]
            BY <2>1 DEF Receive
        <3>2. m = up[s][1] /\ 1 \in DOMAIN up[s] /\ m.id \in Ids
            BY <1>c, <3>1, TailElements, ChannelElements
        <3> QED
            BY <1>c, <3>1, <3>2 DEF HearsUp
    <2>4. tstate[s] # "closed" /\ tstate'[s] # "closed"
        BY <2>1 DEF Receive, HomeInv, OpenEnds
    <2>5. Begins(m) => /\ home[m.id] = s /\ stage[s][m.id] = "none" /\ loop[s][m.id] = "none"
                       /\ Heard(s, m.id)
        BY <1>c, <2>3, BeginsWithTail
        DEF HomeInv, BeginningsAreAtHome, BeginningsAreFresh, Heard
    <2>6. home[m.id] = s => (Reply(s, Msg("ERROR", m.id)) => Said)
        BY <1>msg, <1>reply, <2>3 DEF RequestType
    <2>7. CASE HandleQuery(s, m) /\ UNCHANGED <<httpVars, udpVars>>
        <3>1. Said
            BY <1>down, <2>5, <2>6, <2>7 DEF HandleQuery, Begins
        <3>2. Dns
            BY <1>t, <1>dns, <2>3, <2>5, <2>7
            DEF HandleQuery, Begins, Dns, ServerTypes, DnsTypeOK, HomeInv, WorkIsAtHome, MapsAreClean
        <3>3. HttpOver /\ UdpOver
            BY <1>httpOver, <1>udpOver, <2>2, <2>7 DEF httpVars, udpVars
        <3> QED
            BY <1>all, <1>http, <1>udp, <1>open, <2>2, <2>3, <2>7, <3>1, <3>2, <3>3
    <2>8. CASE HttpReceive(s, m) /\ UNCHANGED <<dnsVars, udpVars>>
        <3> USE DEF Http, ServerTypes, HttpTypeOK, HomeInv, WorkIsAtHome, MapsAreClean
        <3>u. UdpOver
            BY <1>udpOver, <2>2, <2>8 DEF udpVars
        <3>1. CASE HandleRequest(s, m)
            <4>1. /\ home[m.id] = s /\ stage[s][m.id] = "none" /\ Heard(s, m.id)
                  /\ m.id \notin requests[s] /\ m.id \notin aborted[s] \cup finished[s]
                BY <2>3, <2>5, <3>1 DEF HandleRequest, Begins
            <4>2. Said
                BY <1>down, <2>6, <3>1, <4>1 DEF HandleRequest
            <4>3. UNCHANGED <<aborted, produced, uploaded, finished>>
                BY <3>1 DEF HandleRequest
            <4>4. CASE /\ requests' = [requests EXCEPT ![s] = @ \cup {m.id}]
                       /\ bodies' = [bodies EXCEPT ![s] = IF m.chunk = 1 THEN @ \cup {m.id} ELSE @]
                       /\ SetStage(s, m.id, "fetching")
                <5>1. \A z \in Sessions, i \in Ids :
                          /\ requests'[z] \subseteq Ids /\ bodies'[z] \subseteq Ids
                          /\ i \in requests'[z] <=> i \in requests[z] \/ (z = s /\ i = m.id)
                          /\ i \in bodies'[z] => i \in bodies[z] \/ (z = s /\ i = m.id)
                          /\ stage'[z][i] = IF z = s /\ i = m.id THEN "fetching" ELSE stage[z][i]
                    BY <1>t, <2>3, <4>4 DEF SetStage
                <5>2. Http
                    BY <1>t, <4>1, <4>3, <5>1
                <5>3. HttpOver
                    BY <2>2, <2>4, <5>1 DEF HttpOver, Links
                <5> HIDE DEF Http, ServerTypes, HttpTypeOK, HomeInv, WorkIsAtHome, MapsAreClean
                <5> QED
                    BY <1>all, <1>dns, <1>udp, <1>open, <2>2, <2>3, <2>8, <3>u, <4>2, <5>2, <5>3
            <4>5. CASE SetStage(s, m.id, "failed") /\ UNCHANGED <<requests, bodies>>
                <5>1. \A z \in Sessions, i \in Ids :
                          stage'[z][i] = IF z = s /\ i = m.id THEN "failed" ELSE stage[z][i]
                    BY <1>t, <2>3, <4>5 DEF SetStage
                <5>2. Http
                    <6> HIDE DEF ServerTypes, HttpTypeOK, HomeInv, WorkIsAtHome, MapsAreClean
                    <6> QED
                        BY <1>was, <4>1, <4>3, <4>5, <5>1
                <5> HIDE DEF Http, ServerTypes, HttpTypeOK, HomeInv, WorkIsAtHome, MapsAreClean
                <5> QED
                    BY <1>all, <1>dns, <1>udp, <1>open, <1>httpOver, <2>2, <2>3, <2>8, <3>u, <4>2,
                       <4>5, <5>2
            <4> QED
                BY <3>1, <4>4, <4>5 DEF HandleRequest
        <3>2. CASE HandleBodyChunk(s, m)
            <4>1. \A z \in Sessions, i \in Ids :
                      stage[z][i] = "none" => uploaded'[z][i] = uploaded[z][i]
                <5>1. uploaded \in [Sessions -> [Ids -> Seq(1 .. MaxChunks)]]
                    BY <1>t
                <5>2. CASE m.id \in bodies[s]
                    <6>1. uploaded' = [uploaded EXCEPT ![s][m.id] = Append(@, m.chunk)]
                        BY <3>2, <5>2 DEF HandleBodyChunk
                    <6>2. stage[s][m.id] # "none"
                        BY <1>was, <2>3, <5>2
                    <6> HIDE DEF Http, ServerTypes, HttpTypeOK, HomeInv, WorkIsAtHome, MapsAreClean
                    <6> QED
                        BY <2>3, <5>1, <6>1, <6>2
                <5>3. CASE m.id \notin bodies[s]
                    BY <3>2, <5>3 DEF HandleBodyChunk
                <5> QED
                    BY <5>2, <5>3
            <4>2. UNCHANGED <<requests, aborted, bodies, stage, produced, finished, down>>
                BY <3>2 DEF HandleBodyChunk
            <4>3. Http
                <5> HIDE DEF ServerTypes, HttpTypeOK, HomeInv, WorkIsAtHome, MapsAreClean
                <5> QED
                    BY <1>was, <4>1, <4>2
            <4> HIDE DEF Http, ServerTypes, HttpTypeOK, HomeInv, WorkIsAtHome, MapsAreClean
            <4> QED
                BY <1>all, <1>dns, <1>udp, <1>open, <1>httpOver, <1>down, <2>2, <2>3, <2>8, <3>u,
                   <4>2, <4>3
        <3>3. CASE HandleBodyEnd(s, m)
            <4>1. \A z \in Sessions, i \in Ids :
                      /\ i \in finished'[z] =>
                            i \in finished[z] \/ (i \in bodies[z] /\ i \notin bodies'[z])
                      /\ i \in bodies'[z] => i \in bodies[z]
                BY <1>t, <2>3, <3>3 DEF HandleBodyEnd
            <4>2. UNCHANGED <<requests, aborted, stage, produced, uploaded, down>>
                BY <3>3 DEF HandleBodyEnd
            <4>3. Http
                <5> HIDE DEF ServerTypes, HttpTypeOK, HomeInv, WorkIsAtHome, MapsAreClean
                <5>1. ASSUME NEW z \in Sessions, NEW i \in Ids, stage'[z][i] = "none"
                      PROVE  i \notin aborted'[z] \cup finished'[z] /\ uploaded'[z][i] = <<>>
                    <6>1. i \notin aborted[z] \cup finished[z] /\ i \notin bodies[z]
                        BY <1>was, <4>2, <5>1
                    <6> QED
                        BY <1>was, <4>1, <4>2, <5>1, <6>1
                <5>2. ASSUME NEW z \in Sessions, NEW i \in Ids, i \in bodies'[z]
                      PROVE  i \in requests'[z] /\ i \notin finished'[z]
                    BY <1>was, <4>1, <4>2, <5>2
                <5>3. ASSUME NEW z \in Sessions, NEW i \in Ids
                      PROVE  requests'[z] \subseteq Ids /\ bodies'[z] \subseteq Ids
                    <6>1. bodies'[z] \subseteq bodies[z]
                        BY <1>t, <3>3 DEF HandleBodyEnd, ServerTypes, HttpTypeOK
                    <6> QED
                        BY <1>was, <4>2, <6>1
                <5> QED
                    BY <1>was, <4>2, <5>1, <5>2, <5>3
            <4> HIDE DEF Http, ServerTypes, HttpTypeOK, HomeInv, WorkIsAtHome, MapsAreClean
            <4> QED
                BY <1>all, <1>dns, <1>udp, <1>open, <1>httpOver, <1>down, <2>2, <2>3, <2>8, <3>u,
                   <4>2, <4>3
        <3> QED
            BY <2>8, <3>1, <3>2, <3>3 DEF HttpReceive
    <2>9. CASE UdpReceive(s, m) /\ UNCHANGED <<dnsVars, httpVars>>
        <3> USE DEF Udp, ServerTypes, UdpTypeOK, HomeInv, WorkIsAtHome, MapsAreClean
        <3>h. HttpOver
            BY <1>httpOver, <2>2, <2>9 DEF httpVars
        <3>1. CASE HandleBind(s, m)
            <4>1. home[m.id] = s /\ loop[s][m.id] = "none" /\ Heard(s, m.id)
                BY <2>5, <3>1 DEF HandleBind, Begins
            <4>2. Said
                BY <1>msg, <1>reply, <2>3, <2>6, <3>1, <4>1 DEF HandleBind, RequestType
            <4>3. UNCHANGED datagrams
                BY <3>1 DEF HandleBind
            <4>4. CASE UNCHANGED <<sockets, loop>>
                BY <1>all, <1>dns, <1>http, <1>udp, <1>open, <1>udpOver, <2>2, <2>3, <2>9, <3>h, <4>2,
                   <4>3, <4>4 DEF udpVars
            <4>5. CASE /\ sockets' = [sockets EXCEPT ![s] = @ \cup {m.id}]
                       /\ SetLoop(s, m.id, "receiving")
                <5>1. \A z \in Sessions, i \in Ids :
                          /\ sockets'[z] \subseteq Ids
                          /\ i \in sockets'[z] => i \in sockets[z] \/ (z = s /\ i = m.id)
                          /\ loop'[z][i] = IF z = s /\ i = m.id THEN "receiving" ELSE loop[z][i]
                    BY <1>t, <2>3, <4>5 DEF SetLoop
                <5>2. Udp
                    BY <1>t, <4>1, <4>3, <5>1
                <5>3. UdpOver
                    BY <2>2, <2>4, <5>1 DEF UdpOver, Links
                <5> QED
                    BY <1>all, <1>dns, <1>http, <1>open, <2>2, <2>3, <2>9, <3>h, <4>2, <5>2, <5>3
            <4> QED
                BY <3>1, <4>4, <4>5 DEF HandleBind
        <3>2. CASE HandleUdpClose(s, m)
            <4>1. /\ \A z \in Sessions : sockets'[z] \subseteq sockets[z]
                  /\ UNCHANGED <<loop, datagrams>>
                BY <1>t, <3>2 DEF HandleUdpClose, CloseSocket
            <4>2. Said
                <5>1. CASE m.id \in sockets[s]
                    <6>1. home[m.id] = s
                        BY <2>3, <5>1
                    <6> QED
                        BY <1>msg, <1>reply, <2>3, <3>2, <5>1, <6>1
                        DEF HandleUdpClose, CloseSocket, RequestType
                <5> QED
                    BY <1>down, <3>2, <5>1 DEF HandleUdpClose, CloseSocket
            <4>3. Udp
                BY <1>t, <4>1
            <4>4. UdpOver
                BY <2>2, <4>1 DEF UdpOver, Links
            <4> QED
                BY <1>all, <1>dns, <1>http, <1>open, <2>2, <2>3, <2>9, <3>h, <4>2, <4>3, <4>4
        <3>3. CASE HandleUdpData(m)
            <4>1. UdpOver
                BY <1>udpOver, <2>2, <3>3 DEF HandleUdpData, udpVars
            <4> HIDE DEF Udp
            <4> QED
                BY <1>all, <1>dns, <1>http, <1>udp, <1>down, <1>open, <2>2, <2>3, <2>9, <3>h, <3>3, <4>1
                DEF HandleUdpData
        <3> QED
            BY <2>9, <3>1, <3>2, <3>3 DEF UdpReceive
    <2>10. CASE m.type = "ERROR" /\ UNCHANGED <<dnsVars, httpVars, udpVars, down>>
        <3>1. HttpOver /\ UdpOver
            BY <1>httpOver, <1>udpOver, <2>2, <2>10 DEF httpVars, udpVars
        <3> QED
            BY <1>all, <1>dns, <1>http, <1>udp, <1>down, <1>open, <2>2, <2>3, <2>10, <3>1
    <2> QED
        BY <2>1, <2>7, <2>8, <2>9, <2>10
\* The life of the transport
<1>3. CASE ServerLinkClosed(s) \/ ServerHeartbeatTimeout(s)
    <2>1. Links
        BY <1>t, <1>v, <1>3
        DEF ServerLinkClosed, LinkLost, ServerHeartbeatTimeout, HeartbeatLost, Links, ServerTypes,
            HomeInv, OpenEnds
    <2>2. HearsUp /\ UNCHANGED <<down, dnsVars, httpVars, udpVars>>
        BY <1>c, <1>3 DEF ServerLinkClosed, LinkLost, ServerHeartbeatTimeout, HeartbeatLost, HearsUp
    <2>3. HttpOver /\ UdpOver
        BY <1>httpOver, <1>udpOver, <2>1, <2>2 DEF httpVars, udpVars
    <2> QED
        BY <1>all, <1>dns, <1>http, <1>udp, <1>down, <1>open, <2>1, <2>2, <2>3
<1>4. CASE CloseTransport(s)
    <2>1. OpenEnds' /\ \A z \in Sessions : tstate'[z] = "closed" => z = s \/ tstate[z] = "closed"
        BY <1>t, <1>v, <1>4 DEF CloseTransport, EndTransport, ServerTypes, HomeInv, OpenEnds
    <2>2. HearsUp /\ UNCHANGED <<down, dnsVars>>
        BY <1>c, <1>4 DEF CloseTransport, EndTransport, HearsUp
    <2>3. \A z \in Sessions, i \in Ids :
              /\ i \in requests'[z] <=> z # s /\ i \in requests[z]
              /\ i \in aborted'[z] <=> i \in aborted[z] \/ (z = s /\ i \in requests[z])
              /\ i \in bodies'[z] => i \in bodies[z] /\ (z = s => requests[z] = {})
              /\ i \in sockets'[z] <=> z # s /\ i \in sockets[z]
              /\ requests'[z] \subseteq Ids /\ bodies'[z] \subseteq Ids /\ sockets'[z] \subseteq Ids
        BY <1>t, <1>4
        DEF CloseTransport, AbortAll, CloseSockets, ServerTypes, HttpTypeOK, UdpTypeOK
    <2>4. UNCHANGED <<stage, produced, uploaded, finished, loop, datagrams>>
        BY <1>4 DEF CloseTransport, AbortAll, CloseSockets
    <2>5. Http
        BY <1>t, <2>3, <2>4
        DEF Http, HomeInv, WorkIsAtHome, MapsAreClean, ServerTypes, HttpTypeOK
    <2>6. Udp
        BY <1>t, <2>3, <2>4 DEF Udp, HomeInv, WorkIsAtHome, MapsAreClean
    <2>7. HttpOver /\ UdpOver
        BY <2>1, <2>3 DEF HttpOver, UdpOver, HomeInv, MapsAreClean
    <2> QED
        BY <1>all, <1>dns, <1>down, <2>1, <2>2, <2>5, <2>6, <2>7
\* DNS
<1>5. ASSUME NEW id \in Ids, DnsStep(s, id), UNCHANGED <<httpVars, udpVars>> PROVE HomeInv'
    <2>1. home[id] = s
        BY <1>5 DEF DnsStep, QueryTimeout, LookupEnds, HomeInv, WorkIsAtHome
    <2>2. Said
        BY <1>5, <1>msg, <1>reply, <2>1 DEF DnsStep, QueryTimeout, LookupEnds, RequestType
    <2>3. Dns
        BY <1>t, <1>5
        DEF DnsStep, QueryTimeout, LookupEnds, Dns, ServerTypes, DnsTypeOK, HomeInv, WorkIsAtHome,
            MapsAreClean
    <2>4. UNCHANGED <<cws, sws, up, tstate>>
        BY <1>5 DEF DnsStep, QueryTimeout, LookupEnds
    <2>5. Links /\ HttpOver /\ UdpOver
        BY <1>5, <1>links, <1>httpOver, <1>udpOver, <2>4 DEF httpVars, udpVars
    <2> QED
        BY <1>5, <1>all, <1>http, <1>udp, <1>still, <1>open, <2>2, <2>3, <2>4, <2>5
\* HTTP
<1>6. ASSUME NEW id \in Ids, HttpStep(s, id), UNCHANGED <<dnsVars, udpVars>> PROVE HomeInv'
    <2>1. UNCHANGED <<cws, sws, up, tstate, aborted, uploaded, finished>>
        BY <1>6
        DEF HttpStep, FetchEnds, FetchFails, Responds, RespondsWithoutBody, ReadBody, BodyDone,
            CutOff, ReadFails, BodyCancelled, wireVars
    <2>2. Links
        BY <1>links, <2>1
    <2>3. UdpOver
        BY <1>6, <1>udpOver, <2>2 DEF udpVars
    <2>4. stage[s][id] # "none" /\ home[id] = s
        <3>1. stage[s][id] # "none"
            BY <1>6
            DEF HttpStep, FetchEnds, FetchFails, Responds, RespondsWithoutBody, ReadBody, BodyDone,
                CutOff, ReadFails, BodyCancelled, HomeInv, MapsAreClean
        <3> QED
            BY <3>1 DEF HomeInv, WorkIsAtHome
    <2>5. Said
        <3>1. CASE BodyCancelled(s, id)
            BY <1>down, <3>1 DEF BodyCancelled, wireVars
        <3>2. CASE RespondsWithoutBody(s, id)
            <4>1. ASSUME NEW m \in RequestMessage, NEW n \in RequestMessage, m.id = id, n.id = id,
                         down' = [down EXCEPT ![s] = @ \o <<m, n>>]
                  PROVE  Said
                <5>1. <<m, n>> \in Seq(RequestMessage) /\ \A k \in DOMAIN <<m, n>> : <<m, n>>[k].id = id
                    BY <4>1
                <5>2. ASSUME NEW z \in Sessions, NEW k \in DOMAIN down'[z]
                      PROVE  home[down'[z][k].id] = z
                    <6>1. CASE z = s
                        <7>1. down'[z] = down[s] \o <<m, n>>
                            BY <1>c, <4>1, <6>1
                        <7>2. down'[z][k].id = id \/ \E j \in DOMAIN down[s] : down'[z][k] = down[s][j]
                            BY <1>c, <5>1, <5>2, <7>1, ConcatElements
                        <7> QED
                            BY <2>4, <6>1, <7>2 DEF HomeInv, AnswersAreAtHome
                    <6>2. CASE z # s
                        BY <1>c, <4>1, <5>2, <6>2 DEF HomeInv, AnswersAreAtHome
                    <6> QED
                        BY <6>1, <6>2
                <5> QED
                    BY <1>v, <5>2 DEF Said, AnswersAreAtHome
            <4>2. /\ Chunk("HTTP_RESPONSE", id, 0) \in RequestMessage
                  /\ Msg("HTTP_BODY_END", id) \in RequestMessage
                  /\ Chunk("HTTP_RESPONSE", id, 0).id = id /\ Msg("HTTP_BODY_END", id).id = id
                BY <1>msg, WireAssumption DEF RequestType
            <4> QED
                BY <1>down, <3>2, <4>1, <4>2 DEF RespondsWithoutBody, ReplyTwice
        <3>3. CASE ReadBody(s, id)
            <4>1. produced[s][id] + 1 \in 0 .. MaxChunks + 1
                BY <1>t, <3>3, WireAssumption DEF ReadBody, ServerTypes, HttpTypeOK
            <4> QED
                BY <1>msg, <1>reply, <2>4, <3>3, <4>1 DEF ReadBody, RequestType
        <3>4. CASE Responds(s, id)
            <4>1. 1 \in 0 .. MaxChunks + 1
                BY WireAssumption
            <4> QED
                BY <1>msg, <1>reply, <2>4, <3>4, <4>1 DEF Responds, RequestType
        <3>5. CASE FetchFails(s, id) \/ BodyDone(s, id) \/ CutOff(s, id) \/ ReadFails(s, id)
            BY <1>msg, <1>reply, <2>4, <3>5 DEF FetchFails, BodyDone, CutOff, ReadFails, RequestType
        <3> QED
            BY <1>6, <3>1, <3>2, <3>3, <3>4, <3>5 DEF HttpStep, FetchEnds
    <2>6. \A z \in Sessions, i \in Ids :
              /\ requests'[z] \subseteq requests[z] /\ bodies'[z] \subseteq bodies[z]
              /\ z # s \/ i # id =>
                    /\ stage'[z][i] = stage[z][i] /\ produced'[z][i] = produced[z][i]
                    /\ i \in requests'[z] <=> i \in requests[z]
        BY <1>t, <1>6
        DEF HttpStep, FetchEnds, FetchFails, Responds, RespondsWithoutBody, ReadBody, BodyDone,
            CutOff, ReadFails, BodyCancelled, SetStage, CleanupRequest, ServerTypes, HttpTypeOK
    <2>7. /\ stage'[s][id] # "none" /\ (stage'[s][id] = "fetching" => produced'[s][id] = 0)
          /\ id \in requests'[s] <=> stage'[s][id] \in {"fetching", "streaming"} /\ id \notin aborted[s]
          /\ id \in bodies'[s] => id \in requests'[s]
        <3>1. CASE BodyCancelled(s, id) \/ ReadBody(s, id)
            BY <1>t, <2>4, <2>6, <3>1
            DEF BodyCancelled, ReadBody, HomeInv, WorkIsAtHome, MapsAreClean, ServerTypes, HttpTypeOK
        <3>2. CASE Responds(s, id)
            BY <1>t, <2>4, <3>2
            DEF Responds, SetStage, HomeInv, MapsAreClean, ServerTypes, HttpTypeOK
        <3>3. CASE /\ CleanupRequest(s, id)
                   /\ \E to \in {"failed", "done", "cut"} : SetStage(s, id, to)
            BY <1>t, <3>3 DEF SetStage, CleanupRequest, ServerTypes, HttpTypeOK
        <3> QED
            BY <1>6, <3>1, <3>2, <3>3
            DEF HttpStep, FetchEnds, FetchFails, RespondsWithoutBody, BodyDone, CutOff, ReadFails
    <2>8. Http
        BY <1>t, <2>1, <2>4, <2>6, <2>7
        DEF Http, HomeInv, WorkIsAtHome, MapsAreClean, ServerTypes, HttpTypeOK
    <2>9. HttpOver
        BY <2>2, <2>6 DEF HttpOver, Links, HomeInv, MapsAreClean
    <2> QED
        BY <1>6, <1>all, <1>dns, <1>udp, <1>still, <1>open, <2>1, <2>2, <2>3, <2>5, <2>8, <2>9
\* UDP
<1>7. ASSUME NEW id \in Ids, UdpStep(s, id), UNCHANGED <<dnsVars, httpVars>> PROVE HomeInv'
    <2>1. UNCHANGED <<cws, sws, up, tstate>>
        BY <1>7 DEF UdpStep, Datagram, SendDatagram, LoopEnds, wireVars
    <2>2. Links
        BY <1>links, <2>1
    <2>3. HttpOver
        BY <1>7, <1>httpOver, <2>2 DEF httpVars
    <2>4. loop[s][id] # "none" /\ home[id] = s
        BY <1>7 DEF UdpStep, Datagram, SendDatagram, LoopEnds, HomeInv, WorkIsAtHome
    <2>5. Said
        <3>1. CASE SendDatagram(s, id)
            <4>1. datagrams[s][id] \in 0 .. MaxChunks + 1
                BY <1>t, WireAssumption DEF ServerTypes, UdpTypeOK
            <4> QED
                BY <1>msg, <1>reply, <2>4, <3>1, <4>1 DEF SendDatagram, RequestType
        <3> QED
            BY <1>7, <1>down, <1>msg, <1>reply, <2>4, <3>1
            DEF UdpStep, Datagram, LoopEnds, CloseSocket, RequestType, wireVars
    <2>6. \A z \in Sessions, i \in Ids :
              /\ sockets'[z] \subseteq sockets[z]
              /\ z # s \/ i # id =>
                    loop'[z][i] = loop[z][i] /\ datagrams'[z][i] = datagrams[z][i]
        BY <1>t, <1>7
        DEF UdpStep, Datagram, SendDatagram, LoopEnds, CloseSocket, SetLoop, ServerTypes, UdpTypeOK
    <2>7. loop'[s][id] # "none" /\ (id \in sockets'[s] => loop'[s][id] \in {"receiving", "holding"})
        BY <1>t, <1>7
        DEF UdpStep, Datagram, SendDatagram, LoopEnds, CloseSocket, SetLoop, ServerTypes, UdpTypeOK
    <2>8. Udp
        <3>1. ASSUME NEW z \in Sessions, NEW i \in Ids
              PROVE  /\ loop'[z][i] # "none" => home[i] = z
                     /\ loop'[z][i] = "none" => datagrams'[z][i] = 0
                     /\ i \in sockets'[z] => loop'[z][i] \in {"receiving", "holding"}
                     /\ loop'[z][i] = "none" \/ loop[z][i] # "none" \/ Heard(z, i)
                     /\ sockets'[z] \subseteq Ids
            <4>1. CASE z = s /\ i = id
                BY <1>wasUdp, <2>4, <2>6, <2>7, <3>1, <4>1
            <4>2. CASE z # s \/ i # id
                BY <1>wasUdp, <2>6, <3>1, <4>2
            <4> QED
                BY <4>1, <4>2
        <3> QED
            BY <3>1 DEF Udp
    <2>9. UdpOver
        BY <2>2, <2>6 DEF UdpOver, Links, HomeInv, MapsAreClean
    <2> QED
        BY <1>7, <1>all, <1>dns, <1>http, <1>still, <1>open, <2>1, <2>2, <2>3, <2>5, <2>8, <2>9
<1> QED
    BY <1>1, <1>2, <1>3, <1>4, <1>5, <1>6, <1>7

\* A new session begins with nothing that begins an exchange.
LEMMA NewSessionStaysAtHome ==
    ASSUME KindInv, HomeInv, NewSession
    PROVE  HomeInv'
<1>t. /\ up \in [Sessions -> Seq(RequestMessage)] /\ sws \in [Sessions -> BOOLEAN]
      /\ tstate \in [Sessions -> TransportState] /\ sess \in 0 .. MaxSessions
    BY DEF KindInv, TypeOK
<1>v. UNCHANGED <<home, kind, down, isClosed, queries, lookups, requests, aborted, bodies, stage,
                  produced, uploaded, finished, sockets, loop, datagrams>>
    BY DEF NewSession, Assign, requestVars, dnsVars, httpVars, udpVars
<1>1. /\ sess + 1 \in Sessions /\ ~isClosed /\ cws' = TRUE
      /\ up' = [up EXCEPT ![sess + 1] = queue] /\ queue' = <<>>
    BY <1>t, WireAssumption DEF NewSession, Assign, FlushQueue, Sessions
<1>2. /\ tstate' = [tstate EXCEPT ![sess + 1] = "connected"]
      /\ sws' = [sws EXCEPT ![sess + 1] = TRUE]
    BY DEF NewSession, AssignSocket
<1>3. OpenEnds'
    BY <1>t, <1>v, <1>1, <1>2 DEF HomeInv, OpenEnds
<1>4. WorkIsAtHome' /\ AnswersAreAtHome'
    BY <1>v DEF HomeInv, WorkIsAtHome, AnswersAreAtHome
<1>5. \A s \in Sessions : up'[s] = up[s] \/ \A k \in DOMAIN up'[s] : ~Begins(up'[s][k])
    BY <1>t, <1>1 DEF HomeInv, BeginningsAreAtHome
<1>6. BeginningsAreAtHome'
    BY <1>v, <1>1, <1>5 DEF HomeInv, BeginningsAreAtHome
<1>7. BeginningsAreFresh'
    BY <1>v, <1>5 DEF HomeInv, BeginningsAreFresh, BeginsWith
<1>8. MapsAreClean'
    BY <1>t, <1>v, <1>2 DEF HomeInv, MapsAreClean
<1> QED
    BY <1>3, <1>4, <1>6, <1>7, <1>8 DEF HomeInv

LEMMA InitIsAtHome ==
    ASSUME Init
    PROVE  HomeInv
<1> USE DEF Init
<1>1. OpenEnds
    BY DEF WireInit, ClientInit, OpenEnds
<1>2. WorkIsAtHome
    BY DEF DnsInit, HttpInit, UdpInit, WorkIsAtHome
<1>3. AnswersAreAtHome /\ BeginningsAreAtHome
    BY DEF WireInit, ClientInit, AnswersAreAtHome, BeginningsAreAtHome
<1>4. BeginningsAreFresh
    BY DEF WireInit, BeginningsAreFresh, BeginsWith
<1>5. MapsAreClean
    BY DEF DnsInit, HttpInit, UdpInit, MapsAreClean
<1> QED
    BY <1>1, <1>2, <1>3, <1>4, <1>5 DEF HomeInv

LEMMA NothingLeavesHome ==
    ASSUME HomeInv, UNCHANGED vars
    PROVE  HomeInv'
BY DEF HomeInv, vars, wireVars, clientVars, requestVars, serverVars, dnsVars, httpVars, udpVars,
       OpenEnds, WorkIsAtHome, AnswersAreAtHome, BeginningsAreAtHome, BeginningsAreFresh,
       MapsAreClean

LEMMA EverythingIsAtHome == Spec => []HomeInv
<1>1. Init => HomeInv
    BY InitIsAtHome
<1>2. KindInv /\ HomeInv /\ [Next]_vars => HomeInv'
    <2> SUFFICES ASSUME KindInv, HomeInv, [Next]_vars PROVE HomeInv'
        OBVIOUS
    <2>1. CASE NewSession
        BY <2>1, NewSessionStaysAtHome
    <2>2. CASE RequestNext /\ UNCHANGED serverVars
        BY <2>2, ClientMoves, ClientStaysAtHome
    <2>3. CASE ServerNext /\ UNCHANGED <<clientVars, requestVars>>
        BY <2>3, ServerStaysAtHome
    <2>4. CASE UNCHANGED vars
        BY <2>4, NothingLeavesHome
    <2> QED
        BY <2>1, <2>2, <2>3, <2>4 DEF Next
<1> QED
    BY <1>1, <1>2, KindsHold, PTL DEF Spec

\* The maps of the three proxies hold what is in progress and nothing else: an
\* AbortController until its request has been answered in full, has failed or
\* was aborted, a body controller no longer than that, a socket no longer than
\* its loop, a query no longer than its lookup; and close() leaves no request and
\* no socket, while the queries stay until their lookup or their timer ends.
THEOREM CleanMaps == Spec => []MapsAreClean
<1>1. HomeInv => MapsAreClean
    BY DEF HomeInv
<1> QED
    BY <1>1, EverythingIsAtHome, PTL
===============================================================================
