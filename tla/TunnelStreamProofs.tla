-------------------------- MODULE TunnelStreamProofs --------------------------
(***************************************************************************)
(* The proofs that targets are written what their caller wrote, in order   *)
(* and without gaps, and that the tunnel implements Streams.               *)
(***************************************************************************)
EXTENDS TunnelNewsProofs

-----------------------------------------------------------------------------
(* Uploads.  The proof mirrors that of the downloads: the target is the    *)
(* reader, its connection the entry.  What has no counterpart there is the *)
(* queue, which carries chunks from one session to the next, several       *)
(* messages at once.                                                       *)

\* Messages that are no chunks of id change nothing for id.
LEMMA ConcatOther ==
    ASSUME NEW ch \in Seq(Message), NEW ms \in Seq(Message), NEW id \in Ids,
           NEW got \in Nat, NEW top \in Nat, \A k \in DOMAIN ms : ~IsChunk(ms[k], id)
    PROVE  /\ InFlight(ch, id, got, top) => InFlight(ch \o ms, id, got, top)
           /\ Reaches(ch, id, got, top) => Reaches(ch \o ms, id, got, top)
<1> DEFINE new == ch \o ms
<1>1. \A k \in DOMAIN ch : k \in DOMAIN new /\ new[k] = ch[k]
    BY ConcatProperties
<1>2. \A k \in DOMAIN new : IsChunk(new[k], id) => k \in DOMAIN ch /\ new[k] = ch[k]
    BY ConcatElements
<1> HIDE DEF new
<1>3. InFlight(ch, id, got, top) => InFlight(new, id, got, top)
    BY <1>1, <1>2 DEF InFlight
<1>4. Reaches(ch, id, got, top) => Reaches(new, id, got, top)
    BY <1>1, <1>2 DEF Reaches
<1> QED
    BY <1>3, <1>4 DEF new

\* A chunk in flight is one more than was got before it could be sent.
LEMMA MoreInFlight ==
    ASSUME NEW ch \in Seq(Message), NEW id \in Ids, NEW got \in Nat, NEW top \in Nat,
           InFlight(ch, id, got, top)
    PROVE  InFlight(ch, id, got, top + 1)
<1>1. \A k \in DOMAIN ch : ch[k].chunk \in Nat
    BY ChunksAreNumbers
<1> QED
    BY <1>1 DEF InFlight

-----------------------------------------------------------------------------
(* Nothing is written before there is a stream                             *)

\* Neither on its way nor in the queue is a chunk nobody wrote.
LEMMA SendKeepsWrites ==
    ASSUME TypeOK, NothingBeforeTheStream, NEW ms \in Seq(Message), Send(ms),
           \A id \in Ids : sent[id] # 0 => sent'[id] # 0,
           \A k \in DOMAIN ms : ms[k].type = "TCP_DATA" => sent'[ms[k].id] # 0
    PROVE  /\ \A s \in Sessions : \A k \in DOMAIN up'[s] :
                 up'[s][k].type = "TCP_DATA" => sent'[up'[s][k].id] # 0
           /\ \A k \in DOMAIN queue' : queue'[k].type = "TCP_DATA" => sent'[queue'[k].id] # 0
<1>t. /\ up \in [Sessions -> Seq(Message)] /\ queue \in Seq(Message)
      /\ (cws => sess \in Sessions)
    BY WireAssumption DEF TypeOK, WireTypeOK, ClientTypeOK, Sessions
<1> DEFINE Written(ch) == \A k \in DOMAIN ch : ch[k].type = "TCP_DATA" => sent'[ch[k].id] # 0
<1>1. (\A s \in Sessions : Written(up[s])) /\ Written(queue)
    <2>1. \A s \in Sessions : \A k \in DOMAIN up[s] : up[s][k].id \in Ids
        BY <1>t, ChannelElements
    <2>2. \A k \in DOMAIN queue : queue[k].id \in Ids
        BY <1>t, ChannelElements
    <2> QED
        BY <2>1, <2>2 DEF NothingBeforeTheStream
<1>2. ASSUME NEW ch \in Seq(Message), Written(ch) PROVE Written(ch \o ms)
    <2> DEFINE new == ch \o ms
    <2>1. \A k \in DOMAIN new : \/ k \in DOMAIN ch /\ new[k] = ch[k]
                                \/ \E j \in DOMAIN ms : new[k] = ms[j]
        BY ConcatElements
    <2> HIDE DEF new
    <2>2. Written(new)
        BY <1>2, <2>1
    <2> QED
        BY <2>2 DEF new
<1>3. CASE UNCHANGED <<up, queue>>
    BY <1>1, <1>3
<1>4. CASE sess \in Sessions /\ up' = [up EXCEPT ![sess] = @ \o ms] /\ UNCHANGED queue
    <2>1. \A s \in Sessions : up'[s] = IF s = sess THEN up[sess] \o ms ELSE up[s]
        BY <1>t, <1>4
    <2>2. Written(up[sess] \o ms)
        BY <1>t, <1>1, <1>2, <1>4
    <2>3. ASSUME NEW s \in Sessions PROVE Written(up'[s])
        <3>1. CASE s = sess
            <4>1. up'[s] = up[sess] \o ms
                BY <2>1, <3>1
            <4> QED
                BY <2>2, <4>1
        <3>2. CASE s # sess
            <4>1. up'[s] = up[s]
                BY <2>1, <3>2
            <4> QED
                BY <1>1, <4>1
        <3> QED
            BY <3>1, <3>2
    <2> QED
        BY <1>1, <1>4, <2>3
<1>5. CASE queue' = FirstOf(queue \o ms, MaxQueue) /\ UNCHANGED up
    <2>1. Written(queue \o ms) /\ queue \o ms \in Seq(Message)
        BY <1>t, <1>1, <1>2
    <2>2. \A k \in DOMAIN queue' : k \in DOMAIN (queue \o ms) /\ queue'[k] = (queue \o ms)[k]
        BY <1>5, <2>1, FirstOfElements, WireAssumption
    <2>3. Written(queue')
        BY <2>1, <2>2
    <2> QED
        BY <1>1, <1>5, <2>3
<1> QED
    BY <1>t, <1>3, <1>4, <1>5 DEF Send

-----------------------------------------------------------------------------
(* Uploads, step by step                                                   *)

\* A link never comes back, in terms of what both ends believe.
LEMMA LinkOnlyEnds ==
    ASSUME TypeOK, OpenEnds', NEW s \in Sessions, s <= sess, Next, LinkUp(s)'
    PROVE  LinkUp(s)
<1>1. Whole(s)'
    BY DEF OpenEnds, Whole, LinkUp
<1> QED
    BY <1>1, WholeOnlyEnds DEF Whole

\* What a step does not touch stays delivered in order.
LEMMA UploadIsLeftAlone ==
    ASSUME TypeOK, OpenEnds', NEW id \in Ids, NEW s \in Sessions, s = home[id], UploadOf(id),
           s <= sess, Next,
           home'[id] = home[id], written'[s][id] = written[s][id], up'[s] = up[s],
           id \in conns'[s] => id \in conns[s], sent'[id] = sent[id]
    PROVE  UploadOf(id)'
<1>1. LinkUp(s)' => LinkUp(s)
    BY LinkOnlyEnds
<1>2. /\ \A k \in DOMAIN written[s][id] : written[s][id][k] = k
      /\ Len(written[s][id]) <= sent[id]
      /\ id \in conns[s] => InFlight(up[s], id, Len(written[s][id]), sent[id])
      /\ id \in conns[s] /\ LinkUp(s) => Reaches(up[s], id, Len(written[s][id]), sent[id])
    BY DEF UploadOf, Delivery
<1> QED
    BY <1>1, <1>2 DEF UploadOf, Delivery

\* The client sends something else.
LEMMA SendKeepsUpload ==
    ASSUME TypeOK, OpenEnds', NEW id \in Ids, NEW s \in Sessions, s = home[id], UploadOf(id),
           s <= sess, Next,
           NEW ms \in Seq(Message), Send(ms), \A k \in DOMAIN ms : ~IsChunk(ms[k], id),
           home'[id] = home[id], UNCHANGED <<written, conns>>, sent'[id] = sent[id]
    PROVE  UploadOf(id)'
<1> DEFINE r == written[s][id]
           ch == up[s]
           top == sent[id]
<1>1. LinkUp(s)' => LinkUp(s)
    BY LinkOnlyEnds
<1>2. /\ \A k \in DOMAIN r : r[k] = k
      /\ Len(r) <= top
      /\ id \in conns[s] => InFlight(ch, id, Len(r), top)
      /\ id \in conns[s] /\ LinkUp(s) => Reaches(ch, id, Len(r), top)
    BY DEF UploadOf, Delivery
<1>3. Len(r) \in Nat /\ ch \in Seq(Message) /\ top \in Nat
    BY WireAssumption DEF TypeOK, WireTypeOK, ClientTypeOK, ProxyTypeOK
<1>4. CASE up'[s] = ch
    BY <1>4, UploadIsLeftAlone
<1>5. CASE up'[s] = ch \o ms
    <2>1. /\ InFlight(ch, id, Len(r), top) => InFlight(ch \o ms, id, Len(r), top)
          /\ Reaches(ch, id, Len(r), top) => Reaches(ch \o ms, id, Len(r), top)
        BY <1>3, ConcatOther
    <2> QED
        BY <1>1, <1>2, <1>5, <2>1 DEF UploadOf, Delivery
<1> QED
    BY <1>4, <1>5 DEF Send, TypeOK, WireTypeOK

\* The caller writes the next chunk, wherever it goes.
LEMMA WriteKeepsUpload ==
    ASSUME TypeOK, OpenEnds, OpenEnds', NEW id \in Ids, NEW s \in Sessions, s = home[id],
           UploadOf(id), s <= sess, Next, Write(id), UNCHANGED proxyVars
    PROVE  UploadOf(id)'
<1> DEFINE r == written[s][id]
           ch == up[s]
           top == sent[id]
           m == DataMsg(id, top + 1)
<1>1. LinkUp(s)' => LinkUp(s)
    BY LinkOnlyEnds
<1>2. /\ \A k \in DOMAIN r : r[k] = k
      /\ Len(r) <= top
      /\ id \in conns[s] => InFlight(ch, id, Len(r), top)
      /\ id \in conns[s] /\ LinkUp(s) => Reaches(ch, id, Len(r), top)
    BY DEF UploadOf, Delivery
<1>3. Len(r) \in Nat /\ ch \in Seq(Message) /\ top \in Nat
    BY WireAssumption DEF TypeOK, WireTypeOK, ClientTypeOK, ProxyTypeOK
<1>4. sent'[id] = top + 1 /\ UNCHANGED <<home, written, conns>>
    BY DEF Write, TypeOK, ClientTypeOK, proxyVars
<1>5. m \in Message /\ IsChunk(m, id) /\ m.chunk = top + 1
    <2>1. top + 1 \in 0 .. MaxChunks
        BY WireAssumption DEF Write, TypeOK, ClientTypeOK
    <2> QED
        BY <2>1 DEF DataMsg, Message, MessageType, IsChunk
<1>6. Send(<<m>>)
    BY DEF Write
<1> HIDE DEF m
<1>7. CASE LinkUp(s)
    <2>1. up'[s] = ch \o <<m>>
        <3>1. up' = [up EXCEPT ![sess] = IF sws[sess] THEN @ \o <<m>> ELSE @]
            BY <1>6, <1>7 DEF Send, LinkUp, OpenEnds
        <3> QED
            BY <1>7, <3>1 DEF LinkUp, TypeOK, WireTypeOK
    <2>2. up'[s] = Append(ch, m)
        BY <1>3, <1>5, <2>1
    <2>3. id \in conns[s] =>
              /\ InFlight(Append(ch, m), id, Len(r), top + 1)
              /\ Reaches(Append(ch, m), id, Len(r), top + 1)
        BY <1>2, <1>3, <1>5, <1>7, AppendNext
    <2> QED
        BY <1>2, <1>3, <1>4, <2>2, <2>3 DEF UploadOf, Delivery
<1>8. CASE ~LinkUp(s)
    <2>1. up'[s] = ch
        <3>1. up \in [Sessions -> Seq(Message)]
            BY DEF TypeOK, WireTypeOK
        <3>2. CASE isClosed \/ ~cws
            BY <1>6, <3>2 DEF Send
        <3>3. CASE ~isClosed /\ cws
            <4>1. up' = [up EXCEPT ![sess] = IF sws[sess] THEN @ \o <<m>> ELSE @]
                BY <1>6, <3>3 DEF Send
            <4>2. s = sess => ~sws[sess]
                BY <1>8, <3>3 DEF LinkUp
            <4> QED
                BY <3>1, <4>1, <4>2
        <3> QED
            BY <3>2, <3>3
    <2>2. id \in conns[s] => InFlight(ch, id, Len(r), top + 1)
        BY <1>2, <1>3, MoreInFlight
    <2> QED
        BY <1>1, <1>2, <1>3, <1>4, <1>8, <2>1, <2>2 DEF UploadOf, Delivery
<1> QED
    BY <1>7, <1>8

\* A new call starts with nothing written, on either side.
LEMMA ConnectStartsUpload ==
    ASSUME TypeOK, HomeInv, CallersAreRight, UploadsInv, Connect, UNCHANGED proxyVars,
           NEW id \in Ids, id = nextId
    PROVE  UploadOf(id)'
<1> DEFINE s == sess
<1>1. s \in Sessions /\ s # 0 /\ home[id] = 0 /\ up \in [Sessions -> Seq(Message)]
    BY WireAssumption
    DEF Connect, TypeOK, WireTypeOK, ClientTypeOK, Ids, Sessions, HomeInv, FreshIds
<1>2. home'[id] = s /\ UNCHANGED <<sent, written, conns>>
    BY <1>1 DEF Connect, TypeOK, ClientTypeOK, proxyVars
<1>3. written[s][id] = <<>> /\ id \notin conns[s] /\ sent[id] = 0
    BY <1>1 DEF HomeInv, WorkIsAtHome, UploadsInv, WritesAreAtHome, NothingBeforeTheStream,
                CallersAreRight
<1> HIDE DEF s
<1> QED
    BY <1>2, <1>3 DEF UploadOf, Delivery

\* The client sends chunks in the order they are written, on the link of their
\* call as long as it has one.
LEMMA ClientStepKeepsUploads ==
    ASSUME TypeOK, HomeInv, WaitingIsTimed, EntryHasOpenReader, NewsInv, NewsInv', UploadsInv,
           ClientNext, UNCHANGED proxyVars
    PROVE  UploadsInv'
<1>n. Next
    BY DEF Next
<1>o. OpenEnds /\ OpenEnds' /\ CallersAreRight
    BY DEF NewsInv
<1>t. /\ call \in [Ids -> CallState] /\ sent \in [Ids -> 0 .. MaxChunks]
      /\ writing \in [Ids -> BOOLEAN] /\ home \in [Ids -> 0 .. MaxSessions]
      /\ pending \subseteq Ids
    BY DEF TypeOK, ClientTypeOK
<1>p. UNCHANGED <<conns, task, written>>
    BY DEF proxyVars
<1>w. ASSUME \A id \in Ids : home[id] # 0 => home'[id] = home[id] PROVE WritesAreAtHome'
    <2>1. ASSUME NEW s \in Sessions, NEW id \in Ids, written[s][id] # <<>>
          PROVE  home'[id] = s
        <3>1. home[id] = s /\ s # 0
            BY <2>1, WireAssumption DEF UploadsInv, WritesAreAtHome, Sessions
        <3> QED
            BY <1>w, <3>1
    <2> QED
        BY <1>p, <2>1 DEF WritesAreAtHome
<1> DEFINE Callers ==
               \A id \in Ids : call'[id] # "connected" => ~writing'[id] /\ sent'[id] = 0
           Channels ==
               /\ \A s \in Sessions : \A k \in DOMAIN up'[s] :
                     up'[s][k].type = "TCP_DATA" => sent'[up'[s][k].id] # 0
               /\ \A k \in DOMAIN queue' : queue'[k].type = "TCP_DATA" => sent'[queue'[k].id] # 0
<1>all. ASSUME Callers, Channels, \A id \in Ids : home[id] # 0 => home'[id] = home[id],
               \A id \in Ids : home'[id] # 0 => UploadOf(id)'
        PROVE  UploadsInv'
    <2>1. NothingBeforeTheStream'
        BY <1>all DEF NothingBeforeTheStream
    <2> QED
        BY <1>all, <1>w, <2>1 DEF UploadsInv
<1>old. ASSUME NEW id \in Ids, home[id] # 0
        PROVE  home[id] \in Sessions /\ home[id] <= sess /\ UploadOf(id)
    BY <1>old, HomeIsSession DEF UploadsInv
<1>callers. ASSUME UNCHANGED sent,
                   \A id \in Ids : call[id] = "connected" => call'[id] = "connected",
                   \A id \in Ids : writing'[id] => writing[id] \/ call'[id] = "connected"
            PROVE  Callers
    BY <1>callers DEF UploadsInv, NothingBeforeTheStream
\* Nothing is sent.
<1>quiet. ASSUME UNCHANGED <<home, sent, up>>, queue' = queue \/ queue' = <<>>, Callers
          PROVE  UploadsInv'
    <2>1. Channels
        BY <1>quiet DEF UploadsInv, NothingBeforeTheStream
    <2>2. ASSUME NEW id \in Ids, home[id] # 0 PROVE UploadOf(id)'
        <3>1. PICK s \in Sessions : s = home[id] /\ s <= sess /\ UploadOf(id)
            BY <1>old, <2>2
        <3> QED
            BY <1>n, <1>o, <1>p, <1>quiet, <3>1, UploadIsLeftAlone
    <2> QED
        BY <1>all, <1>quiet, <2>1, <2>2
\* What is sent is no data.
<1>send. ASSUME NEW ms \in Seq(Message), Send(ms), \A k \in DOMAIN ms : ms[k].type # "TCP_DATA",
                UNCHANGED <<home, sent>>, Callers
         PROVE  UploadsInv'
    <2>1. Channels
        BY <1>send, SendKeepsWrites DEF UploadsInv
    <2>2. ASSUME NEW id \in Ids, home[id] # 0 PROVE UploadOf(id)'
        <3>1. PICK s \in Sessions : s = home[id] /\ s <= sess /\ UploadOf(id)
            BY <1>old, <2>2
        <3>2. /\ home'[id] = home[id] /\ sent'[id] = sent[id]
              /\ \A k \in DOMAIN ms : ~IsChunk(ms[k], id)
            BY <1>send DEF IsChunk
        <3> QED
            BY <1>n, <1>o, <1>p, <1>send, <3>1, <3>2, SendKeepsUpload
    <2> QED
        BY <1>all, <1>send, <2>1, <2>2
<1>close. ASSUME NEW i \in Ids, Send(<<Msg("TCP_CLOSE", i)>>), UNCHANGED <<home, sent>>, Callers
          PROVE  UploadsInv'
    <2>1. Msg("TCP_CLOSE", i) \in Message /\ Msg("TCP_CLOSE", i).type = "TCP_CLOSE"
        BY MessagesAreMessages DEF MessageType, Msg
    <2> DEFINE m == Msg("TCP_CLOSE", i)
    <2> HIDE DEF m
    <2>2. <<m>> \in Seq(Message) /\ \A k \in DOMAIN <<m>> : <<m>>[k].type # "TCP_DATA"
        BY <2>1 DEF m
    <2>3. Send(<<m>>)
        BY <1>close DEF m
    <2> QED
        BY <1>send, <1>close, <2>2, <2>3
<1>1. CASE Connect
    <2> DEFINE new == nextId
               m == Msg("TCP_CONNECT", new)
    <2>1. /\ new \in Ids /\ home[new] = 0
          /\ \A id \in Ids : home'[id] = IF id = new THEN sess ELSE home[id]
          /\ \A id \in Ids : call'[id] = IF id = new THEN "waiting" ELSE call[id]
          /\ UNCHANGED <<sent, writing>>
          /\ Send(<<m>>)
        BY <1>1 DEF Connect, TypeOK, ClientTypeOK, Ids, HomeInv, FreshIds
    <2>2. call[new] # "connected"
        BY <1>o, <2>1 DEF CallersAreRight
    <2>3. Callers
        BY <2>1, <2>2 DEF UploadsInv, NothingBeforeTheStream
    <2>4. m \in Message /\ m.type = "TCP_CONNECT"
        BY <2>1, MessagesAreMessages DEF MessageType, Msg
    <2> HIDE DEF m
    <2>5. <<m>> \in Seq(Message) /\ \A k \in DOMAIN <<m>> : <<m>>[k].type # "TCP_DATA"
        BY <2>4
    <2>6. Channels
        BY <2>1, <2>5, SendKeepsWrites DEF UploadsInv
    <2>7. ASSUME NEW id \in Ids, home'[id] # 0 PROVE UploadOf(id)'
        <3>1. CASE id = new
            BY <1>1, <1>o, <3>1, ConnectStartsUpload
        <3>2. CASE id # new
            <4>1. home'[id] = home[id] /\ home[id] # 0 /\ sent'[id] = sent[id]
                BY <2>1, <2>7, <3>2
            <4>2. PICK s \in Sessions : s = home[id] /\ s <= sess /\ UploadOf(id)
                BY <1>old, <4>1
            <4>3. \A k \in DOMAIN <<m>> : ~IsChunk(<<m>>[k], id)
                BY <2>5 DEF IsChunk
            <4> QED
                BY <1>n, <1>o, <1>p, <2>1, <2>5, <4>1, <4>2, <4>3, SendKeepsUpload
        <3> QED
            BY <3>1, <3>2
    <2>8. \A id \in Ids : home[id] # 0 => home'[id] = home[id]
        BY <2>1
    <2> QED
        BY <1>all, <2>3, <2>6, <2>7, <2>8
<1>2. ASSUME NEW i \in Ids, RequestTimeout(i) PROVE UploadsInv'
    <2>1. /\ Send(<<Msg("TCP_CLOSE", i)>>) /\ UNCHANGED <<home, sent, writing>>
          /\ \A id \in Ids : call[id] = "connected" => call'[id] = "connected"
        BY <1>2, <1>t DEF RequestTimeout
    <2> QED
        BY <1>callers, <1>close, <2>1
<1>3. ASSUME NEW i \in Ids, Cancel(i) PROVE UploadsInv'
    <2>1. Send(<<Msg("TCP_CLOSE", i)>>) /\ UNCHANGED <<home, sent, writing, call>>
        BY <1>3 DEF Cancel
    <2> QED
        BY <1>callers, <1>close, <2>1
<1>4. ASSUME NEW i \in Ids, Write(i) PROVE UploadsInv'
    <2> DEFINE m == DataMsg(i, sent[i] + 1)
    <2>1. /\ writing[i] /\ sent[i] < MaxChunks /\ Send(<<m>>)
          /\ UNCHANGED <<home, call, writing>>
          /\ \A id \in Ids : sent'[id] = IF id = i THEN sent[i] + 1 ELSE sent[id]
        BY <1>4, <1>t DEF Write
    <2>2. call[i] = "connected" /\ home[i] # 0
        BY <1>o, <2>1 DEF UploadsInv, NothingBeforeTheStream, CallersAreRight
    <2>3. sent[i] \in Nat /\ sent[i] + 1 # 0 /\ sent[i] + 1 \in 0 .. MaxChunks
        BY <1>t, <2>1, WireAssumption
    <2>4. m \in Message /\ m.id = i /\ m.type = "TCP_DATA"
        BY <2>3 DEF DataMsg, Message, MessageType
    <2> HIDE DEF m
    <2>5. <<m>> \in Seq(Message) /\ \A k \in DOMAIN <<m>> : <<m>>[k] = m
        BY <2>4
    <2>6. Callers
        BY <2>1, <2>2 DEF UploadsInv, NothingBeforeTheStream
    <2>7. Channels
        <3>1. \A id \in Ids : sent[id] # 0 => sent'[id] # 0
            BY <2>1, <2>3
        <3>2. \A k \in DOMAIN <<m>> : <<m>>[k].type = "TCP_DATA" => sent'[<<m>>[k].id] # 0
            BY <2>1, <2>3, <2>4, <2>5
        <3> QED
            BY <2>1, <2>5, <3>1, <3>2, SendKeepsWrites DEF UploadsInv
    <2>8. ASSUME NEW id \in Ids, home[id] # 0 PROVE UploadOf(id)'
        <3>1. PICK s \in Sessions : s = home[id] /\ s <= sess /\ UploadOf(id)
            BY <1>old, <2>8
        <3>2. CASE id = i
            BY <1>4, <1>n, <1>o, <3>1, <3>2, WriteKeepsUpload
        <3>3. CASE id # i
            <4>1. /\ home'[id] = home[id] /\ sent'[id] = sent[id]
                  /\ \A k \in DOMAIN <<m>> : ~IsChunk(<<m>>[k], id)
                BY <2>1, <2>4, <2>5, <3>3 DEF IsChunk
            <4> QED
                BY <1>n, <1>o, <1>p, <2>1, <2>5, <3>1, <4>1, SendKeepsUpload
        <3> QED
            BY <3>2, <3>3
    <2> QED
        BY <1>all, <2>1, <2>6, <2>7, <2>8
<1>5. ASSUME NEW i \in Ids, CloseWriter(i) PROVE UploadsInv'
    <2>1. /\ Send(<<Msg("TCP_CLOSE", i)>>) /\ UNCHANGED <<home, sent, call>>
          /\ \A id \in Ids : writing'[id] => writing[id]
        BY <1>5, <1>t DEF CloseWriter
    <2> QED
        BY <1>callers, <1>close, <2>1
<1>6. CASE Reap
    <2>0. PICK stale \in SUBSET pending :
              \E l \in Listing(stale) : Send([k \in DOMAIN l |-> Msg("TCP_CLOSE", l[k])])
        BY <1>6, <1>t DEF Reap
    <2>1. PICK l \in Listing(stale) : Send([k \in DOMAIN l |-> Msg("TCP_CLOSE", l[k])])
        BY <2>0
    <2>2. /\ UNCHANGED <<home, sent, writing>>
          /\ \A id \in Ids : call[id] = "connected" => call'[id] = "connected"
        BY <1>6 DEF Reap
    <2> DEFINE ms == [k \in DOMAIN l |-> Msg("TCP_CLOSE", l[k])]
    <2>3. /\ Cardinality(stale) \in Nat
          /\ l \in [1 .. Cardinality(stale) -> stale]
        BY FewerPending, FS_CardinalityType DEF Listing
    <2>4. ms \in Seq(Message)
        <3>1. \A k \in 1 .. Cardinality(stale) : Msg("TCP_CLOSE", l[k]) \in Message
            BY <2>3, <1>t, MessagesAreMessages DEF MessageType
        <3> QED
            BY <2>3, <3>1
    <2>5. \A k \in DOMAIN ms : ms[k].type # "TCP_DATA"
        BY DEF Msg
    <2> HIDE DEF ms
    <2>6. Send(ms)
        BY <2>1 DEF ms
    <2> QED
        BY <1>callers, <1>send, <2>2, <2>4, <2>5, <2>6
<1>7. CASE NoHandler
    <2>1. PICK m \in Message : m.id \in Ids /\ (Send(<<Msg("TCP_CLOSE", m.id)>>) \/ UNCHANGED <<queue, up>>)
        BY <1>7 DEF NoHandler, Message
    <2>2. UNCHANGED <<home, sent, writing, call>>
        BY <1>7 DEF NoHandler
    <2> QED
        BY <1>callers, <1>close, <1>quiet, <2>1, <2>2
<1>8. CASE ConnectAck
    <2>1. /\ UNCHANGED <<home, sent, up, queue>>
          /\ \A id \in Ids : call[id] = "connected" => call'[id] = "connected"
          /\ \A id \in Ids : writing'[id] => writing[id] \/ call'[id] = "connected"
        BY <1>8, <1>t DEF ConnectAck, Message
    <2> QED
        BY <1>callers, <1>quiet, <2>1
<1>9. CASE StreamData
    <2>1. UNCHANGED <<home, sent, up, queue, call, writing>>
        BY <1>9 DEF StreamData, EntryHasOpenReader
    <2> QED
        BY <1>callers, <1>quiet, <2>1
<1>10. CASE StreamClose
    <2>1. UNCHANGED <<home, sent, up, queue, call, writing>>
        BY <1>10 DEF StreamClose
    <2> QED
        BY <1>callers, <1>quiet, <2>1
<1>11. CASE StreamError
    <2>1. /\ UNCHANGED <<home, sent, up, queue, writing>>
          /\ \A id \in Ids : call[id] = "connected" => call'[id] = "connected"
        BY <1>11, <1>t DEF StreamError, Message
    <2> QED
        BY <1>callers, <1>quiet, <2>1
<1>off. ASSUME HandleDisconnect
        PROVE  /\ queue' = queue \/ queue' = <<>>
               /\ \A id \in Ids : call[id] = "connected" => call'[id] = "connected"
    BY <1>off DEF HandleDisconnect, RejectPending
<1>12. CASE ClientLinkClosed
    <2>1. UNCHANGED <<home, sent, up, writing>> /\ HandleDisconnect
        BY <1>12 DEF ClientLinkClosed
    <2> QED
        BY <1>callers, <1>off, <1>quiet, <2>1
<1>13. CASE HeartbeatTimeout
    <2>1. UNCHANGED <<home, sent, up, writing>> /\ HandleDisconnect
        BY <1>13 DEF HeartbeatTimeout
    <2> QED
        BY <1>callers, <1>off, <1>quiet, <2>1
<1>14. CASE CloseClient
    <2>1. /\ UNCHANGED <<home, sent, up, writing>> /\ queue' = <<>>
          /\ \A id \in Ids : call[id] = "connected" => call'[id] = "connected"
        BY <1>14 DEF CloseClient, RejectPending
    <2> QED
        BY <1>callers, <1>quiet, <2>1
<1> QED
    BY <1>1, <1>2, <1>3, <1>4, <1>5, <1>6, <1>7, <1>8, <1>9, <1>10, <1>11,
       <1>12, <1>13, <1>14 DEF ClientNext

\* The server takes a message: a chunk is written to the target of an entry.
LEMMA ReceiveKeepsUpload ==
    ASSUME TypeOK, HomeInv, OpenEnds', NEW id \in Ids, NEW s \in Sessions, s = home[id],
           UploadOf(id), s <= sess, Next,
           NEW m \in Message, Receive(s, m), home'[id] = home[id], sent'[id] = sent[id],
           id \in conns'[s] => id \in conns[s],
           \/ written'[s][id] = written[s][id] /\ (id \notin conns'[s] \/ ~IsChunk(m, id))
           \/ /\ id \in conns[s] /\ IsChunk(m, id)
              /\ written'[s][id] = Append(written[s][id], m.chunk)
    PROVE  UploadOf(id)'
<1> DEFINE r == written[s][id]
           ch == up[s]
           top == sent[id]
<1>1. LinkUp(s)' => LinkUp(s)
    BY LinkOnlyEnds
<1>2. /\ \A k \in DOMAIN r : r[k] = k
      /\ Len(r) <= top
      /\ id \in conns[s] => InFlight(ch, id, Len(r), top)
      /\ id \in conns[s] /\ LinkUp(s) => Reaches(ch, id, Len(r), top)
    BY DEF UploadOf, Delivery
<1>3. r \in Seq(0 .. MaxChunks) /\ Len(r) \in Nat /\ ch \in Seq(Message) /\ top \in Nat
    BY WireAssumption DEF TypeOK, WireTypeOK, ClientTypeOK, ProxyTypeOK
<1>4. ch # <<>> /\ m = Head(ch) /\ up'[s] = Tail(ch)
    BY DEF Receive, TypeOK, WireTypeOK
<1>5. CASE written'[s][id] = r /\ id \notin conns'[s]
    BY <1>2, <1>5 DEF UploadOf, Delivery
<1>6. CASE written'[s][id] = r /\ ~IsChunk(m, id)
    <2>1. /\ InFlight(ch, id, Len(r), top) => InFlight(Tail(ch), id, Len(r), top)
          /\ Reaches(ch, id, Len(r), top) => Reaches(Tail(ch), id, Len(r), top)
        BY <1>3, <1>4, <1>6, TailOther
    <2> QED
        BY <1>1, <1>2, <1>4, <1>6, <2>1 DEF UploadOf, Delivery
<1>7. CASE id \in conns[s] /\ IsChunk(m, id) /\ written'[s][id] = Append(r, m.chunk)
    <2>1. /\ m.chunk = Len(r) + 1
          /\ Len(r) + 1 <= top
          /\ InFlight(Tail(ch), id, Len(r) + 1, top)
          /\ Reaches(ch, id, Len(r), top) => Reaches(Tail(ch), id, Len(r) + 1, top)
        BY <1>2, <1>3, <1>4, <1>7, TailNext
    <2>2. /\ Len(written'[s][id]) = Len(r) + 1
          /\ \A k \in DOMAIN written'[s][id] : written'[s][id][k] = k
        <3>1. m.chunk \in 0 .. MaxChunks
            BY DEF Message
        <3>2. /\ DOMAIN Append(r, m.chunk) = 1 .. Len(r) + 1 /\ DOMAIN r = 1 .. Len(r)
              /\ Len(Append(r, m.chunk)) = Len(r) + 1
              /\ \A k \in 1 .. Len(r) : Append(r, m.chunk)[k] = r[k]
              /\ Append(r, m.chunk)[Len(r) + 1] = m.chunk
            BY <1>3, <3>1, AppendProperties
        <3>3. \A k \in 1 .. Len(r) + 1 : k \in 1 .. Len(r) \/ k = Len(r) + 1
            BY <1>3
        <3> QED
            BY <1>2, <1>7, <2>1, <3>2, <3>3
    <2> QED
        BY <1>1, <1>2, <1>4, <1>7, <2>1, <2>2 DEF UploadOf, Delivery
<1> QED
    BY <1>5, <1>6, <1>7

\* The end of a link, or of the transport: what was on its way is lost, and the
\* link is gone for good.
LEMMA LossKeepsUpload ==
    ASSUME TypeOK, NEW id \in Ids, NEW s \in Sessions, s = home[id], UploadOf(id),
           up'[s] = <<>>, ~sws'[s], home'[id] = home[id], sent'[id] = sent[id], UNCHANGED written
    PROVE  UploadOf(id)'
<1>1. /\ \A k \in DOMAIN written[s][id] : written[s][id][k] = k
      /\ Len(written[s][id]) <= sent[id]
    BY DEF UploadOf, Delivery
<1>2. InFlight(<<>>, id, Len(written[s][id]), sent[id])
    BY DEF InFlight
<1>3. ~LinkUp(s)'
    BY DEF LinkUp
<1> QED
    BY <1>1, <1>2, <1>3 DEF UploadOf, Delivery

\* The server writes what it receives, to the target of the call only, and
\* starts with nothing on its way.
LEMMA ProxyStepKeepsUploads ==
    ASSUME TypeOK, HomeInv, NewsInv, NewsInv', UploadsInv, ProxyNext, UNCHANGED clientVars
    PROVE  UploadsInv'
<1>n. Next
    BY DEF Next
<1>o. OpenEnds' /\ CallersAreRight
    BY DEF NewsInv
<1>c. UNCHANGED <<home, sent, call, writing, queue>>
    BY DEF clientVars
<1>t. /\ up \in [Sessions -> Seq(Message)] /\ sws \in [Sessions -> BOOLEAN]
      /\ conns \in [Sessions -> SUBSET Ids] /\ task \in [Sessions -> [Ids -> TaskState]]
      /\ written \in [Sessions -> [Ids -> Seq(0 .. MaxChunks)]]
    BY DEF TypeOK, WireTypeOK, ProxyTypeOK
<1>1. PICK z \in Sessions :
          \/ HandleConnect(z) \/ HandleData(z) \/ HandleClose(z)
          \/ ServerLinkClosed(z) \/ ServerHeartbeatTimeout(z) \/ CloseTransport(z)
          \/ \E id \in Ids :
                \/ ConnectDone(z, id) \/ LateConnect(z, id)
                \/ ReadChunk(z, id) \/ SendChunk(z, id) \/ PipeEnd(z, id)
                \/ WriteFails(z, id)
    BY DEF ProxyNext
<1>old. ASSUME NEW id \in Ids, home[id] # 0
        PROVE  home[id] \in Sessions /\ home[id] <= sess /\ UploadOf(id)
    BY <1>old, HomeIsSession DEF UploadsInv
<1>all. ASSUME \A s \in Sessions : \A k \in DOMAIN up'[s] :
                  \E j \in DOMAIN up[s] : up'[s][k] = up[s][j],
               \A s \in Sessions, id \in Ids :
                  written'[s][id] # <<>> => written[s][id] # <<>> \/ home[id] = s,
               \A id \in Ids, s \in Sessions :
                  s = home[id] /\ s <= sess /\ UploadOf(id) => UploadOf(id)'
        PROVE  UploadsInv'
    <2>1. NothingBeforeTheStream'
        <3>1. \A s \in Sessions : \A k \in DOMAIN up'[s] :
                  up'[s][k].type = "TCP_DATA" => sent[up'[s][k].id] # 0
            BY <1>all DEF UploadsInv, NothingBeforeTheStream
        <3>2. /\ \A id \in Ids : call[id] # "connected" => ~writing[id] /\ sent[id] = 0
              /\ \A k \in DOMAIN queue : queue[k].type = "TCP_DATA" => sent[queue[k].id] # 0
            BY DEF UploadsInv, NothingBeforeTheStream
        <3> QED
            BY <1>c, <3>1, <3>2 DEF NothingBeforeTheStream
    <2>2. WritesAreAtHome'
        BY <1>all, <1>c DEF UploadsInv, WritesAreAtHome
    <2>3. \A id \in Ids : home[id] # 0 => UploadOf(id)'
        BY <1>all, <1>old
    <2> QED
        BY <1>c, <2>1, <2>2, <2>3 DEF UploadsInv
\* Nothing is received or lost.
<1>still. ASSUME UNCHANGED <<up, written>>, \A s \in Sessions : conns'[s] \subseteq conns[s]
          PROVE  UploadsInv'
    <2>1. ASSUME NEW id \in Ids, NEW s \in Sessions, s = home[id], s <= sess, UploadOf(id)
          PROVE  UploadOf(id)'
        BY <1>c, <1>n, <1>o, <1>still, <2>1, UploadIsLeftAlone
    <2> QED
        BY <1>all, <1>still, <2>1
<1>close. ASSUME NEW id \in Ids, Close(z, id)
          PROVE  \A s \in Sessions : conns'[s] \subseteq conns[s]
    BY <1>close, <1>t DEF Close
\* A message is received, and written to a target if it is a chunk of a connection.
<1>take. ASSUME NEW m \in Message, Receive(z, m),
                \A s \in Sessions : conns'[s] \subseteq conns[s],
                \/ m.type # "TCP_DATA" /\ UNCHANGED written
                \/ /\ m.type = "TCP_DATA" /\ UNCHANGED conns
                   /\ written' = IF m.id \in conns[z]
                                 THEN [written EXCEPT ![z][m.id] = Append(@, m.chunk)]
                                 ELSE written
         PROVE  UploadsInv'
    <2>1. /\ up[z] # <<>> /\ m = Head(up[z]) /\ m.id \in Ids
          /\ \A s \in Sessions : up'[s] = IF s = z THEN Tail(up[z]) ELSE up[s]
        BY <1>t, <1>take DEF Receive, Message
    <2>2. ASSUME NEW s \in Sessions, NEW k \in DOMAIN up'[s]
          PROVE  \E j \in DOMAIN up[s] : up'[s][k] = up[s][j]
        <3>1. CASE s = z
            <4>1. \A i \in DOMAIN Tail(up[z]) :
                      i + 1 \in DOMAIN up[z] /\ Tail(up[z])[i] = up[z][i + 1]
                BY <1>t, <2>1, TailElements
            <4>2. up'[s] = Tail(up[z])
                BY <2>1, <3>1
            <4> QED
                BY <3>1, <4>1, <4>2
        <3>2. CASE s # z
            BY <2>1, <3>2
        <3> QED
            BY <3>1, <3>2
    <2>3. \A s \in Sessions, id \in Ids :
              \/ written'[s][id] = written[s][id] /\ (s # z \/ id \notin conns[z] \/ ~IsChunk(m, id))
              \/ /\ s = z /\ id \in conns[z] /\ IsChunk(m, id)
                 /\ written'[s][id] = Append(written[s][id], m.chunk)
        BY <1>t, <1>take, <2>1 DEF IsChunk
    <2>4. \A s \in Sessions, id \in Ids :
              written'[s][id] # <<>> => written[s][id] # <<>> \/ home[id] = s
        BY <2>3 DEF HomeInv, WorkIsAtHome
    <2>5. ASSUME NEW id \in Ids, NEW s \in Sessions, s = home[id], s <= sess, UploadOf(id)
          PROVE  UploadOf(id)'
        <3>1. CASE s = z
            <4>1. id \in conns'[s] => id \in conns[s]
                BY <1>take
            <4> QED
                BY <1>c, <1>n, <1>o, <1>take, <2>3, <2>5, <3>1, <4>1, ReceiveKeepsUpload
        <3>2. CASE s # z
            <4>1. written'[s][id] = written[s][id] /\ up'[s] = up[s]
                BY <2>1, <2>3, <3>2
            <4> QED
                BY <1>c, <1>n, <1>o, <1>take, <2>5, <4>1, UploadIsLeftAlone
        <3> QED
            BY <3>1, <3>2
    <2> QED
        BY <1>all, <2>2, <2>4, <2>5
\* The link of z ends, and what was on its way is lost.
<1>loss. ASSUME up' = [up EXCEPT ![z] = <<>>], sws' = [sws EXCEPT ![z] = FALSE], UNCHANGED written,
                \A s \in Sessions : conns'[s] \subseteq conns[s]
         PROVE  UploadsInv'
    <2>1. /\ up'[z] = <<>> /\ ~sws'[z]
          /\ \A s \in Sessions \ {z} : up'[s] = up[s]
        BY <1>loss, <1>t
    <2>2. ASSUME NEW s \in Sessions, NEW k \in DOMAIN up'[s]
          PROVE  \E j \in DOMAIN up[s] : up'[s][k] = up[s][j]
        BY <2>1
    <2>3. ASSUME NEW id \in Ids, NEW s \in Sessions, s = home[id], s <= sess, UploadOf(id)
          PROVE  UploadOf(id)'
        <3>1. CASE s = z
            BY <1>c, <1>loss, <2>1, <2>3, <3>1, LossKeepsUpload
        <3>2. CASE s # z
            BY <1>c, <1>loss, <1>n, <1>o, <2>1, <2>3, <3>2, UploadIsLeftAlone
        <3> QED
            BY <3>1, <3>2
    <2> QED
        BY <1>all, <1>loss, <2>2, <2>3
<1>2. CASE HandleConnect(z)
    BY <1>2, <1>take DEF HandleConnect
<1>3. CASE HandleData(z)
    BY <1>3, <1>take DEF HandleData
<1>4. CASE HandleClose(z)
    <2>1. PICK m \in Message :
              Receive(z, m) /\ m.type = "TCP_CLOSE" /\ Close(z, m.id) /\ UNCHANGED written
        BY <1>4 DEF HandleClose
    <2>2. m.id \in Ids
        BY DEF Message
    <2> QED
        BY <1>close, <1>take, <2>1, <2>2
<1>5. CASE ServerLinkClosed(z)
    BY <1>5, <1>loss DEF ServerLinkClosed, LinkLost
<1>6. CASE ServerHeartbeatTimeout(z)
    BY <1>6, <1>still DEF ServerHeartbeatTimeout, HeartbeatLost
<1>7. CASE CloseTransport(z)
    BY <1>7, <1>loss, <1>t DEF CloseTransport, EndTransport
<1>8. ASSUME NEW i \in Ids, ConnectOk(z, i) PROVE UploadsInv'
    <2>1. /\ task[z][i] = "connecting" /\ UNCHANGED <<up, written>>
          /\ conns' = [conns EXCEPT ![z] = @ \cup {i}]
        BY <1>8 DEF ConnectOk
    <2>2. \A s \in Sessions, id \in Ids : id \in conns'[s] => id \in conns[s] \/ (s = z /\ id = i)
        BY <1>t, <2>1
    <2>3. sent[i] = 0
        <3>1. home[i] = z
            BY <2>1 DEF HomeInv, WorkIsAtHome
        <3>2. call[i] # "connected"
            BY <1>o, <2>1, <3>1 DEF CallersAreRight, Succeeded
        <3> QED
            BY <3>2 DEF UploadsInv, NothingBeforeTheStream
    <2>4. ASSUME NEW id \in Ids, NEW s \in Sessions, s = home[id], s <= sess, UploadOf(id)
          PROVE  UploadOf(id)'
        <3>1. CASE s = z /\ id = i
            <4> DEFINE r == written[s][id]
            <4>1. \A k \in DOMAIN up[s] : ~IsChunk(up[s][k], id)
                BY <2>3, <3>1 DEF UploadsInv, NothingBeforeTheStream, IsChunk
            <4>2. Len(r) = 0 /\ \A k \in DOMAIN r : r[k] = k
                <5>1. Len(r) \in Nat /\ Len(r) <= sent[id] /\ \A k \in DOMAIN r : r[k] = k
                    BY <1>t, <2>4 DEF UploadOf, Delivery
                <5> QED
                    BY <2>3, <3>1, <5>1
            <4>3. InFlight(up[s], id, 0, 0) /\ Reaches(up[s], id, 0, 0)
                BY <4>1 DEF InFlight, Reaches
            <4> QED
                BY <1>c, <2>1, <2>3, <2>4, <3>1, <4>2, <4>3 DEF UploadOf, Delivery
        <3>2. CASE ~(s = z /\ id = i)
            BY <1>c, <1>n, <1>o, <2>1, <2>2, <2>4, <3>2, UploadIsLeftAlone
        <3> QED
            BY <3>1, <3>2
    <2> QED
        BY <1>all, <2>1, <2>4
<1>9. ASSUME NEW i \in Ids,
             ConnectFail(z, i) \/ ConnectTimeout(z, i) \/ LateConnect(z, i) \/ ReadChunk(z, i)
                 \/ SendChunk(z, i)
      PROVE  UploadsInv'
    BY <1>9, <1>still DEF ConnectFail, ConnectTimeout, LateConnect, ReadChunk, SendChunk
<1>10. ASSUME NEW i \in Ids, PipeEnd(z, i) \/ WriteFails(z, i) PROVE UploadsInv'
    <2>1. Close(z, i) /\ UNCHANGED <<up, written>>
        BY <1>10 DEF PipeEnd, WriteFails
    <2> QED
        BY <1>close, <1>still, <2>1
<1> QED
    BY <1>1, <1>2, <1>3, <1>4, <1>5, <1>6, <1>7, <1>8, <1>9, <1>10 DEF ConnectDone

\* The queue goes out on a session no call has been made in yet.
LEMMA NewSessionKeepsUploads ==
    ASSUME TypeOK, HomeInv, NewsInv', UploadsInv, NewSession
    PROVE  UploadsInv'
<1>1. /\ sess + 1 \in Sessions /\ up \in [Sessions -> Seq(Message)]
      /\ up' = [up EXCEPT ![sess + 1] = queue] /\ queue' = <<>>
      /\ UNCHANGED <<home, sent, call, writing, conns, written>>
    BY WireAssumption
    DEF NewSession, Assign, FlushQueue, Accept, AssignSocket, TypeOK, WireTypeOK, Sessions
<1>2. \A s \in Sessions : up'[s] = IF s = sess + 1 THEN queue ELSE up[s]
    BY <1>1
<1>3. NothingBeforeTheStream'
    BY <1>1, <1>2 DEF UploadsInv, NothingBeforeTheStream
<1>4. WritesAreAtHome'
    BY <1>1 DEF UploadsInv, WritesAreAtHome
<1>5. ASSUME NEW id \in Ids, home[id] # 0 PROVE UploadOf(id)'
    <2>1. PICK s \in Sessions : s = home[id] /\ s <= sess /\ sess \in Nat /\ UploadOf(id)
        BY <1>5, HomeIsSession DEF UploadsInv
    <2>2. up'[s] = up[s]
        BY <1>2, <2>1 DEF Sessions
    <2> QED
        BY <1>1, <2>1, <2>2, UploadIsLeftAlone DEF Next, NewsInv
<1> QED
    BY <1>1, <1>3, <1>4, <1>5 DEF UploadsInv

LEMMA UploadsAreKept == Spec => []UploadsInv
<1>1. Init => UploadsInv
    BY DEF Init, WireInit, ClientInit, ProxyInit, UploadsInv, NothingBeforeTheStream, WritesAreAtHome
<1>2. /\ TypeOK /\ HomeInv /\ WaitingIsTimed /\ EntryHasOpenReader /\ NewsInv /\ NewsInv'
      /\ UploadsInv /\ [Next]_vars
      => UploadsInv'
    <2> SUFFICES ASSUME TypeOK, HomeInv, WaitingIsTimed, EntryHasOpenReader, NewsInv, NewsInv',
                        UploadsInv, [Next]_vars
                 PROVE  UploadsInv'
        OBVIOUS
    <2>1. CASE UNCHANGED vars
        BY <2>1 DEF vars, wireVars, clientVars, proxyVars, UploadsInv, NothingBeforeTheStream,
                    WritesAreAtHome, UploadOf, LinkUp
    <2> QED
        BY <2>1, ClientStepKeepsUploads, ProxyStepKeepsUploads, NewSessionKeepsUploads DEF Next
<1> QED
    BY <1>1, <1>2, TypesAreCorrect, CallsStayHome, CallsAreKept, EntriesAreOpen, NewsAreKept,
       PTL DEF Spec

\* What a target is written is a prefix of what the caller of its stream wrote,
\* in order and without gaps, and no other call's target gets any of it: also
\* when send() queues while the WebSocket is down and flushes into a new session.
THEOREM UploadsAreInOrder == Spec => []UploadInOrder
<1>1. TypeOK /\ HomeInv /\ UploadsInv => UploadInOrder
    <2> SUFFICES ASSUME TypeOK, HomeInv, UploadsInv, NEW id \in Ids, NEW s \in Sessions,
                        written[s][id] # <<>>
                 PROVE  /\ s = home[id]
                        /\ Len(written[s][id]) <= sent[id]
                        /\ \A k \in DOMAIN written[s][id] : written[s][id][k] = k
        BY DEF UploadInOrder
    <2>1. s = home[id] /\ s # 0
        BY WireAssumption DEF UploadsInv, WritesAreAtHome, Sessions
    <2> QED
        BY <2>1 DEF UploadsInv, UploadOf, Delivery
<1> QED
    BY <1>1, TypesAreCorrect, CallsStayHome, UploadsAreKept, PTL

-----------------------------------------------------------------------------
(* A caller knows of its stream before it is given data                    *)

LEMMA AckFirstAppend ==
    ASSUME NEW ch \in Seq(Message), NEW m \in Message, NEW id \in Ids, AckFirst(ch, id),
           ~IsChunk(m, id) \/ Carries(ch, "TCP_CONNECT_ACK", id)
    PROVE  AckFirst(Append(ch, m), id)
<1> DEFINE new == Append(ch, m)
           n == Len(ch) + 1
<1>1. /\ DOMAIN new = DOMAIN ch \cup {n}
      /\ \A k \in DOMAIN ch : new[k] = ch[k] /\ k < n
      /\ new[n] = m
    BY AppendElements
<1> HIDE DEF new, n
<1>2. AckFirst(new, id)
    BY <1>1 DEF AckFirst, Carries
<1> QED
    BY <1>2 DEF new

LEMMA AckFirstTail ==
    ASSUME NEW ch \in Seq(Message), ch # <<>>, NEW id \in Ids, AckFirst(ch, id)
    PROVE  /\ ~IsChunk(Head(ch), id)
           /\ Head(ch).type # "TCP_CONNECT_ACK" \/ Head(ch).id # id => AckFirst(Tail(ch), id)
<1> DEFINE new == Tail(ch)
<1>1. /\ Head(ch) = ch[1] /\ 1 \in DOMAIN ch /\ \A k \in DOMAIN ch : k \in Nat /\ k >= 1
      /\ \A k \in DOMAIN new : k + 1 \in DOMAIN ch /\ new[k] = ch[k + 1] /\ k \in Nat
    BY TailElements
<1>2. \A k \in DOMAIN ch : k # 1 => k - 1 \in DOMAIN new /\ new[k - 1] = ch[k]
    <2>1. DOMAIN ch = 1 .. Len(ch) /\ DOMAIN new = 1 .. Len(ch) - 1 /\ Len(ch) \in Nat
        BY HeadTailProperties
    <2> QED
        BY <1>1, <2>1
<1> HIDE DEF new
<1>3. ~IsChunk(ch[1], id)
    BY <1>1 DEF AckFirst
<1>4. ASSUME ch[1].type # "TCP_CONNECT_ACK" \/ ch[1].id # id PROVE AckFirst(new, id)
    <2> SUFFICES ASSUME NEW k \in DOMAIN new, IsChunk(new[k], id)
                 PROVE  \E j \in DOMAIN new :
                            j < k /\ new[j].type = "TCP_CONNECT_ACK" /\ new[j].id = id
        BY DEF AckFirst
    <2>1. PICK j \in DOMAIN ch : j < k + 1 /\ ch[j].type = "TCP_CONNECT_ACK" /\ ch[j].id = id
        BY <1>1 DEF AckFirst
    <2>2. j # 1 /\ j - 1 \in DOMAIN new /\ new[j - 1] = ch[j] /\ j - 1 < k
        BY <1>1, <1>2, <1>4, <2>1
    <2> QED
        BY <2>1, <2>2
<1> QED
    BY <1>1, <1>3, <1>4 DEF new

LEMMA ClientStepKeepsStreams ==
    ASSUME TypeOK, HomeInv, WaitingIsTimed, EntryHasOpenReader, StreamsInv, ClientNext
    PROVE  StreamsInv'
<1> USE DEF StreamsInv
<1>t. /\ call \in [Ids -> CallState] /\ reader \in [Ids -> ReaderState] /\ pending \subseteq Ids
      /\ home \in [Ids -> 0 .. MaxSessions] /\ down \in [Sessions -> Seq(Message)]
    BY DEF TypeOK, WireTypeOK, ClientTypeOK
<1>h. \A id \in pending : home[id] \in Sessions
    BY <1>t, WireAssumption DEF HomeInv, FreshIds, Sessions
<1> DEFINE Waits(id) == id \in pending' /\ call'[id] = "waiting"
           Waited(id) == id \in pending /\ call[id] = "waiting"
\* No one waits anew, and nobody's stream is taken away.
<1>all. ASSUME UNCHANGED home, pending' \subseteq pending,
               \A id \in Ids : Waits(id) => Waited(id),
               \A id \in Ids : /\ call'[id] = "none" <=> call[id] = "none"
                               /\ reader[id] # "none" => reader'[id] # "none"
                               /\ call'[id] = "failed" => call[id] = "failed" \/ id \notin pending',
               \A id \in Ids : Waits(id) => AckFirst(down'[home[id]], id)
        PROVE  StreamsInv'
    <2>1. AckComesFirst'
        BY <1>all, <1>t DEF AckComesFirst
    <2>2. CallsHaveStreams'
        BY <1>all DEF CallsHaveStreams
    <2> QED
        BY <2>1, <2>2
<1>old. \A id \in Ids : Waited(id) => AckFirst(down[home[id]], id)
    BY DEF AckComesFirst
<1>lost. ASSUME sess \in Sessions, down' = [down EXCEPT ![sess] = <<>>],
                NEW id \in Ids, Waited(id)
         PROVE  AckFirst(down'[home[id]], id)
    <2>1. CASE home[id] = sess
        <3>1. down'[home[id]] = <<>>
            BY <1>lost, <1>t, <2>1
        <3> QED
            BY <3>1 DEF AckFirst
    <2>2. CASE home[id] # sess
        <3>1. down'[home[id]] = down[home[id]]
            BY <1>h, <1>lost, <1>t, <2>2
        <3> QED
            BY <1>lost, <1>old, <3>1
    <2> QED
        BY <2>1, <2>2
<1>take. ASSUME NEW m \in Message, Take(m), NEW id \in Ids, Waited(id),
                m.type # "TCP_CONNECT_ACK" \/ m.id # id
         PROVE  AckFirst(down'[home[id]], id)
    <2>1. /\ sess \in Sessions /\ down[sess] # <<>> /\ m = Head(down[sess])
          /\ down' = [down EXCEPT ![sess] = Tail(@)]
        BY <1>take, TakeIsTyped DEF Take
    <2>2. CASE home[id] = sess
        <3>1. down'[home[id]] = Tail(down[sess]) /\ down[sess] \in Seq(Message)
            BY <1>t, <2>1, <2>2
        <3> QED
            BY <1>old, <1>take, <2>1, <2>2, <3>1, AckFirstTail
    <2>3. CASE home[id] # sess
        <3>1. down'[home[id]] = down[home[id]]
            BY <1>h, <1>t, <1>take, <2>1, <2>3
        <3> QED
            BY <1>old, <1>take, <3>1
    <2> QED
        BY <2>2, <2>3
<1>1. CASE Connect
    <2> DEFINE new == nextId
    <2>1. /\ new \in Ids /\ home[new] = 0 /\ sess \in Sessions /\ sess # 0
        BY <1>1, WireAssumption
        DEF Connect, TypeOK, WireTypeOK, ClientTypeOK, Ids, Sessions, HomeInv, FreshIds
    <2>2. /\ UNCHANGED down /\ pending' = pending \cup {new}
          /\ \A id \in Ids : home'[id] = IF id = new THEN sess ELSE home[id]
          /\ \A id \in Ids : call'[id] = IF id = new THEN "waiting" ELSE call[id]
          /\ \A id \in Ids : reader'[id] = IF id = new THEN "open" ELSE reader[id]
        BY <1>1, <1>t, <2>1 DEF Connect
    <2>3. AckFirst(down[sess], new)
        <3>1. \A k \in DOMAIN down[sess] : down[sess][k].id # new
            BY <2>1 DEF HomeInv, RepliesAreAtHome
        <3> QED
            BY <3>1 DEF AckFirst, IsChunk
    <2> HIDE DEF new
    <2>4. AckComesFirst'
        BY <2>1, <2>2, <2>3, <1>t DEF AckComesFirst
    <2>5. CallsHaveStreams'
        BY <2>1, <2>2 DEF CallsHaveStreams
    <2> QED
        BY <2>4, <2>5
<1>2. ASSUME NEW i \in Ids, RequestTimeout(i) PROVE StreamsInv'
    <2>1. /\ UNCHANGED <<home, reader, down>> /\ pending' = pending \ {i} /\ i \in timer
          /\ call' = [call EXCEPT ![i] = IF @ = "waiting" THEN "failed" ELSE @]
        BY <1>2 DEF RequestTimeout
    <2> QED
        BY <1>all, <1>old, <1>t, <2>1
<1>3. ASSUME NEW i \in Ids, Cancel(i) PROVE StreamsInv'
    <2>1. /\ UNCHANGED <<home, call, down>> /\ pending' = pending \ {i}
          /\ reader' = [reader EXCEPT ![i] = "cancelled"]
        BY <1>3 DEF Cancel
    <2> QED
        BY <1>all, <1>old, <1>t, <2>1
<1>4. ASSUME NEW i \in Ids, Write(i) \/ CloseWriter(i) PROVE StreamsInv'
    <2>1. UNCHANGED <<home, call, reader, pending, down>>
        BY <1>4 DEF Write, CloseWriter
    <2> QED
        BY <1>all, <1>old, <2>1
<1>5. CASE Reap
    <2>1. /\ UNCHANGED <<home, reader, down>> /\ pending' \subseteq pending
          /\ \A id \in Ids : call'[id] = call[id] \/ (/\ call[id] = "waiting" /\ call'[id] = "failed"
                                                      /\ id \notin pending')
        BY <1>5 DEF Reap
    <2> QED
        BY <1>all, <1>old, <2>1
<1>6. CASE NoHandler
    <2>1. PICK m \in Message : Take(m) /\ m.id \notin pending
        BY <1>6 DEF NoHandler
    <2>2. UNCHANGED <<home, call, reader, pending>>
        BY <1>6 DEF NoHandler
    <2> QED
        BY <1>all, <1>take, <2>1, <2>2
<1>7. CASE ConnectAck
    <2>1. PICK m \in Message :
              /\ Take(m) /\ m.type = "TCP_CONNECT_ACK" /\ m.id \in pending
              /\ IF call[m.id] = "waiting" THEN call' = [call EXCEPT ![m.id] = "connected"]
                                           ELSE UNCHANGED call
        BY <1>7 DEF ConnectAck
    <2>2. UNCHANGED <<home, reader, pending>>
        BY <1>7 DEF ConnectAck
    <2>3. /\ call'[m.id] # "waiting"
          /\ \A id \in Ids : call'[id] = call[id] \/ (call[id] = "waiting" /\ call'[id] = "connected")
        BY <1>t, <2>1
    <2> QED
        BY <1>all, <1>take, <2>1, <2>2, <2>3
<1>8. CASE StreamData
    <2>1. PICK m \in Message : Take(m) /\ m.type = "TCP_DATA"
        BY <1>8 DEF StreamData
    <2>2. UNCHANGED <<home, call, reader>> /\ pending' \subseteq pending
        BY <1>8 DEF StreamData
    <2> QED
        BY <1>all, <1>take, <2>1, <2>2
<1>9. CASE StreamClose
    <2>1. PICK m \in Message :
              /\ Take(m) /\ m.type = "TCP_CLOSE" /\ m.id \in pending
              /\ reader' = [reader EXCEPT ![m.id] = IF @ = "open" THEN "closed" ELSE @]
        BY <1>9 DEF StreamClose
    <2>2. UNCHANGED <<home, call>> /\ pending' \subseteq pending
        BY <1>9 DEF StreamClose
    <2> QED
        BY <1>all, <1>t, <1>take, <2>1, <2>2
<1>10. CASE StreamError
    <2>1. PICK m \in Message :
              /\ Take(m) /\ m.type = "ERROR" /\ m.id \in pending
              /\ reader' = [reader EXCEPT ![m.id] = IF @ = "open" THEN "errored" ELSE @]
              /\ call' = [call EXCEPT ![m.id] = IF @ = "waiting" THEN "failed" ELSE @]
              /\ pending' = pending \ {m.id}
        BY <1>10 DEF StreamError
    <2>2. UNCHANGED home
        BY <1>10 DEF StreamError
    <2> QED
        BY <1>all, <1>t, <1>take, <2>1, <2>2
<1>off. ASSUME HandleDisconnect
        PROVE  /\ pending' \subseteq pending
               /\ \A id \in Ids : call'[id] = call[id] \/ (/\ call[id] = "waiting" /\ call'[id] = "failed"
                                                           /\ id \notin pending')
               /\ \A id \in Ids : reader[id] # "none" => reader'[id] # "none"
    BY <1>off DEF HandleDisconnect, RejectPending
<1>11. CASE ClientLinkClosed
    <2>1. /\ UNCHANGED home /\ HandleDisconnect /\ down' = [down EXCEPT ![sess] = <<>>]
          /\ sess \in Sessions
        BY <1>11, WireAssumption DEF ClientLinkClosed, TypeOK, WireTypeOK, Sessions
    <2> QED
        BY <1>all, <1>lost, <1>off, <2>1
<1>12. CASE HeartbeatTimeout
    <2>1. UNCHANGED <<home, down>> /\ HandleDisconnect
        BY <1>12 DEF HeartbeatTimeout
    <2> QED
        BY <1>all, <1>off, <1>old, <2>1
<1>13. CASE CloseClient
    <2>1. /\ UNCHANGED <<home, reader>> /\ pending' = {}
          /\ \A id \in Ids : call'[id] = call[id] \/ (call[id] = "waiting" /\ call'[id] = "failed")
        BY <1>13 DEF CloseClient, RejectPending
    <2> QED
        BY <1>all, <2>1
<1> QED
    BY <1>1, <1>2, <1>3, <1>4, <1>5, <1>6, <1>7, <1>8, <1>9, <1>10, <1>11, <1>12, <1>13
    DEF ClientNext

\* The server sends chunks only where it has sent the ACK before, or it has been
\* lost together with the link.
LEMMA ProxyStepKeepsStreams ==
    ASSUME TypeOK, HomeInv, NewsInv, StreamsInv, ProxyNext, UNCHANGED clientVars
    PROVE  StreamsInv'
<1>t. /\ down \in [Sessions -> Seq(Message)] /\ produced \in [Sessions -> [Ids -> 0 .. MaxChunks]]
      /\ pending \subseteq Ids
    BY DEF TypeOK, WireTypeOK, ClientTypeOK, ProxyTypeOK
<1>c. UNCHANGED <<home, pending, call, reader>>
    BY DEF clientVars
<1>1. PICK z \in Sessions :
          \/ HandleConnect(z) \/ HandleData(z) \/ HandleClose(z)
          \/ ServerLinkClosed(z) \/ ServerHeartbeatTimeout(z) \/ CloseTransport(z)
          \/ \E id \in Ids :
                \/ ConnectDone(z, id) \/ LateConnect(z, id)
                \/ ReadChunk(z, id) \/ SendChunk(z, id) \/ PipeEnd(z, id)
                \/ WriteFails(z, id)
    BY DEF ProxyNext
<1>all. ASSUME \A id \in pending : call[id] = "waiting" => AckFirst(down'[home[id]], id)
        PROVE  StreamsInv'
    BY <1>all, <1>c DEF StreamsInv, AckComesFirst, CallsHaveStreams
<1>quiet. ASSUME UNCHANGED down PROVE StreamsInv'
    BY <1>all, <1>quiet DEF StreamsInv, AckComesFirst
<1>reply. ASSUME NEW m \in Message, Reply(z, m),
                 m.type = "TCP_DATA" /\ LinkUp(z) /\ m.id \in pending /\ call[m.id] = "waiting" =>
                     Carries(down[z], "TCP_CONNECT_ACK", m.id)
          PROVE  StreamsInv'
    <2>1. CASE UNCHANGED down
        BY <1>quiet, <2>1
    <2>2. CASE LinkUp(z) /\ down' = [down EXCEPT ![z] = Append(@, m)]
        <3> SUFFICES ASSUME NEW id \in pending, call[id] = "waiting"
                     PROVE  AckFirst(down'[home[id]], id)
            BY <1>all
        <3>1. AckFirst(down[home[id]], id) /\ id \in Ids
            BY <1>t DEF StreamsInv, AckComesFirst
        <3>2. CASE home[id] = z
            <4>1. down'[home[id]] = Append(down[z], m) /\ down[z] \in Seq(Message)
                BY <1>t, <2>2, <3>2
            <4>2. ~IsChunk(m, id) \/ Carries(down[z], "TCP_CONNECT_ACK", id)
                BY <1>reply, <2>2 DEF IsChunk
            <4> QED
                BY <3>1, <3>2, <4>1, <4>2, AckFirstAppend
        <3>3. CASE home[id] # z
            <4>1. home[id] \in Sessions
                BY WireAssumption, <3>1 DEF TypeOK, ClientTypeOK, HomeInv, FreshIds, Sessions
            <4>2. down'[home[id]] = down[home[id]]
                BY <1>t, <2>2, <3>3, <4>1
            <4> QED
                BY <3>1, <4>2
        <3> QED
            BY <3>2, <3>3
    <2> QED
        BY <1>reply, <2>1, <2>2 DEF Reply
<1>says. ASSUME NEW i \in Ids, NEW t \in MessageType \ {"TCP_DATA"}, Reply(z, Msg(t, i))
         PROVE  StreamsInv'
    <2>1. Msg(t, i) \in Message /\ Msg(t, i).type # "TCP_DATA"
        BY MessagesAreMessages DEF Msg
    <2> QED
        BY <1>reply, <1>says, <2>1
<1>close. ASSUME NEW i \in Ids, Close(z, i) PROVE StreamsInv'
    BY <1>close, <1>quiet, <1>says DEF Close, MessageType
<1>2. CASE \/ HandleConnect(z) \/ HandleData(z) \/ ServerLinkClosed(z)
           \/ ServerHeartbeatTimeout(z) \/ CloseTransport(z)
    BY <1>2, <1>quiet DEF HandleConnect, HandleData, ServerLinkClosed, LinkLost,
                          ServerHeartbeatTimeout, HeartbeatLost, CloseTransport, EndTransport
<1>3. CASE HandleClose(z)
    BY <1>3, <1>close DEF HandleClose, Message
<1>4. ASSUME NEW i \in Ids, ConnectDone(z, i) PROVE StreamsInv'
    BY <1>4, <1>says DEF ConnectDone, ConnectOk, ConnectFail, ConnectTimeout, MessageType
<1>5. ASSUME NEW i \in Ids, LateConnect(z, i) \/ ReadChunk(z, i) PROVE StreamsInv'
    BY <1>5, <1>quiet DEF LateConnect, ReadChunk
<1>6. ASSUME NEW i \in Ids, SendChunk(z, i) PROVE StreamsInv'
    <2> DEFINE m == DataMsg(i, produced[z][i])
    <2>1. m \in Message /\ m.id = i
        BY <1>t DEF DataMsg, Message, MessageType
    <2>2. Reply(z, m) /\ task[z][i] = "holding"
        BY <1>6 DEF SendChunk
    <2>3. home[i] = z
        BY <2>2 DEF HomeInv, WorkIsAtHome
    <2>4. i \in pending /\ call[i] = "waiting" /\ LinkUp(z) => Carries(down[z], "TCP_CONNECT_ACK", i)
        <3> SUFFICES ASSUME i \in pending, call[i] = "waiting", LinkUp(z)
                     PROVE  Carries(down[z], "TCP_CONNECT_ACK", i)
            OBVIOUS
        <3>1. sess = z /\ Live(i)
            BY <2>3 DEF LinkUp, Live
        <3>2. ~Carries(up[z], "TCP_CONNECT", i)
            BY <2>2 DEF HomeInv, RequestsAreFresh, Carries
        <3>3. ~Carries(down[z], "ERROR", i)
            BY <2>2 DEF NewsInv, NewsAreTrue, Rejected
        <3> QED
            BY <2>2, <3>1, <3>2, <3>3 DEF NewsInv, WaitingIsServed
    <2> HIDE DEF m
    <2> QED
        BY <1>reply, <2>1, <2>2, <2>4
<1>7. ASSUME NEW i \in Ids, PipeEnd(z, i) \/ WriteFails(z, i) PROVE StreamsInv'
    BY <1>7, <1>close DEF PipeEnd, WriteFails
<1> QED
    BY <1>1, <1>2, <1>3, <1>4, <1>5, <1>6, <1>7

LEMMA StreamsAreKept == Spec => []StreamsInv
<1>1. Init => StreamsInv
    BY DEF Init, ClientInit, StreamsInv, AckComesFirst, CallsHaveStreams
<1>2. TypeOK /\ HomeInv /\ WaitingIsTimed /\ EntryHasOpenReader /\ NewsInv /\ StreamsInv /\ [Next]_vars
      => StreamsInv'
    <2> SUFFICES ASSUME TypeOK, HomeInv, WaitingIsTimed, EntryHasOpenReader, NewsInv, StreamsInv,
                        [Next]_vars
                 PROVE  StreamsInv'
        OBVIOUS
    <2>1. CASE UNCHANGED vars
        BY <2>1 DEF vars, wireVars, clientVars, StreamsInv, AckComesFirst, CallsHaveStreams
    <2>2. CASE NewSession
        <3>1. UNCHANGED <<down, home, pending, call, reader>>
            BY <2>2 DEF NewSession, Assign
        <3> QED
            BY <3>1 DEF StreamsInv, AckComesFirst, CallsHaveStreams
    <2> QED
        BY <2>1, <2>2, ClientStepKeepsStreams, ProxyStepKeepsStreams DEF Next
<1> QED
    BY <1>1, <1>2, TypesAreCorrect, CallsStayHome, CallsAreKept, NewsAreKept, PTL DEF Spec

-----------------------------------------------------------------------------
(* The steps of Streams, in terms of the tunnel                            *)

\* The connection to the target of id was closed before its end.
IsCut(id) == home[id] # 0 /\ CutShort(home[id], id)

LEMMA PhaseIs ==
    ASSUME NEW id \in Ids
    PROVE  /\ call[id] = "none" => PhaseOf(id) = "idle"
           /\ call[id] = "waiting" => PhaseOf(id) = "calling"
           /\ call[id] = "failed" => PhaseOf(id) = "failed"
           /\ call[id] = "connected" /\ reader[id] = "open" => PhaseOf(id) = "open"
           /\ call[id] = "connected" /\ reader[id] = "closed" => PhaseOf(id) = "ended"
           /\ call[id] = "connected" /\ reader[id] = "errored" => PhaseOf(id) = "broken"
           /\ call[id] = "connected" /\ reader[id] = "cancelled" => PhaseOf(id) = "cancelled"
BY DEF PhaseOf

LEMMA PhaseWillBe ==
    ASSUME NEW id \in Ids
    PROVE  /\ call'[id] = "waiting" => PhaseOf(id)' = "calling"
           /\ call'[id] = "failed" => PhaseOf(id)' = "failed"
           /\ call'[id] = "connected" /\ reader'[id] = "open" => PhaseOf(id)' = "open"
           /\ call'[id] = "connected" /\ reader'[id] = "closed" => PhaseOf(id)' = "ended"
           /\ call'[id] = "connected" /\ reader'[id] = "errored" => PhaseOf(id)' = "broken"
           /\ call'[id] = "connected" /\ reader'[id] = "cancelled" => PhaseOf(id)' = "cancelled"
           /\ call'[id] = call[id] /\ reader'[id] = reader[id] => PhaseOf(id)' = PhaseOf(id)
           /\ call'[id] = call[id] /\ call[id] \in {"none", "waiting", "failed"} =>
                 PhaseOf(id)' = PhaseOf(id)
<1>1. call'[id] = "waiting" => PhaseOf(id)' = "calling"
    BY DEF PhaseOf
<1>2. call'[id] = "failed" => PhaseOf(id)' = "failed"
    BY DEF PhaseOf
<1>3. call'[id] = "connected" =>
          /\ reader'[id] = "open" => PhaseOf(id)' = "open"
          /\ reader'[id] = "closed" => PhaseOf(id)' = "ended"
          /\ reader'[id] = "errored" => PhaseOf(id)' = "broken"
          /\ reader'[id] = "cancelled" => PhaseOf(id)' = "cancelled"
    BY DEF PhaseOf
<1>4. call'[id] = call[id] /\ reader'[id] = reader[id] => PhaseOf(id)' = PhaseOf(id)
    BY DEF PhaseOf
<1>5. call'[id] = "none" => PhaseOf(id)' = "idle"
    BY DEF PhaseOf
<1> QED
    BY <1>1, <1>2, <1>3, <1>4, <1>5, PhaseIs

\* A step Streams does not see.
LEMMA StepIsInvisible ==
    ASSUME \A id \in Ids : /\ PhaseOf(id)' = PhaseOf(id) /\ MadeFor(id)' = MadeFor(id)
                           /\ rcvd'[id] = rcvd[id] /\ IsCut(id)' = IsCut(id)
    PROVE  UNCHANGED Abstract!vars
BY DEF Abstract!vars, IsCut

LEMMA StepMoves ==
    ASSUME NEW i \in Ids, NEW from, NEW to, PhaseOf(i) = from, PhaseOf(i)' = to,
           \A id \in Ids : id # i => PhaseOf(id)' = PhaseOf(id),
           \A id \in Ids : /\ MadeFor(id)' = MadeFor(id) /\ rcvd'[id] = rcvd[id]
                           /\ IsCut(id)' = IsCut(id)
    PROVE  Abstract!Move(i, from, to)
BY DEF Abstract!Move, IsCut

LEMMA StepFails ==
    ASSUME NEW ids \in SUBSET Ids,
           \A id \in ids : \/ PhaseOf(id) = "calling" /\ PhaseOf(id)' = "failed"
                           \/ PhaseOf(id) = "open" /\ PhaseOf(id)' = "broken",
           \A id \in Ids \ ids : PhaseOf(id)' = PhaseOf(id),
           \A id \in Ids : /\ MadeFor(id)' = MadeFor(id) /\ rcvd'[id] = rcvd[id]
                           /\ IsCut(id)' = IsCut(id)
    PROVE  Abstract!Fail(ids)
BY DEF Abstract!Fail, IsCut

LEMMA StepProduces ==
    ASSUME TypeOK, NEW i \in Ids, PhaseOf(i) # "idle", MadeFor(i) < MaxChunks,
           MadeFor(i)' = MadeFor(i) + 1,
           \A id \in Ids : id # i => MadeFor(id)' = MadeFor(id),
           \A id \in Ids : /\ PhaseOf(id)' = PhaseOf(id) /\ rcvd'[id] = rcvd[id]
                           /\ IsCut(id)' = IsCut(id)
    PROVE  Abstract!Produce(i)
BY DEF Abstract!Produce, IsCut

LEMMA StepDelivers ==
    ASSUME TypeOK, NEW i \in Ids, PhaseOf(i) = "open", Len(rcvd[i]) < MadeFor(i),
           Len(rcvd'[i]) = Len(rcvd[i]) + 1,
           \A id \in Ids : id # i => rcvd'[id] = rcvd[id],
           \A id \in Ids : /\ PhaseOf(id)' = PhaseOf(id) /\ MadeFor(id)' = MadeFor(id)
                           /\ IsCut(id)' = IsCut(id)
    PROVE  Abstract!Deliver(i)
BY DEF Abstract!Deliver, IsCut

LEMMA StepCutsShort ==
    ASSUME NEW ids \in SUBSET Ids, \A id \in ids : PhaseOf(id) # "idle",
           \A id \in Ids : IsCut(id)' <=> IsCut(id) \/ id \in ids,
           \A id \in Ids : /\ PhaseOf(id)' = PhaseOf(id) /\ MadeFor(id)' = MadeFor(id)
                           /\ rcvd'[id] = rcvd[id]
    PROVE  Abstract!CutShort(ids)
BY DEF Abstract!CutShort, IsCut

-----------------------------------------------------------------------------
(* Every step is one of them                                               *)

LEMMA ClientStepIsPromised ==
    ASSUME TypeOK, HomeInv, WaitingIsTimed, EntryHasOpenReader, ChunksInv, EndsInv', StreamsInv,
           ClientNext, UNCHANGED proxyVars
    PROVE  [Abstract!Next]_(Abstract!vars)
<1>t. /\ call \in [Ids -> CallState] /\ reader \in [Ids -> ReaderState] /\ pending \subseteq Ids
      /\ home \in [Ids -> 0 .. MaxSessions] /\ down \in [Sessions -> Seq(Message)]
      /\ rcvd \in [Ids -> Seq(0 .. MaxChunks)]
    BY DEF TypeOK, WireTypeOK, ClientTypeOK
<1>p. UNCHANGED <<conns, task, produced>>
    BY DEF proxyVars
<1>s. \A id \in Ids : \/ call[id] \in {"none", "waiting", "failed"}
                      \/ call[id] = "connected" /\ reader[id] \in ReaderState \ {"none"}
    BY <1>t DEF StreamsInv, CallsHaveStreams, CallState, ReaderState
<1>e. \A id \in pending : reader[id] = "open" /\ call[id] \in {"waiting", "connected"}
    <2>1. \A id \in pending : home[id] # 0 /\ id \in Ids
        BY <1>t DEF HomeInv, FreshIds
    <2> QED
        BY <1>s, <2>1 DEF StreamsInv, CallsHaveStreams, EntryHasOpenReader
<1>m. ASSUME UNCHANGED home
      PROVE  \A id \in Ids : MadeFor(id)' = MadeFor(id) /\ IsCut(id)' = IsCut(id)
    BY <1>m, <1>p DEF MadeFor, IsCut, CutShort
<1>same. ASSUME UNCHANGED <<call, reader>> PROVE \A id \in Ids : PhaseOf(id)' = PhaseOf(id)
    BY <1>same, PhaseWillBe
<1>quiet. ASSUME UNCHANGED <<home, call, reader, rcvd>> PROVE UNCHANGED Abstract!vars
    BY <1>quiet, <1>m, <1>same, StepIsInvisible
\* One call goes from one phase to another.
<1>move. ASSUME NEW i \in Ids, NEW to, UNCHANGED <<home, rcvd>>, PhaseOf(i)' = to,
                \A id \in Ids : id # i => call'[id] = call[id] /\ reader'[id] = reader[id]
         PROVE  Abstract!Move(i, PhaseOf(i), to)
    BY <1>move, <1>m, PhaseWillBe, StepMoves
\* Calls that wait fail, and streams that are open break.
<1>fail. ASSUME NEW ids \in SUBSET pending, UNCHANGED <<home, rcvd>>,
                \A id \in Ids : call'[id] = IF id \in ids /\ call[id] = "waiting" THEN "failed"
                                            ELSE call[id],
                \A id \in ids : call[id] = "connected" => reader'[id] = "errored",
                \A id \in Ids \ ids : call[id] = "connected" => reader'[id] = reader[id]
         PROVE  [Abstract!Next]_(Abstract!vars)
    <2>1. ids \in SUBSET Ids
        BY <1>t
    <2>2. \A id \in ids : \/ PhaseOf(id) = "calling" /\ PhaseOf(id)' = "failed"
                          \/ PhaseOf(id) = "open" /\ PhaseOf(id)' = "broken"
        BY <1>e, <1>fail, <2>1, PhaseIs, PhaseWillBe
    <2>3. \A id \in Ids \ ids : PhaseOf(id)' = PhaseOf(id)
        BY <1>fail, <1>s, PhaseWillBe
    <2>4. Abstract!Fail(ids)
        BY <1>fail, <1>m, <2>1, <2>2, <2>3, StepFails
    <2> QED
        BY <2>1, <2>4 DEF Abstract!Next
<1>1. CASE Connect
    <2>0. PICK new \in Ids : new = nextId
        BY <1>1 DEF Connect, TypeOK, ClientTypeOK, Ids
    <2>1. home[new] = 0 /\ call[new] = "none" /\ sess \in Sessions
        BY <1>1, <2>0, WireAssumption
        DEF Connect, TypeOK, WireTypeOK, ClientTypeOK, Ids, Sessions, HomeInv, FreshIds, StreamsInv,
            CallsHaveStreams
    <2>2. /\ UNCHANGED rcvd /\ call' = [call EXCEPT ![new] = "waiting"]
          /\ home' = [home EXCEPT ![new] = sess] /\ reader' = [reader EXCEPT ![new] = "open"]
        BY <1>1, <2>0 DEF Connect
    <2>3. task[sess][new] = "none" /\ produced[sess][new] = 0
        BY <2>1, WireAssumption DEF HomeInv, WorkIsAtHome, Sessions
    <2>4. PhaseOf(new) = "idle" /\ PhaseOf(new)' = "calling"
        BY <1>t, <2>1, <2>2, PhaseIs, PhaseWillBe
    <2>5. \A id \in Ids : id # new => PhaseOf(id)' = PhaseOf(id)
        BY <1>t, <2>2, PhaseWillBe
    <2>6. \A id \in Ids : MadeFor(id)' = MadeFor(id) /\ IsCut(id)' = IsCut(id)
        BY <1>p, <1>t, <2>1, <2>2, <2>3 DEF MadeFor, IsCut, CutShort
    <2>7. Abstract!Move(new, "idle", "calling")
        BY <2>1, <2>2, <2>4, <2>5, <2>6, StepMoves
    <2> QED
        BY <2>1, <2>7 DEF Abstract!Next, Abstract!Request
<1>2. ASSUME NEW i \in Ids, RequestTimeout(i) PROVE [Abstract!Next]_(Abstract!vars)
    <2>1. /\ UNCHANGED <<home, rcvd, reader>> /\ call[i] = "waiting"
          /\ call' = [call EXCEPT ![i] = "failed"]
        BY <1>2 DEF RequestTimeout, WaitingIsTimed
    <2>2. PhaseOf(i) = "calling" /\ PhaseOf(i)' = "failed"
        BY <1>t, <2>1, PhaseIs, PhaseWillBe
    <2>3. \A id \in Ids \ {i} : PhaseOf(id)' = PhaseOf(id)
        BY <1>t, <2>1, PhaseWillBe
    <2>4. Abstract!Fail({i})
        BY <1>m, <2>1, <2>2, <2>3, StepFails
    <2> QED
        BY <2>4 DEF Abstract!Next
<1>3. ASSUME NEW i \in Ids, Cancel(i) PROVE [Abstract!Next]_(Abstract!vars)
    <2>1. /\ UNCHANGED <<home, rcvd, call>> /\ call[i] = "connected" /\ reader[i] \in {"open", "closed"}
          /\ reader' = [reader EXCEPT ![i] = "cancelled"]
        BY <1>3 DEF Cancel
    <2>2. PhaseOf(i) \in {"open", "ended"} /\ PhaseOf(i)' = "cancelled"
        BY <1>t, <2>1, PhaseIs, PhaseWillBe
    <2>3. Abstract!Move(i, PhaseOf(i), "cancelled")
        BY <1>move, <1>t, <2>1, <2>2
    <2> QED
        BY <2>2, <2>3 DEF Abstract!Next, Abstract!Cancelled
<1>4. ASSUME NEW i \in Ids, Write(i) \/ CloseWriter(i) PROVE [Abstract!Next]_(Abstract!vars)
    BY <1>4, <1>quiet DEF Write, CloseWriter
<1>5. CASE Reap
    <2>1. PICK stale \in SUBSET pending :
              /\ stale \cap timer = {} /\ UNCHANGED <<home, rcvd, reader>>
              /\ call' = [id \in Ids |-> IF id \in stale /\ call[id] = "waiting"
                                         THEN "failed" ELSE call[id]]
        BY <1>5, <1>t DEF Reap
    <2>2. \A id \in stale : call[id] # "waiting"
        BY <1>t, <2>1 DEF WaitingIsTimed
    <2>3. call' = call
        BY <1>t, <2>1, <2>2
    <2> QED
        BY <1>quiet, <2>1, <2>3
<1>6. CASE NoHandler
    BY <1>6, <1>quiet DEF NoHandler
<1>7. CASE ConnectAck
    <2>1. PICK m \in Message :
              /\ m.id \in pending /\ UNCHANGED <<home, rcvd, reader>>
              /\ IF call[m.id] = "waiting" THEN call' = [call EXCEPT ![m.id] = "connected"]
                                           ELSE UNCHANGED call
        BY <1>7 DEF ConnectAck
    <2>2. CASE call[m.id] # "waiting"
        BY <1>quiet, <2>1, <2>2
    <2>3. CASE call[m.id] = "waiting"
        <3>1. m.id \in Ids /\ reader[m.id] = "open" /\ call' = [call EXCEPT ![m.id] = "connected"]
            BY <1>e, <1>t, <2>1, <2>3
        <3>2. PhaseOf(m.id) = "calling" /\ PhaseOf(m.id)' = "open"
            BY <1>t, <2>1, <2>3, <3>1, PhaseIs, PhaseWillBe
        <3>3. Abstract!Move(m.id, "calling", "open")
            BY <1>move, <1>t, <2>1, <3>1, <3>2
        <3> QED
            BY <3>1, <3>3 DEF Abstract!Next, Abstract!Accepted
    <2> QED
        BY <2>2, <2>3
<1>8. CASE StreamData
    <2>1. PICK m \in Message :
              /\ Take(m) /\ m.id \in pending /\ m.type = "TCP_DATA"
              /\ rcvd' = [rcvd EXCEPT ![m.id] = Append(@, m.chunk)]
        BY <1>8, <1>e DEF StreamData
    <2>2. UNCHANGED <<home, call, reader>>
        BY <1>8 DEF StreamData
    <2> DEFINE i == m.id
    <2>3. i \in Ids /\ reader[i] = "open" /\ rcvd[i] \in Seq(0 .. MaxChunks) /\ m.chunk \in 0 .. MaxChunks
        BY <1>e, <1>t, <2>1 DEF Message
    <2>4. /\ sess \in Sessions /\ down[sess] # <<>> /\ m = Head(down[sess])
          /\ down[sess] \in Seq(Message)
        BY <1>t, <2>1, TakeIsTyped DEF Take
    <2>5. home[i] = sess /\ sess # 0
        <3>1. 1 \in DOMAIN down[sess] /\ m = down[sess][1]
            BY <2>4
        <3> QED
            BY <2>4, <3>1, WireAssumption DEF HomeInv, RepliesAreAtHome, Sessions
    <2>6. IsChunk(m, i)
        BY <2>1 DEF IsChunk
    <2>7. call[i] = "connected"
        <3>1. call[i] = "waiting" => ~IsChunk(Head(down[sess]), i)
            BY <2>1, <2>3, <2>4, <2>5, AckFirstTail DEF StreamsInv, AckComesFirst
        <3> QED
            BY <1>e, <2>1, <2>4, <2>6, <3>1
    <2>8. Len(rcvd[i]) < MadeFor(i)
        <3>1. Len(rcvd[i]) \in Nat /\ SentUp(sess, i) \in Nat /\ produced[sess][i] \in Nat
              /\ SentUp(sess, i) <= produced[sess][i]
            BY <2>3, <2>4, SentUpIsNumber
        <3>2. InFlight(down[sess], i, Len(rcvd[i]), SentUp(sess, i))
            BY <2>1, <2>3, <2>5 DEF ChunksInv, DeliveryOf, Delivery
        <3>3. Len(rcvd[i]) + 1 <= SentUp(sess, i)
            BY <2>3, <2>4, <2>6, <3>1, <3>2, TailNext
        <3> QED
            BY <2>5, <3>1, <3>3 DEF MadeFor
    <2>9. /\ Len(rcvd'[i]) = Len(rcvd[i]) + 1
          /\ \A id \in Ids : id # i => rcvd'[id] = rcvd[id]
        BY <1>t, <2>1, <2>3
    <2> HIDE DEF i
    <2>10. PhaseOf(i) = "open"
        BY <2>3, <2>7, PhaseIs
    <2>11. Abstract!Deliver(i)
        BY <1>m, <1>same, <2>2, <2>3, <2>8, <2>9, <2>10, StepDelivers
    <2> QED
        BY <2>3, <2>11 DEF Abstract!Next
<1>9. CASE StreamClose
    <2>1. PICK m \in Message :
              m.id \in pending /\ reader' = [reader EXCEPT ![m.id] = IF @ = "open" THEN "closed" ELSE @]
        BY <1>9 DEF StreamClose
    <2>2. UNCHANGED <<home, call, rcvd>>
        BY <1>9 DEF StreamClose
    <2> DEFINE i == m.id
    <2>3. i \in Ids /\ reader[i] = "open" /\ reader' = [reader EXCEPT ![i] = "closed"]
        BY <1>e, <1>t, <2>1
    <2> HIDE DEF i
    <2>4. CASE call[i] # "connected"
        <3>1. \A id \in Ids : PhaseOf(id)' = PhaseOf(id)
            BY <1>s, <1>t, <2>2, <2>3, <2>4, PhaseWillBe
        <3> QED
            BY <1>m, <2>2, <3>1, StepIsInvisible
    <2>5. CASE call[i] = "connected"
        <3>1. PhaseOf(i) = "open" /\ PhaseOf(i)' = "ended"
            BY <1>t, <2>2, <2>3, <2>5, PhaseIs, PhaseWillBe
        <3>2. Abstract!Move(i, "open", "ended")
            BY <1>move, <1>t, <2>2, <2>3, <3>1
        <3>3. Len(rcvd[i]) = MadeFor(i) \/ IsCut(i)
            <4>1. reader'[i] = "closed"
                BY <1>t, <2>3
            <4>2. home[i] # 0
                BY <2>3, <2>5 DEF StreamsInv, CallsHaveStreams
            <4> QED
                BY <1>p, <2>2, <2>3, <4>1, <4>2
                DEF EndsInv, CleanEndIsComplete, CutShort, IsCut, MadeFor
        <3>4. Abstract!CleanEnd(i)
            BY <2>3, <3>2, <3>3 DEF Abstract!CleanEnd, IsCut
        <3> QED
            BY <2>3, <3>4 DEF Abstract!Next
    <2> QED
        BY <2>4, <2>5
<1>10. CASE StreamError
    <2>1. PICK m \in Message :
              /\ m.id \in pending /\ UNCHANGED <<home, rcvd>>
              /\ reader' = [reader EXCEPT ![m.id] = IF @ = "open" THEN "errored" ELSE @]
              /\ call' = [call EXCEPT ![m.id] = IF @ = "waiting" THEN "failed" ELSE @]
        BY <1>10 DEF StreamError
    <2>2. {m.id} \in SUBSET pending /\ m.id \in Ids /\ reader[m.id] = "open"
        BY <1>e, <1>t, <2>1
    <2> QED
        BY <1>fail, <1>t, <2>1, <2>2
<1>off. ASSUME HandleDisconnect, UNCHANGED <<home, rcvd>> PROVE [Abstract!Next]_(Abstract!vars)
    <2>1. CASE UNCHANGED <<call, reader>>
        BY <1>off, <1>quiet, <2>1
    <2>2. CASE /\ call' = [id \in Ids |-> IF id \in pending /\ call[id] = "waiting"
                                          THEN "failed" ELSE call[id]]
               /\ reader' = [id \in Ids |-> IF id \in pending /\ reader[id] = "open"
                                            THEN "errored" ELSE reader[id]]
        BY <1>e, <1>fail, <1>off, <1>t, <2>2
    <2> QED
        BY <1>off, <2>1, <2>2 DEF HandleDisconnect, RejectPending
<1>11. CASE ClientLinkClosed
    BY <1>11, <1>off DEF ClientLinkClosed
<1>12. CASE HeartbeatTimeout
    BY <1>12, <1>off DEF HeartbeatTimeout
<1>13. CASE CloseClient
    <2> DEFINE ids == {id \in pending : call[id] = "waiting"}
    <2>1. /\ UNCHANGED <<home, rcvd, reader>>
          /\ \A id \in Ids : call'[id] = IF id \in ids /\ call[id] = "waiting" THEN "failed" ELSE call[id]
        BY <1>13 DEF CloseClient, RejectPending
    <2>2. ids \in SUBSET pending /\ \A id \in ids : call[id] # "connected"
        OBVIOUS
    <2> HIDE DEF ids
    <2> QED
        BY <1>fail, <2>1, <2>2
<1> QED
    BY <1>1, <1>2, <1>3, <1>4, <1>5, <1>6, <1>7, <1>8, <1>9, <1>10, <1>11, <1>12, <1>13
    DEF ClientNext

LEMMA ProxyStepIsPromised ==
    ASSUME TypeOK, HomeInv, NewsInv, StreamsInv, ProxyNext, UNCHANGED clientVars
    PROVE  [Abstract!Next]_(Abstract!vars)
<1>t. /\ conns \in [Sessions -> SUBSET Ids] /\ task \in [Sessions -> [Ids -> TaskState]]
      /\ produced \in [Sessions -> [Ids -> 0 .. MaxChunks]]
      /\ home \in [Ids -> 0 .. MaxSessions]
    BY DEF TypeOK, ClientTypeOK, ProxyTypeOK
<1>c. UNCHANGED <<home, call, reader, rcvd>>
    BY DEF clientVars
<1>h. \A s \in Sessions, id \in Ids : task[s][id] # "none" \/ id \in conns[s] =>
          home[id] = s /\ home[id] # 0 /\ PhaseOf(id) # "idle"
    <2> SUFFICES ASSUME NEW s \in Sessions, NEW id \in Ids, task[s][id] # "none" \/ id \in conns[s]
                 PROVE  home[id] = s /\ home[id] # 0 /\ PhaseOf(id) # "idle"
        OBVIOUS
    <2>1. home[id] = s /\ s # 0
        BY WireAssumption DEF HomeInv, WorkIsAtHome, Sessions
    <2>2. \/ call[id] \in {"waiting", "failed"}
          \/ call[id] = "connected" /\ reader[id] \in ReaderState \ {"none"}
        BY <2>1 DEF StreamsInv, CallsHaveStreams, TypeOK, ClientTypeOK, CallState
    <2> QED
        BY <2>1, <2>2, PhaseIs DEF ReaderState
<1>r. \A s \in Sessions, id \in Ids : id \in conns[s] => task[s][id] \in {"reading", "holding"}
    BY DEF NewsInv, NewsAreTrue
<1>v. \A id \in Ids : home[id] = 0 \/ home[id] \in Sessions
    BY <1>t, WireAssumption DEF Sessions
<1>p. \A id \in Ids : PhaseOf(id)' = PhaseOf(id)
    BY <1>c, PhaseWillBe
<1>m. ASSUME UNCHANGED produced PROVE \A id \in Ids : MadeFor(id)' = MadeFor(id)
    BY <1>c, <1>m DEF MadeFor
<1>1. PICK z \in Sessions :
          \/ HandleConnect(z) \/ HandleData(z) \/ HandleClose(z)
          \/ ServerLinkClosed(z) \/ ServerHeartbeatTimeout(z) \/ CloseTransport(z)
          \/ \E id \in Ids :
                \/ ConnectDone(z, id) \/ LateConnect(z, id)
                \/ ReadChunk(z, id) \/ SendChunk(z, id) \/ PipeEnd(z, id)
                \/ WriteFails(z, id)
    BY DEF ProxyNext
<1>quiet. ASSUME UNCHANGED produced,
                 \A s \in Sessions, id \in Ids : CutShort(s, id)' <=> CutShort(s, id)
          PROVE  UNCHANGED Abstract!vars
    <2>1. \A id \in Ids : IsCut(id)' = IsCut(id)
        BY <1>c, <1>quiet, <1>v DEF IsCut, CutShort
    <2> QED
        BY <1>c, <1>m, <1>p, <1>quiet, <2>1, StepIsInvisible
\* Connections are closed under their pipes.
<1>cut. ASSUME UNCHANGED <<produced, task>>, NEW ids \in SUBSET conns[z],
               conns' = [conns EXCEPT ![z] = @ \ ids]
        PROVE  [Abstract!Next]_(Abstract!vars)
    <2>1. ids \in SUBSET Ids /\ \A id \in ids : PhaseOf(id) # "idle"
        BY <1>h, <1>t
    <2>2. ASSUME NEW id \in Ids PROVE IsCut(id)' <=> IsCut(id) \/ id \in ids
        <3>1. \A s \in Sessions : id \in conns'[s] <=> id \in conns[s] /\ ~(s = z /\ id \in ids)
            BY <1>cut, <1>t
        <3>2. id \in ids => home[id] = z /\ home[id] # 0 /\ task[z][id] \in {"reading", "holding"}
            BY <1>h, <1>r, <1>t
        <3> QED
            BY <1>c, <1>cut, <1>v, <3>1, <3>2 DEF IsCut, CutShort
    <2>3. Abstract!CutShort(ids)
        BY <1>c, <1>cut, <1>m, <1>p, <2>1, <2>2, StepCutsShort
    <2> QED
        BY <2>1, <2>3 DEF Abstract!Next
<1>close. ASSUME NEW i \in Ids, Close(z, i), UNCHANGED <<produced, task>>
          PROVE  [Abstract!Next]_(Abstract!vars)
    <2>1. CASE i \notin conns[z]
        BY <1>close, <1>quiet, <2>1 DEF Close, CutShort
    <2>2. CASE i \in conns[z]
        <3>1. {i} \in SUBSET conns[z] /\ conns' = [conns EXCEPT ![z] = @ \ {i}]
            BY <1>close, <2>2 DEF Close
        <3> QED
            BY <1>close, <1>cut, <3>1
    <2> QED
        BY <2>1, <2>2
\* One connection goes on, and its pipe is not cut short by that.
<1>set. ASSUME NEW i \in Ids, NEW state, SetTask(z, i, state), UNCHANGED produced,
               \A s \in Sessions, id \in Ids :
                  (s # z \/ id # i) => (id \in conns'[s] <=> id \in conns[s]),
               i \notin conns'[z] /\ state \in {"reading", "holding", "cut"} <=> CutShort(z, i)
        PROVE  UNCHANGED Abstract!vars
    <2>1. \A s \in Sessions, id \in Ids :
              task'[s][id] = IF s = z /\ id = i THEN state ELSE task[s][id]
        BY <1>set, <1>t DEF SetTask
    <2>2. ASSUME NEW s \in Sessions, NEW id \in Ids PROVE CutShort(s, id)' <=> CutShort(s, id)
        BY <1>set, <2>1 DEF CutShort
    <2> QED
        BY <1>quiet, <1>set, <2>2
<1>2. CASE HandleConnect(z)
    <2>1. PICK m \in Message : Receive(z, m) /\ m.type = "TCP_CONNECT" /\ SetTask(z, m.id, "connecting")
        BY <1>2 DEF HandleConnect
    <2>2. UNCHANGED <<conns, produced>>
        BY <1>2 DEF HandleConnect
    <2>3. up[z] \in Seq(Message) /\ up[z] # <<>> /\ m = up[z][1] /\ 1 \in DOMAIN up[z]
        BY <2>1 DEF Receive, TypeOK, WireTypeOK
    <2>4. m.id \in Ids /\ task[z][m.id] = "none"
        BY <2>1, <2>3 DEF HomeInv, RequestsAreFresh, Message
    <2> QED
        BY <1>set, <2>1, <2>2, <2>4 DEF CutShort
<1>3. CASE HandleData(z) \/ ServerLinkClosed(z) \/ ServerHeartbeatTimeout(z)
    <2>1. UNCHANGED <<conns, task, produced>>
        BY <1>3 DEF HandleData, ServerLinkClosed, LinkLost, ServerHeartbeatTimeout, HeartbeatLost
    <2> QED
        BY <1>quiet, <2>1 DEF CutShort
<1>4. CASE HandleClose(z)
    <2>1. PICK m \in Message : Close(z, m.id) /\ m.id \in Ids
        BY <1>4 DEF HandleClose, Message
    <2>2. UNCHANGED <<task, produced>>
        BY <1>4 DEF HandleClose
    <2> QED
        BY <1>close, <2>1, <2>2
<1>5. CASE CloseTransport(z)
    <2>1. conns' = [conns EXCEPT ![z] = @ \ conns[z]] /\ UNCHANGED <<task, produced>>
        BY <1>5, <1>t DEF CloseTransport
    <2> QED
        BY <1>cut, <2>1
<1>6. ASSUME NEW i \in Ids, ConnectDone(z, i) PROVE [Abstract!Next]_(Abstract!vars)
    <2>1. /\ task[z][i] = "connecting" /\ UNCHANGED produced
          /\ \/ SetTask(z, i, "reading") /\ conns' = [conns EXCEPT ![z] = @ \cup {i}]
             \/ SetTask(z, i, "refused") /\ UNCHANGED conns
             \/ SetTask(z, i, "abandoned") /\ UNCHANGED conns
        BY <1>6 DEF ConnectDone, ConnectOk, ConnectFail, ConnectTimeout
    <2>2. ~CutShort(z, i)
        BY <2>1 DEF CutShort
    <2>3. CASE SetTask(z, i, "reading") /\ conns' = [conns EXCEPT ![z] = @ \cup {i}]
        <3>1. /\ i \in conns'[z]
              /\ \A s \in Sessions, id \in Ids :
                    (s # z \/ id # i) => (id \in conns'[s] <=> id \in conns[s])
            BY <1>t, <2>3
        <3> QED
            BY <1>set, <2>1, <2>2, <2>3, <3>1
    <2>4. ASSUME NEW state \in {"refused", "abandoned"}, SetTask(z, i, state), UNCHANGED conns
          PROVE  UNCHANGED Abstract!vars
        BY <1>set, <2>1, <2>2, <2>4
    <2> QED
        BY <2>1, <2>3, <2>4
<1>7. ASSUME NEW i \in Ids, LateConnect(z, i) PROVE [Abstract!Next]_(Abstract!vars)
    BY <1>7, <1>set DEF LateConnect, CutShort
<1>8. ASSUME NEW i \in Ids, ReadChunk(z, i) PROVE [Abstract!Next]_(Abstract!vars)
    <2>1. /\ task[z][i] = "reading" /\ i \in conns[z] /\ UNCHANGED conns
          /\ produced[z][i] < MaxChunks /\ produced' = [produced EXCEPT ![z][i] = @ + 1]
          /\ task' = [task EXCEPT ![z][i] = "holding"]
        BY <1>8 DEF ReadChunk, SetTask
    <2>2. home[i] = z /\ home[i] # 0 /\ PhaseOf(i) # "idle"
        BY <1>h, <2>1
    <2>3. MadeFor(i) < MaxChunks /\ MadeFor(i)' = MadeFor(i) + 1
        BY <1>c, <1>t, <2>1, <2>2 DEF MadeFor
    <2>4. \A id \in Ids : id # i => MadeFor(id)' = MadeFor(id)
        BY <1>c, <1>t, <1>v, <2>1 DEF MadeFor
    <2>5. \A id \in Ids : IsCut(id)' = IsCut(id)
        BY <1>c, <1>t, <1>v, <2>1 DEF IsCut, CutShort
    <2>6. Abstract!Produce(i)
        BY <1>c, <1>p, <2>2, <2>3, <2>4, <2>5, StepProduces
    <2> QED
        BY <2>6 DEF Abstract!Next
<1>9. ASSUME NEW i \in Ids, SendChunk(z, i) PROVE [Abstract!Next]_(Abstract!vars)
    BY <1>9, <1>set DEF SendChunk, CutShort
<1>10. ASSUME NEW i \in Ids, PipeEnd(z, i) PROVE [Abstract!Next]_(Abstract!vars)
    <2>1. /\ task[z][i] = "reading" /\ Close(z, i) /\ UNCHANGED produced
          /\ SetTask(z, i, IF i \in conns[z] THEN "ended" ELSE "cut")
        BY <1>10 DEF PipeEnd
    <2>2. CASE i \in conns[z]
        <3>1. conns' = [conns EXCEPT ![z] = @ \ {i}] /\ SetTask(z, i, "ended") /\ ~CutShort(z, i)
            BY <2>1, <2>2 DEF Close, CutShort
        <3> QED
            BY <1>set, <1>t, <2>1, <3>1
    <2>3. CASE i \notin conns[z]
        <3>1. UNCHANGED conns /\ SetTask(z, i, "cut") /\ CutShort(z, i)
            BY <2>1, <2>3 DEF Close, CutShort
        <3> QED
            BY <1>set, <2>1, <2>3, <3>1
    <2> QED
        BY <2>2, <2>3
<1>11. ASSUME NEW i \in Ids, WriteFails(z, i) PROVE [Abstract!Next]_(Abstract!vars)
    BY <1>11, <1>close DEF WriteFails
<1> QED
    BY <1>1, <1>2, <1>3, <1>4, <1>5, <1>6, <1>7, <1>8, <1>9, <1>10, <1>11

\* Whatever messages, sessions, timers and failures do, what happens to a call is
\* what its caller was promised: it is settled once, its stream delivers in order
\* what the target produced, and ends cleanly only when that was all of it or the
\* connection was cut short.
THEOREM TunnelImplementsStreams == Spec => ImplementsStreams
<1>1. Init => Abstract!Init
    <2> SUFFICES ASSUME Init PROVE Abstract!Init
        OBVIOUS
    <2>1. \A id \in Ids : PhaseOf(id) = "idle" /\ MadeFor(id) = 0 /\ Len(rcvd[id]) = 0 /\ home[id] = 0
        BY PhaseIs DEF Init, ClientInit, MadeFor
    <2> QED
        BY <2>1 DEF Abstract!Init
<1>2. /\ TypeOK /\ HomeInv /\ WaitingIsTimed /\ EntryHasOpenReader /\ ChunksInv /\ NewsInv
      /\ EndsInv' /\ StreamsInv /\ [Next]_vars
      => [Abstract!Next]_(Abstract!vars)
    <2> SUFFICES ASSUME TypeOK, HomeInv, WaitingIsTimed, EntryHasOpenReader, ChunksInv, NewsInv,
                        EndsInv', StreamsInv, [Next]_vars
                 PROVE  [Abstract!Next]_(Abstract!vars)
        OBVIOUS
    <2>1. ASSUME UNCHANGED <<home, call, reader, rcvd, conns, task, produced>>
          PROVE  UNCHANGED Abstract!vars
        <3>1. \A id \in Ids : PhaseOf(id)' = PhaseOf(id)
            BY <2>1, PhaseWillBe
        <3>2. \A id \in Ids : MadeFor(id)' = MadeFor(id) /\ IsCut(id)' = IsCut(id)
            BY <2>1 DEF MadeFor, IsCut, CutShort
        <3> QED
            BY <2>1, <3>1, <3>2, StepIsInvisible
    <2>2. CASE UNCHANGED vars
        BY <2>1, <2>2 DEF vars, clientVars, proxyVars
    <2>3. CASE NewSession
        BY <2>1, <2>3 DEF NewSession, Assign, Accept, AssignSocket
    <2> QED
        BY <2>2, <2>3, ClientStepIsPromised, ProxyStepIsPromised DEF Next
<1> QED
    BY <1>1, <1>2, TypesAreCorrect, CallsStayHome, CallsAreKept, ChunksAreKept, NewsAreKept,
       EndsAreKept, StreamsAreKept, PTL DEF Spec, ImplementsStreams, Abstract!Spec
=============================================================================
