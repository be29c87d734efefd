-------------------------- MODULE TunnelNewsProofs --------------------------
(***************************************************************************)
(* The proofs that the two ends of the tunnel tell each other what they    *)
(* have to hear (NewsInv), and that a stream ends cleanly only after all   *)
(* its chunks (EndsInv).                                                   *)
(***************************************************************************)
EXTENDS TunnelProofs

-----------------------------------------------------------------------------
(* What a channel carries                                                  *)

LEMMA CarriesConcat ==
    ASSUME NEW ch \in Seq(Message), NEW ms \in Seq(Message), NEW t, NEW id
    PROVE  Carries(ch \o ms, t, id) <=> Carries(ch, t, id) \/ Carries(ms, t, id)
<1> DEFINE new == ch \o ms
<1>1. /\ Len(new) = Len(ch) + Len(ms)
      /\ \A k \in 1 .. Len(ch) : new[k] = ch[k]
      /\ \A k \in 1 .. Len(ms) : new[Len(ch) + k] = ms[k]
      /\ DOMAIN new = 1 .. Len(new) /\ DOMAIN ch = 1 .. Len(ch) /\ DOMAIN ms = 1 .. Len(ms)
      /\ Len(ch) \in Nat /\ Len(ms) \in Nat
    BY ConcatProperties
<1>2. \A k \in DOMAIN new : \/ k \in DOMAIN ch /\ new[k] = ch[k]
                            \/ \E j \in DOMAIN ms : new[k] = ms[j]
    BY ConcatElements
<1>3. \A k \in DOMAIN ch : k \in DOMAIN new /\ new[k] = ch[k]
    BY <1>1
<1>4. \A k \in DOMAIN ms : Len(ch) + k \in DOMAIN new /\ new[Len(ch) + k] = ms[k]
    BY <1>1
<1> HIDE DEF new
<1>5. ASSUME Carries(ms, t, id) PROVE Carries(new, t, id)
    <2>1. PICK k \in DOMAIN ms : ms[k].type = t /\ ms[k].id = id
        BY <1>5 DEF Carries
    <2> QED
        BY <1>4, <2>1 DEF Carries
<1>6. Carries(new, t, id) <=> Carries(ch, t, id) \/ Carries(ms, t, id)
    BY <1>2, <1>3, <1>5 DEF Carries
<1> QED
    BY <1>6 DEF new

LEMMA CarriesOne ==
    ASSUME NEW m \in Message, NEW t, NEW id
    PROVE  Carries(<<m>>, t, id) <=> m.type = t /\ m.id = id
BY DEF Carries

LEMMA CarriesAppend ==
    ASSUME NEW ch \in Seq(Message), NEW m \in Message, NEW t, NEW id
    PROVE  Carries(Append(ch, m), t, id) <=> Carries(ch, t, id) \/ (m.type = t /\ m.id = id)
<1> DEFINE new == Append(ch, m)
<1>1. /\ DOMAIN new = DOMAIN ch \cup {Len(ch) + 1}
      /\ \A k \in DOMAIN ch : new[k] = ch[k]
      /\ new[Len(ch) + 1] = m
    BY AppendElements
<1> HIDE DEF new
<1> QED
    BY <1>1 DEF Carries, new

LEMMA CarriesTail ==
    ASSUME NEW ch \in Seq(Message), ch # <<>>, NEW t, NEW id
    PROVE  Carries(ch, t, id) <=>
               (Head(ch).type = t /\ Head(ch).id = id) \/ Carries(Tail(ch), t, id)
<1> DEFINE new == Tail(ch)
<1>1. /\ Head(ch) = ch[1] /\ 1 \in DOMAIN ch
      /\ \A k \in DOMAIN new : k + 1 \in DOMAIN ch /\ new[k] = ch[k + 1]
    BY TailElements
<1>2. \A k \in DOMAIN ch : k # 1 => k - 1 \in DOMAIN new /\ new[k - 1] = ch[k]
    <2>1. DOMAIN ch = 1 .. Len(ch) /\ DOMAIN new = 1 .. Len(ch) - 1 /\ Len(ch) \in Nat
        BY HeadTailProperties
    <2>2. \A k \in 1 .. Len(ch) : k # 1 => k - 1 \in DOMAIN new /\ (k - 1) + 1 = k
        BY <2>1
    <2> QED
        BY <1>1, <2>1, <2>2
<1> HIDE DEF new
<1> QED
    BY <1>1, <1>2 DEF Carries, new

LEMMA CarriesNothing == \A t, id : ~Carries(<<>>, t, id)
BY DEF Carries

-----------------------------------------------------------------------------
(* What sending and receiving do to it                                     *)

\* send() of the client takes nothing away, and what it sends on a link that
\* both ends believe in is on its way.
LEMMA SendIsCarried ==
    ASSUME TypeOK, NEW ms \in Seq(Message), Send(ms)
    PROVE  /\ \A s \in Sessions : \A t, id : Carries(up[s], t, id) => Carries(up'[s], t, id)
           /\ ~isClosed /\ LinkUp(sess) =>
                 \A t, id : Carries(ms, t, id) => Carries(up'[sess], t, id)
<1>t. up \in [Sessions -> Seq(Message)] /\ (cws => sess \in Sessions)
    BY WireAssumption DEF TypeOK, WireTypeOK, Sessions
<1>1. CASE up' = up /\ (isClosed \/ ~LinkUp(sess))
    BY <1>1
<1>2. CASE sess \in Sessions /\ up' = [up EXCEPT ![sess] = @ \o ms]
    <2>1. \A s \in Sessions : up'[s] = IF s = sess THEN up[sess] \o ms ELSE up[s]
        BY <1>t, <1>2
    <2>2. \A t, id : Carries(up[sess] \o ms, t, id) <=> Carries(up[sess], t, id) \/ Carries(ms, t, id)
        BY <1>t, <1>2, CarriesConcat
    <2> QED
        BY <1>2, <2>1, <2>2
<1> QED
    BY <1>t, <1>1, <1>2 DEF Send, LinkUp

LEMMA SendOneIsCarried ==
    ASSUME TypeOK, NEW m \in Message, Send(<<m>>)
    PROVE  /\ \A s \in Sessions : \A t, id : Carries(up[s], t, id) => Carries(up'[s], t, id)
           /\ ~isClosed /\ LinkUp(sess) => Carries(up'[sess], m.type, m.id)
<1>1. <<m>> \in Seq(Message) /\ Carries(<<m>>, m.type, m.id)
    BY CarriesOne
<1> QED
    BY <1>1, SendIsCarried

\* The listener of the client takes one message of the session away.
LEMMA TakeIsCarried ==
    ASSUME TypeOK, NEW m \in Message, Take(m)
    PROVE  /\ Carries(down[sess], m.type, m.id)
           /\ \A s \in Sessions : \A t, id :
                 /\ Carries(down'[s], t, id) => Carries(down[s], t, id)
                 /\ Carries(down[s], t, id) =>
                       Carries(down'[s], t, id) \/ (m.type = t /\ m.id = id)
<1>1. /\ sess \in Sessions /\ down[sess] \in Seq(Message) /\ down[sess] # <<>>
      /\ m = Head(down[sess])
      /\ \A s \in Sessions : down'[s] = IF s = sess THEN Tail(down[sess]) ELSE down[s]
    BY TakeIsTyped DEF TypeOK, WireTypeOK, Take
<1>2. \A t, id : Carries(down[sess], t, id) <=>
                     (m.type = t /\ m.id = id) \/ Carries(Tail(down[sess]), t, id)
    BY <1>1, CarriesTail
<1> QED
    BY <1>1, <1>2

\* So does the listener of a transport.
LEMMA ReceiveIsCarried ==
    ASSUME TypeOK, NEW s \in Sessions, NEW m \in Message, Receive(s, m)
    PROVE  /\ Carries(up[s], m.type, m.id)
           /\ \A z \in Sessions : \A t, id :
                 Carries(up[z], t, id) =>
                     Carries(up'[z], t, id) \/ (z = s /\ m.type = t /\ m.id = id)
<1>1. /\ up[s] \in Seq(Message) /\ up[s] # <<>> /\ m = Head(up[s])
      /\ \A z \in Sessions : up'[z] = IF z = s THEN Tail(up[s]) ELSE up[z]
    BY DEF TypeOK, WireTypeOK, Receive
<1>2. \A t, id : Carries(up[s], t, id) <=>
                     (m.type = t /\ m.id = id) \/ Carries(Tail(up[s]), t, id)
    BY <1>1, CarriesTail
<1> QED
    BY <1>1, <1>2

\* send() of a transport is heard as long as the link and the transport live.
LEMMA ReplyIsCarried ==
    ASSUME TypeOK, NEW s \in Sessions, NEW m \in Message, Reply(s, m)
    PROVE  \A z \in Sessions : \A t, id :
               Carries(down'[z], t, id) <=>
                   \/ Carries(down[z], t, id)
                   \/ z = s /\ m.type = t /\ m.id = id /\ Whole(s)
<1>1. down \in [Sessions -> Seq(Message)]
    BY DEF TypeOK, WireTypeOK
<1>2. CASE Whole(s)
    <2>1. \A z \in Sessions : down'[z] = IF z = s THEN Append(down[s], m) ELSE down[z]
        BY <1>1, <1>2 DEF Reply, Whole
    <2>2. \A t, id : Carries(Append(down[s], m), t, id) <=>
                         Carries(down[s], t, id) \/ (m.type = t /\ m.id = id)
        BY <1>1, CarriesAppend
    <2> QED
        BY <1>2, <2>1, <2>2
<1>3. CASE ~Whole(s)
    BY <1>3 DEF Reply, Whole
<1> QED
    BY <1>2, <1>3

-----------------------------------------------------------------------------
(* The news, step by step                                                  *)

\* A new call has its request on the way, and nobody has spoken of it.
LEMMA ConnectKeepsNews ==
    ASSUME TypeOK, HomeInv, NewsInv, Connect, UNCHANGED proxyVars
    PROVE  NewsInv'
<1> USE DEF NewsInv
<1> DEFINE new == nextId
<1>1. /\ new \in Ids /\ home[new] = 0 /\ new \notin pending /\ sess \in Sessions /\ sess # 0
      /\ \A id \in Ids : home[id] # 0 \/ id \in pending => id # new
    BY WireAssumption
    DEF Connect, TypeOK, WireTypeOK, ClientTypeOK, Ids, Sessions, HomeInv, FreshIds
<1>2. /\ \A id \in Ids : home'[id] = IF id = new THEN sess ELSE home[id]
      /\ \A id \in Ids : call'[id] = IF id = new THEN "waiting" ELSE call[id]
      /\ pending' = pending \cup {new}
      /\ UNCHANGED <<sess, cws, sws, down, cstate, isClosed>>
      /\ ~isClosed /\ cws
    BY DEF Connect, TypeOK, ClientTypeOK
<1>3. UNCHANGED <<tstate, conns, task>>
    BY DEF proxyVars
<1>4. /\ \A s \in Sessions : \A t, id : Carries(up[s], t, id) => Carries(up'[s], t, id)
      /\ LinkUp(sess) => Carries(up'[sess], "TCP_CONNECT", new)
    <2>1. Msg("TCP_CONNECT", new) \in Message
        BY <1>1, MessagesAreMessages DEF MessageType
    <2>2. Msg("TCP_CONNECT", new).type = "TCP_CONNECT" /\ Msg("TCP_CONNECT", new).id = new
        BY DEF Msg
    <2>3. Send(<<Msg("TCP_CONNECT", new)>>)
        BY DEF Connect
    <2> HIDE DEF new
    <2> QED
        BY <1>2, <2>1, <2>2, <2>3, SendOneIsCarried
<1>5. \A s \in Sessions : \A t : ~Carries(down[s], t, new)
    BY <1>1 DEF HomeInv, RepliesAreAtHome, Carries, Sessions
<1> HIDE DEF new
<1>6. LinkUp(sess') <=> LinkUp(sess)
    BY <1>2 DEF LinkUp
<1>7. OpenEnds' /\ NewsAreTrue'
    BY <1>2, <1>3 DEF OpenEnds, NewsAreTrue
<1>8. CallersAreRight'
    BY <1>1, <1>2, <1>3 DEF CallersAreRight
<1>old. ASSUME NEW id \in Ids, id # new PROVE Live(id)' <=> Live(id)
    BY <1>2, <1>old DEF Live, LinkUp
<1>9. WaitingIsServed'
    <2> SUFFICES ASSUME NEW id \in pending', call'[id] = "waiting", Live(id)'
                 PROVE  \/ Carries(up'[sess], "TCP_CONNECT", id)
                        \/ task[sess][id] = "connecting"
                        \/ Carries(down[sess], "TCP_CONNECT_ACK", id)
                        \/ Carries(down[sess], "ERROR", id)
        BY <1>2, <1>3 DEF WaitingIsServed
    <2>1. CASE id = new
        BY <1>2, <1>4, <2>1 DEF Live, LinkUp
    <2>2. CASE id # new
        <3>1. id \in pending /\ id \in Ids /\ call[id] = "waiting" /\ Live(id)
            BY <1>2, <1>old, <2>2 DEF TypeOK, ClientTypeOK
        <3> QED
            BY <1>1, <1>4, <3>1 DEF WaitingIsServed
    <2> QED
        BY <2>1, <2>2
<1>10. AckedIsAnnounced'
    <2> SUFFICES ASSUME NEW id \in pending', Live(id)', id \notin conns[sess],
                        call'[id] = "connected" \/ Carries(down[sess], "TCP_CONNECT_ACK", id)
                 PROVE  Carries(down[sess], "TCP_CLOSE", id)
        BY <1>2, <1>3 DEF AckedIsAnnounced
    <2>1. id # new
        BY <1>1, <1>2, <1>5
    <2>2. id \in pending /\ id \in Ids /\ Live(id)
        BY <1>2, <1>old, <2>1 DEF TypeOK, ClientTypeOK
    <2> QED
        BY <1>2, <2>1, <2>2 DEF AckedIsAnnounced
<1>11. ReleaseIsAnnounced'
    BY <1>1, <1>2, <1>3, <1>4 DEF ReleaseIsAnnounced, Live, LinkUp
<1> QED
    BY <1>7, <1>8, <1>9, <1>10, <1>11

\* Whoever stops listening to a call has told the server, or knows from it.
LEMMA ClientStepKeepsNews ==
    ASSUME TypeOK, HomeInv, WaitingIsTimed, EntryHasOpenReader, NewsInv,
           ClientNext, UNCHANGED proxyVars
    PROVE  NewsInv'
<1> USE DEF NewsInv
<1>t. /\ call \in [Ids -> CallState] /\ pending \subseteq Ids
      /\ sws \in [Sessions -> BOOLEAN] /\ (cws => sess \in Sessions)
    BY WireAssumption DEF TypeOK, WireTypeOK, ClientTypeOK, Sessions
<1>p. UNCHANGED <<tstate, conns, task>>
    BY DEF proxyVars
<1> DEFINE Fewer == \A s \in Sessions : \A t, id : Carries(down'[s], t, id) => Carries(down[s], t, id)
           More  == \A s \in Sessions : \A t, id : Carries(up[s], t, id) => Carries(up'[s], t, id)
           Held(t, id) == Carries(down[sess], t, id) => Carries(down'[sess], t, id)
           Stays == UNCHANGED <<home, sess, sws>> /\ (cws' => cws) /\ More
<1>fewer. UNCHANGED down => Fewer /\ \A t, id : Held(t, id)
    OBVIOUS
<1>same. UNCHANGED <<home, sess, sws, cws>> /\ More => Stays
    OBVIOUS
<1>ends. ASSUME UNCHANGED <<sws, cws, cstate, isClosed>> PROVE OpenEnds'
    BY <1>ends, <1>p DEF OpenEnds
<1>true. ASSUME Fewer PROVE NewsAreTrue'
    BY <1>true, <1>p DEF NewsAreTrue
<1>right. ASSUME UNCHANGED home, \A id \in Ids : call'[id] = "connected" => call[id] = "connected"
          PROVE  CallersAreRight'
    BY <1>right, <1>p DEF CallersAreRight
<1>dead. ASSUME ~cws' PROVE WaitingIsServed' /\ AckedIsAnnounced' /\ ReleaseIsAnnounced'
    BY <1>dead DEF WaitingIsServed, AckedIsAnnounced, ReleaseIsAnnounced, Live, LinkUp
<1>heard. ASSUME Stays, Fewer,
                 \A id \in pending' :
                    /\ id \in pending
                    /\ call'[id] = "waiting" =>
                          call[id] = "waiting" /\ Held("TCP_CONNECT_ACK", id) /\ Held("ERROR", id)
                    /\ call'[id] = "connected" =>
                          call[id] = "connected" \/ Carries(down[sess], "TCP_CONNECT_ACK", id)
                    /\ Held("TCP_CLOSE", id)
          PROVE  WaitingIsServed' /\ AckedIsAnnounced'
    <2>1. ASSUME NEW id \in pending', Live(id)'
          PROVE  id \in pending /\ Live(id) /\ sess' = sess /\ sess \in Sessions
        BY <1>heard, <1>t, <2>1 DEF Live, LinkUp
    <2>2. WaitingIsServed'
        BY <1>heard, <1>p, <1>t, <2>1 DEF WaitingIsServed
    <2>3. AckedIsAnnounced'
        BY <1>heard, <1>p, <1>t, <2>1 DEF AckedIsAnnounced
    <2> QED
        BY <2>2, <2>3
<1>told. ASSUME Stays, cstate' = "connected" => cstate = "connected",
                \A id \in Ids \ pending' :
                   call'[id] = "connected" =>
                      /\ call[id] = "connected"
                      /\ id \in pending /\ Live(id) /\ cstate' = "connected" /\ id \in conns[sess] =>
                            Carries(up'[sess], "TCP_CLOSE", id)
         PROVE  ReleaseIsAnnounced'
    <2>1. ASSUME NEW id \in Ids, Live(id)'
          PROVE  Live(id) /\ sess' = sess /\ sess \in Sessions
        BY <1>told, <1>t, <2>1 DEF Live, LinkUp
    <2> QED
        BY <1>told, <1>p, <2>1 DEF ReleaseIsAnnounced
<1>close. ASSUME NEW id \in Ids, Send(<<Msg("TCP_CLOSE", id)>>)
          PROVE  More /\ (~isClosed /\ LinkUp(sess) => Carries(up'[sess], "TCP_CLOSE", id))
    <2>1. Msg("TCP_CLOSE", id) \in Message
        BY MessagesAreMessages DEF MessageType
    <2>2. Msg("TCP_CLOSE", id).type = "TCP_CLOSE" /\ Msg("TCP_CLOSE", id).id = id
        BY DEF Msg
    <2> QED
        BY <1>close, <2>1, <2>2, SendOneIsCarried
<1>1. CASE Connect
    BY <1>1, ConnectKeepsNews
<1>2. ASSUME NEW i \in Ids, RequestTimeout(i) PROVE NewsInv'
    <2>1. /\ UNCHANGED <<home, sess, sws, cws, down, cstate, isClosed>> /\ pending' = pending \ {i}
          /\ call[i] = "waiting"
          /\ \A id \in Ids : call'[id] = IF id = i THEN "failed" ELSE call[id]
          /\ Send(<<Msg("TCP_CLOSE", i)>>)
        BY <1>2, <1>t DEF RequestTimeout, WaitingIsTimed
    <2>2. Stays /\ Fewer /\ \A t, id : Held(t, id)
        BY <2>1, <1>same, <1>close
    <2>3. WaitingIsServed' /\ AckedIsAnnounced'
        BY <2>1, <2>2, <1>t, <1>heard
    <2>4. ReleaseIsAnnounced'
        BY <2>1, <2>2, <1>told
    <2> QED
        BY <2>1, <2>2, <2>3, <2>4, <1>ends, <1>true, <1>right
<1>3. ASSUME NEW i \in Ids, Cancel(i) PROVE NewsInv'
    <2>1. /\ UNCHANGED <<home, sess, sws, cws, down, cstate, isClosed, call>> /\ pending' = pending \ {i}
          /\ Send(<<Msg("TCP_CLOSE", i)>>)
        BY <1>3 DEF Cancel
    <2>2. Stays /\ Fewer /\ \A t, id : Held(t, id)
        BY <2>1, <1>same, <1>close
    <2>3. WaitingIsServed' /\ AckedIsAnnounced'
        BY <2>1, <2>2, <1>t, <1>heard
    <2>4. Live(i) => Carries(up'[sess], "TCP_CLOSE", i)
        BY <2>1, <1>close DEF Live, LinkUp, OpenEnds
    <2>5. ReleaseIsAnnounced'
        BY <2>1, <2>2, <2>4, <1>told
    <2> QED
        BY <2>1, <2>2, <2>3, <2>5, <1>ends, <1>true, <1>right
<1>4. ASSUME NEW i \in Ids, Write(i) PROVE NewsInv'
    <2>1. /\ UNCHANGED <<home, sess, sws, cws, down, cstate, isClosed, call, pending>>
          /\ Send(<<DataMsg(i, sent[i] + 1)>>)
          /\ sent[i] + 1 \in 0 .. MaxChunks
        BY <1>4, WireAssumption DEF Write, TypeOK, ClientTypeOK
    <2>2. DataMsg(i, sent[i] + 1) \in Message
        BY <2>1 DEF DataMsg, Message, MessageType
    <2>3. Stays /\ Fewer /\ \A t, id : Held(t, id)
        BY <2>1, <2>2, <1>same, SendOneIsCarried
    <2>4. WaitingIsServed' /\ AckedIsAnnounced' /\ ReleaseIsAnnounced'
        BY <2>1, <2>3, <1>t, <1>heard, <1>told
    <2> QED
        BY <2>1, <2>3, <2>4, <1>ends, <1>true, <1>right
<1>5. ASSUME NEW i \in Ids, CloseWriter(i) PROVE NewsInv'
    <2>1. /\ UNCHANGED <<home, sess, sws, cws, down, cstate, isClosed, call, pending>>
          /\ Send(<<Msg("TCP_CLOSE", i)>>)
        BY <1>5 DEF CloseWriter
    <2>2. Stays /\ Fewer /\ \A t, id : Held(t, id)
        BY <2>1, <1>same, <1>close
    <2>3. WaitingIsServed' /\ AckedIsAnnounced' /\ ReleaseIsAnnounced'
        BY <2>1, <2>2, <1>t, <1>heard, <1>told
    <2> QED
        BY <2>1, <2>2, <2>3, <1>ends, <1>true, <1>right
<1>6. CASE Reap
    <2>1. PICK stale \in SUBSET pending :
              /\ pending' = pending \ stale
              /\ \A id \in Ids : call'[id] = IF id \in stale /\ call[id] = "waiting"
                                            THEN "failed" ELSE call[id]
              /\ \E l \in Listing(stale) : Send([k \in DOMAIN l |-> Msg("TCP_CLOSE", l[k])])
        BY <1>6, <1>t DEF Reap
    <2>2. UNCHANGED <<home, sess, sws, cws, down, cstate, isClosed>> /\ ~isClosed
        BY <1>6 DEF Reap
    <2>3. PICK l \in Listing(stale) : Send([k \in DOMAIN l |-> Msg("TCP_CLOSE", l[k])])
        BY <2>1
    <2> DEFINE ms == [k \in DOMAIN l |-> Msg("TCP_CLOSE", l[k])]
    <2>4. /\ Cardinality(stale) \in Nat
          /\ l \in [1 .. Cardinality(stale) -> stale]
          /\ \A id \in stale : \E k \in DOMAIN l : l[k] = id
        BY <2>1, <1>t, FewerPending, FS_CardinalityType DEF Listing
    <2>5. ms \in Seq(Message)
        <3>1. \A k \in 1 .. Cardinality(stale) : Msg("TCP_CLOSE", l[k]) \in Message
            BY <2>1, <2>4, <1>t, MessagesAreMessages DEF MessageType
        <3> QED
            BY <2>4, <3>1
    <2>6. \A id \in stale : Carries(ms, "TCP_CLOSE", id)
        BY <2>4 DEF Carries, Msg
    <2>7. Send(ms)
        BY <2>3
    <2> HIDE DEF ms
    <2>8. Stays /\ Fewer /\ \A t, id : Held(t, id)
        BY <2>2, <2>5, <2>7, <1>same, SendIsCarried
    <2>9. \A id \in stale : LinkUp(sess) => Carries(up'[sess], "TCP_CLOSE", id)
        BY <2>2, <2>5, <2>6, <2>7, SendIsCarried
    <2>10. WaitingIsServed' /\ AckedIsAnnounced'
        BY <2>1, <2>8, <1>t, <1>heard
    <2>11. ReleaseIsAnnounced'
        BY <2>1, <2>2, <2>8, <2>9, <1>told DEF Live
    <2> QED
        BY <2>1, <2>2, <2>8, <2>10, <2>11, <1>ends, <1>true, <1>right
<1>take. ASSUME NEW m \in Message, Take(m), m.id \in Ids
         PROVE  /\ Fewer /\ Carries(down[sess], m.type, m.id)
                /\ \A t, id : t # m.type \/ id # m.id => Held(t, id)
    BY <1>take, <1>t, TakeIsCarried DEF Take
<1>7. CASE NoHandler
    <2>1. PICK m \in Message :
              /\ Take(m) /\ m.id \in Ids
              /\ m.id \notin pending
              /\ Send(<<Msg("TCP_CLOSE", m.id)>>) \/ UNCHANGED up
        BY <1>7 DEF NoHandler, Message
    <2>2. UNCHANGED <<home, sess, sws, cws, cstate, isClosed, call, pending>>
        BY <1>7 DEF NoHandler
    <2>3. Stays /\ Fewer /\ \A t : \A id \in pending : Held(t, id)
        BY <2>1, <2>2, <1>same, <1>close, <1>take
    <2>4. WaitingIsServed' /\ AckedIsAnnounced' /\ ReleaseIsAnnounced'
        BY <2>2, <2>3, <1>t, <1>heard, <1>told
    <2> QED
        BY <2>2, <2>3, <2>4, <1>ends, <1>true, <1>right
<1>8. CASE ConnectAck
    <2>1. PICK m \in Message :
              /\ Take(m) /\ m.id \in Ids
              /\ m.id \in pending
              /\ m.type = "TCP_CONNECT_ACK"
              /\ call' = call \/ call' = [call EXCEPT ![m.id] = "connected"]
              /\ call'[m.id] # "waiting"
        BY <1>8, <1>t DEF ConnectAck, Message
    <2>2. UNCHANGED <<home, sess, sws, cws, cstate, isClosed, pending, up>>
        BY <1>8 DEF ConnectAck
    <2>3. \A id \in Ids : id # m.id => call'[id] = call[id]
        BY <2>1, <1>t
    <2>4. Stays /\ Fewer /\ \A t, id : t # "TCP_CONNECT_ACK" \/ id # m.id => Held(t, id)
        BY <2>1, <2>2, <1>same, <1>take
    <2>5. Carries(down[sess], "TCP_CONNECT_ACK", m.id)
        BY <2>1, <1>take
    <2>6. WaitingIsServed' /\ AckedIsAnnounced'
        BY <2>1, <2>2, <2>3, <2>4, <2>5, <1>t, <1>heard
    <2>7. ReleaseIsAnnounced'
        BY <2>1, <2>2, <2>3, <2>4, <1>told
    <2>8. home[m.id] # 0 /\ home[m.id] = sess /\ task[sess][m.id] \in Succeeded
        <3>1. sess \in Sessions
            BY <2>1, TakeIsTyped
        <3>2. home[m.id] = sess
            BY <2>5, <3>1 DEF Carries, HomeInv, RepliesAreAtHome
        <3> QED
            BY <2>1, <2>5, <3>1, <3>2 DEF HomeInv, FreshIds, NewsAreTrue
    <2>9. CallersAreRight'
        BY <2>1, <2>2, <2>3, <2>8, <1>p DEF CallersAreRight
    <2> QED
        BY <2>2, <2>4, <2>6, <2>7, <2>9, <1>ends, <1>true
<1>9. CASE StreamData
    <2>1. PICK m \in Message : Take(m) /\ m.id \in Ids /\ m.type = "TCP_DATA"
        BY <1>9 DEF StreamData, Message
    <2>2. UNCHANGED <<home, sess, sws, cws, cstate, isClosed, call, pending, up>>
        BY <1>9 DEF StreamData, EntryHasOpenReader
    <2>3. /\ Stays /\ Fewer
          /\ \A id : Held("TCP_CONNECT_ACK", id) /\ Held("ERROR", id) /\ Held("TCP_CLOSE", id)
        BY <2>1, <2>2, <1>same, <1>take
    <2>4. WaitingIsServed' /\ AckedIsAnnounced' /\ ReleaseIsAnnounced'
        BY <2>2, <2>3, <1>t, <1>heard, <1>told
    <2> QED
        BY <2>2, <2>3, <2>4, <1>ends, <1>true, <1>right
<1>10. CASE StreamClose
    <2>1. PICK m \in Message :
              Take(m) /\ m.id \in Ids /\ m.type = "TCP_CLOSE" /\ pending' = pending \ {m.id}
        BY <1>10 DEF StreamClose, Message
    <2>2. UNCHANGED <<home, sess, sws, cws, cstate, isClosed, call, up>>
        BY <1>10 DEF StreamClose
    <2>3. Stays /\ Fewer /\ \A t, id : t # "TCP_CLOSE" \/ id # m.id => Held(t, id)
        BY <2>1, <2>2, <1>same, <1>take
    <2>4. m.id \notin conns[sess]
        BY <2>1, <1>take, TakeIsTyped DEF NewsAreTrue
    <2>5. WaitingIsServed' /\ AckedIsAnnounced' /\ ReleaseIsAnnounced'
        BY <2>1, <2>2, <2>3, <2>4, <1>t, <1>heard, <1>told
    <2> QED
        BY <2>2, <2>3, <2>5, <1>ends, <1>true, <1>right
<1>11. CASE StreamError
    <2>1. PICK m \in Message :
              /\ Take(m) /\ m.id \in Ids /\ m.type = "ERROR" /\ pending' = pending \ {m.id}
              /\ \A id \in Ids : call'[id] = IF id = m.id /\ call[id] = "waiting"
                                            THEN "failed" ELSE call[id]
        BY <1>11, <1>t DEF StreamError, Message
    <2>2. UNCHANGED <<home, sess, sws, cws, cstate, isClosed, up>>
        BY <1>11 DEF StreamError
    <2>3. Stays /\ Fewer /\ \A t, id : t # "ERROR" \/ id # m.id => Held(t, id)
        BY <2>1, <2>2, <1>same, <1>take
    <2>4. m.id \notin conns[sess]
        BY <2>1, <1>take, TakeIsTyped DEF NewsAreTrue, Rejected
    <2>5. WaitingIsServed' /\ AckedIsAnnounced'
        BY <2>1, <2>2, <2>3, <1>t, <1>heard
    <2>6. ReleaseIsAnnounced'
        BY <2>1, <2>2, <2>3, <2>4, <1>told
    <2> QED
        BY <2>1, <2>2, <2>3, <2>5, <2>6, <1>ends, <1>true, <1>right
<1>off. ASSUME HandleDisconnect
        PROVE  /\ cstate' = "disconnected" /\ pending' \subseteq pending
               /\ \A id \in Ids : call'[id] = call[id] \/ call'[id] = "failed"
               /\ \A id \in pending' : call'[id] = call[id]
    BY <1>off, <1>t DEF HandleDisconnect, RejectPending, TypeOK, ClientTypeOK
<1>lost. ASSUME sess \in Sessions, down' = [down EXCEPT ![sess] = <<>>] PROVE Fewer
    <2>1. \A s \in Sessions : down'[s] = IF s = sess THEN <<>> ELSE down[s]
        BY <1>lost DEF TypeOK, WireTypeOK
    <2> QED
        BY <2>1, CarriesNothing
<1>12. CASE ClientLinkClosed
    <2>1. /\ UNCHANGED <<home, sws, isClosed>> /\ ~cws' /\ HandleDisconnect
          /\ sess \in Sessions /\ down' = [down EXCEPT ![sess] = <<>>]
        BY <1>12, <1>t DEF ClientLinkClosed
    <2>2. OpenEnds'
        BY <2>1, <1>off, <1>p DEF OpenEnds
    <2> QED
        BY <2>1, <2>2, <1>off, <1>lost, <1>true, <1>right, <1>dead
<1>13. CASE HeartbeatTimeout
    <2>1. UNCHANGED <<home, sess, sws, cws, up, down, isClosed>> /\ HandleDisconnect
        BY <1>13 DEF HeartbeatTimeout
    <2>2. OpenEnds'
        BY <2>1, <1>off, <1>p DEF OpenEnds
    <2>3. WaitingIsServed' /\ AckedIsAnnounced'
        BY <2>1, <1>off, <1>t, <1>same, <1>heard
    <2>4. ReleaseIsAnnounced'
        BY <2>1, <1>off DEF ReleaseIsAnnounced
    <2> QED
        BY <2>1, <2>2, <2>3, <2>4, <1>off, <1>true, <1>right
<1>14. CASE CloseClient
    <2>1. /\ UNCHANGED <<home, sws>> /\ ~cws' /\ isClosed' /\ cstate' = "disconnected"
          /\ \A id \in Ids : call'[id] = call[id] \/ call'[id] = "failed"
        BY <1>14, <1>t DEF CloseClient, RejectPending
    <2>2. Fewer
        <3>1. CASE sess = 0
            BY <1>14, <3>1 DEF CloseClient
        <3>2. CASE sess # 0
            BY <1>14, <3>2, <1>lost, WireAssumption
            DEF CloseClient, TypeOK, WireTypeOK, Sessions
        <3> QED
            BY <3>1, <3>2
    <2>3. OpenEnds'
        BY <2>1, <1>p DEF OpenEnds
    <2> QED
        BY <2>1, <2>2, <2>3, <1>true, <1>right, <1>dead
<1> QED
    BY <1>1, <1>2, <1>3, <1>4, <1>5, <1>6, <1>7, <1>8, <1>9, <1>10, <1>11,
       <1>12, <1>13, <1>14 DEF ClientNext

\* The server tells the client of every connect that is over and of every
\* connection that is closed.
LEMMA ProxyStepKeepsNews ==
    ASSUME TypeOK, HomeInv, NewsInv, ProxyNext, UNCHANGED clientVars
    PROVE  NewsInv'
<1> USE DEF NewsInv
<1>t. /\ sws \in [Sessions -> BOOLEAN] /\ tstate \in [Sessions -> TransportState]
      /\ conns \in [Sessions -> SUBSET Ids] /\ task \in [Sessions -> [Ids -> TaskState]]
      /\ up \in [Sessions -> Seq(Message)] /\ pending \subseteq Ids
      /\ cws => sess \in Sessions
      /\ home \in [Ids -> 0 .. MaxSessions]
    BY WireAssumption DEF TypeOK, WireTypeOK, ClientTypeOK, ProxyTypeOK, Sessions
<1>c. UNCHANGED <<home, pending, call, cstate, isClosed>>
    BY DEF clientVars
<1>1. PICK s \in Sessions :
          \/ HandleConnect(s) \/ HandleData(s) \/ HandleClose(s)
          \/ ServerLinkClosed(s) \/ ServerHeartbeatTimeout(s) \/ CloseTransport(s)
          \/ \E id \in Ids :
                \/ ConnectDone(s, id) \/ LateConnect(s, id)
                \/ ReadChunk(s, id) \/ SendChunk(s, id) \/ PipeEnd(s, id)
                \/ WriteFails(s, id)
    BY DEF ProxyNext
<1> DEFINE SameLink == UNCHANGED <<sess, cws, sws, tstate>>
           Heard == \A z \in Sessions : \A t, id : Carries(down[z], t, id) => Carries(down'[z], t, id)
           Stage(z, id) ==
               /\ Carries(down'[z], "TCP_CONNECT_ACK", id) => task'[z][id] \in Succeeded
               /\ Carries(down'[z], "TCP_CLOSE", id) => task'[z][id] \in Succeeded /\ id \notin conns'[z]
               /\ Carries(down'[z], "ERROR", id) => task'[z][id] \in Rejected
               /\ id \in conns'[z] => task'[z][id] \in {"reading", "holding"}
\* A transport that can be heard is not closed.
<1>whole. Whole(sess) <=> LinkUp(sess)
    BY <1>t DEF Whole, LinkUp, OpenEnds
<1>ends. SameLink => OpenEnds'
    BY <1>c DEF OpenEnds
<1>live. ASSUME SameLink, NEW id \in Ids
         PROVE  (Live(id)' <=> Live(id)) /\ (Live(id) => sess \in Sessions /\ LinkUp(sess) /\ home[id] = sess)
    BY <1>c, <1>live, <1>t DEF Live, LinkUp
\* What is said to s, in a step that leaves the link as it is.
<1>true. ASSUME \A z \in Sessions, id \in Ids : Stage(z, id) PROVE NewsAreTrue'
    BY <1>true DEF NewsAreTrue
<1>right. ASSUME \A z \in Sessions, id \in Ids : task[z][id] \in Succeeded => task'[z][id] \in Succeeded
          PROVE  CallersAreRight'
    <2>1. ASSUME NEW id \in Ids, call[id] = "connected"
          PROVE  home[id] # 0 /\ home[id] \in Sessions /\ task[home[id]][id] \in Succeeded
        BY <2>1, <1>t, WireAssumption DEF CallersAreRight, Sessions
    <2> QED
        BY <1>c, <1>right, <2>1 DEF CallersAreRight
<1>served. ASSUME SameLink, Heard,
                  \A id \in Ids : LinkUp(sess) /\ home[id] = sess =>
                     /\ Carries(up[sess], "TCP_CONNECT", id) =>
                           Carries(up'[sess], "TCP_CONNECT", id) \/ task'[sess][id] = "connecting"
                     /\ task[sess][id] = "connecting" =>
                           \/ task'[sess][id] = "connecting"
                           \/ Carries(down'[sess], "TCP_CONNECT_ACK", id)
                           \/ Carries(down'[sess], "ERROR", id)
           PROVE  WaitingIsServed'
    <2> SUFFICES ASSUME NEW id \in pending, call[id] = "waiting", Live(id)'
                 PROVE  \/ Carries(up'[sess], "TCP_CONNECT", id)
                        \/ task'[sess][id] = "connecting"
                        \/ Carries(down'[sess], "TCP_CONNECT_ACK", id)
                        \/ Carries(down'[sess], "ERROR", id)
        BY <1>c, <1>served DEF WaitingIsServed
    <2>1. id \in Ids /\ Live(id) /\ sess \in Sessions /\ LinkUp(sess) /\ home[id] = sess
        BY <1>t, <1>served, <1>live
    <2> QED
        BY <1>served, <2>1 DEF WaitingIsServed
<1>acked. ASSUME SameLink, Heard,
                 \A id \in Ids : LinkUp(sess) /\ home[id] = sess =>
                    /\ id \in conns[sess] /\ id \notin conns'[sess] => Carries(down'[sess], "TCP_CLOSE", id)
                    /\ id \notin conns'[sess] /\ Carries(down'[sess], "TCP_CONNECT_ACK", id) =>
                          Carries(down[sess], "TCP_CONNECT_ACK", id)
          PROVE  AckedIsAnnounced'
    <2> SUFFICES ASSUME NEW id \in pending, Live(id)', id \notin conns'[sess],
                        call[id] = "connected" \/ Carries(down'[sess], "TCP_CONNECT_ACK", id)
                 PROVE  Carries(down'[sess], "TCP_CLOSE", id)
        BY <1>c, <1>acked DEF AckedIsAnnounced
    <2>1. id \in Ids /\ Live(id) /\ sess \in Sessions /\ LinkUp(sess) /\ home[id] = sess
        BY <1>t, <1>acked, <1>live
    <2> QED
        BY <1>acked, <2>1 DEF AckedIsAnnounced
<1>told. ASSUME SameLink,
                \A id \in Ids : LinkUp(sess) /\ home[id] = sess /\ id \in conns'[sess] =>
                   /\ id \in conns[sess] \/ call[id] # "connected"
                   /\ Carries(up[sess], "TCP_CLOSE", id) => Carries(up'[sess], "TCP_CLOSE", id)
         PROVE  ReleaseIsAnnounced'
    <2> SUFFICES ASSUME NEW id \in Ids \ pending, call[id] = "connected", Live(id)',
                        cstate = "connected", id \in conns'[sess]
                 PROVE  Carries(up'[sess], "TCP_CLOSE", id)
        BY <1>c, <1>told DEF ReleaseIsAnnounced
    <2>1. id \in Ids /\ Live(id) /\ sess \in Sessions /\ LinkUp(sess) /\ home[id] = sess
        BY <1>t, <1>told, <1>live
    <2> QED
        BY <1>told, <2>1 DEF ReleaseIsAnnounced
\* The link of session s ends: nothing is promised there any more.
<1>over. ASSUME UNCHANGED <<sess, cws, down, task>>, sws' = [sws EXCEPT ![s] = FALSE],
                \A z \in Sessions : z # s => up'[z] = up[z] /\ conns'[z] = conns[z] /\ tstate'[z] = tstate[z],
                conns'[s] \subseteq conns[s]
         PROVE  NewsInv'
    <2>1. ~LinkUp(s)' /\ \A z \in Sessions : z # s => sws'[z] = sws[z]
        BY <1>over, <1>t DEF LinkUp
    <2>2. OpenEnds'
        BY <1>over, <1>c, <1>t, <2>1 DEF OpenEnds
    <2>3. NewsAreTrue'
        BY <1>over DEF NewsAreTrue
    <2>4. CallersAreRight'
        BY <1>over, <1>c DEF CallersAreRight
    <2>5. ASSUME NEW id \in Ids, Live(id)'
          PROVE  Live(id) /\ sess \in Sessions /\ sess # s /\ up'[sess] = up[sess] /\ conns'[sess] = conns[sess]
        BY <1>over, <1>c, <1>t, <2>1, <2>5 DEF Live, LinkUp
    <2>6. WaitingIsServed'
        BY <1>over, <1>c, <1>t, <2>5 DEF WaitingIsServed
    <2>7. AckedIsAnnounced'
        BY <1>over, <1>c, <1>t, <2>5 DEF AckedIsAnnounced
    <2>8. ReleaseIsAnnounced'
        BY <1>over, <1>c, <1>t, <2>5 DEF ReleaseIsAnnounced
    <2> QED
        BY <2>2, <2>3, <2>4, <2>6, <2>7, <2>8
<1> HIDE DEF NewsInv
<1>all. ASSUME OpenEnds', NewsAreTrue', CallersAreRight', WaitingIsServed', AckedIsAnnounced',
               ReleaseIsAnnounced'
        PROVE  NewsInv'
    BY <1>all DEF NewsInv
<1>n. /\ NewsAreTrue /\ CallersAreRight
      /\ \A z \in Sessions, id \in Ids :
            call[id] = "connected" /\ home[id] = z => task[z][id] \in Succeeded
    BY DEF NewsInv, CallersAreRight
\* The listeners take m.
<1>take. ASSUME NEW m \in Message, Receive(s, m)
         PROVE  \A t, id : t # m.type \/ id # m.id \/ sess # s =>
                    (Carries(up[sess], t, id) /\ sess \in Sessions => Carries(up'[sess], t, id))
    BY <1>take, ReceiveIsCarried
\* A connection of s is closed, or there was none.
<1>close. ASSUME NEW i \in Ids, Close(s, i), SameLink
          PROVE  /\ Heard
                 /\ \A z \in Sessions, id \in Ids : \A t :
                       Carries(down'[z], t, id) =>
                           \/ Carries(down[z], t, id)
                           \/ z = s /\ id = i /\ t = "TCP_CLOSE" /\ i \in conns[s]
                 /\ \A z \in Sessions, id \in Ids :
                       id \in conns'[z] <=> id \in conns[z] /\ ~(z = s /\ id = i)
                 /\ LinkUp(sess) /\ s = sess /\ i \in conns[s] => Carries(down'[s], "TCP_CLOSE", i)
    <2>1. Msg("TCP_CLOSE", i) \in Message
        BY MessagesAreMessages DEF MessageType
    <2>2. Msg("TCP_CLOSE", i).type = "TCP_CLOSE" /\ Msg("TCP_CLOSE", i).id = i
        BY DEF Msg
    <2>3. CASE i \in conns[s]
        <3>1. Reply(s, Msg("TCP_CLOSE", i)) /\ conns' = [conns EXCEPT ![s] = @ \ {i}]
            BY <1>close, <2>3 DEF Close
        <3>2. \A z \in Sessions : \A t, id :
                  Carries(down'[z], t, id) <=>
                      \/ Carries(down[z], t, id)
                      \/ z = s /\ "TCP_CLOSE" = t /\ i = id /\ Whole(s)
            BY <2>1, <2>2, <3>1, ReplyIsCarried
        <3> QED
            BY <1>t, <1>whole, <2>3, <3>1, <3>2
    <2>4. CASE i \notin conns[s]
        BY <1>close, <1>t, <2>4 DEF Close
    <2> QED
        BY <2>3, <2>4
<1>closed. ASSUME NEW i \in Ids, Close(s, i), SameLink,
                  \A z \in Sessions, id \in Ids :
                     \/ task'[z][id] = task[z][id]
                     \/ z = s /\ id = i /\ task[z][id] = "reading" /\ task'[z][id] \in {"ended", "cut"},
                  \A t, id : t = "TCP_CONNECT" \/ id # i \/ sess # s =>
                     (Carries(up[sess], t, id) /\ sess \in Sessions => Carries(up'[sess], t, id))
           PROVE  NewsInv'
    <2>1. Heard
        BY <1>close, <1>closed
    <2>2. \A z \in Sessions, id \in Ids : \A t :
              Carries(down'[z], t, id) =>
                  Carries(down[z], t, id) \/ (z = s /\ id = i /\ t = "TCP_CLOSE" /\ i \in conns[s])
        BY <1>close, <1>closed
    <2>3. \A z \in Sessions, id \in Ids :
              id \in conns'[z] <=> id \in conns[z] /\ ~(z = s /\ id = i)
        BY <1>close, <1>closed
    <2>4. LinkUp(sess) /\ s = sess /\ i \in conns[s] => Carries(down'[s], "TCP_CLOSE", i)
        BY <1>close, <1>closed
    <2>5. ASSUME NEW z \in Sessions, NEW id \in Ids PROVE Stage(z, id)
        <3>1. task[z][id] \in Succeeded => task'[z][id] \in Succeeded
            BY <1>closed DEF Succeeded
        <3>2. task[z][id] \in Rejected => task'[z][id] = task[z][id]
            BY <1>closed DEF Rejected
        <3>3. id \in conns'[z] => task'[z][id] = task[z][id]
            BY <1>closed, <2>3
        <3>4. id \in conns[z] => task[z][id] \in {"reading", "holding"} /\ task[z][id] \in Succeeded
            BY <1>n DEF NewsAreTrue, Succeeded
        <3>5. /\ Carries(down[z], "TCP_CONNECT_ACK", id) => task[z][id] \in Succeeded
              /\ Carries(down[z], "TCP_CLOSE", id) => task[z][id] \in Succeeded /\ id \notin conns[z]
              /\ Carries(down[z], "ERROR", id) => task[z][id] \in Rejected
            BY <1>n DEF NewsAreTrue
        <3> QED
            BY <2>2, <2>3, <3>1, <3>2, <3>3, <3>4, <3>5
    <2>6. CallersAreRight'
        BY <1>closed, <1>right DEF Succeeded
    <2>7. WaitingIsServed'
        BY <1>closed, <1>served, <1>t, <2>1 DEF LinkUp
    <2>c. SameLink /\ (LinkUp(sess) => sess \in Sessions)
        BY <1>closed, <1>t DEF LinkUp
    <2>8. AckedIsAnnounced'
        <3>1. \A id \in Ids : LinkUp(sess) /\ home[id] = sess =>
                  /\ id \in conns[sess] /\ id \notin conns'[sess] => Carries(down'[sess], "TCP_CLOSE", id)
                  /\ id \notin conns'[sess] /\ Carries(down'[sess], "TCP_CONNECT_ACK", id) =>
                        Carries(down[sess], "TCP_CONNECT_ACK", id)
            BY <2>2, <2>3, <2>4, <2>c
        <3> QED
            BY <1>acked, <2>1, <2>c, <3>1
    <2>9. ReleaseIsAnnounced'
        <3>1. \A id \in Ids : LinkUp(sess) /\ home[id] = sess /\ id \in conns'[sess] =>
                  /\ id \in conns[sess] \/ call[id] # "connected"
                  /\ Carries(up[sess], "TCP_CLOSE", id) => Carries(up'[sess], "TCP_CLOSE", id)
            <4> SUFFICES ASSUME NEW id \in Ids, LinkUp(sess), id \in conns'[sess]
                         PROVE  /\ id \in conns[sess]
                                /\ Carries(up[sess], "TCP_CLOSE", id) => Carries(up'[sess], "TCP_CLOSE", id)
                OBVIOUS
            <4>1. id \in conns[sess] /\ ~(sess = s /\ id = i)
                BY <2>3, <2>c
            <4>2. QED
                BY <1>closed, <2>c, <4>1
        <3> QED
            BY <1>told, <2>c, <3>1
    <2> QED
        BY <1>all, <1>closed, <1>ends, <1>true, <2>5, <2>6, <2>7, <2>8, <2>9
<1>2. CASE HandleConnect(s)
    <2>1. PICK m \in Message :
              Receive(s, m) /\ m.id \in Ids /\ m.type = "TCP_CONNECT" /\ SetTask(s, m.id, "connecting")
        BY <1>2 DEF HandleConnect, Message
    <2>2. SameLink /\ UNCHANGED <<down, conns>>
        BY <1>2 DEF HandleConnect
    <2>3. task[s][m.id] = "none" /\ home[m.id] = s
        <3>1. up[s] # <<>> /\ m = up[s][1] /\ 1 \in DOMAIN up[s]
            BY <1>t, <2>1 DEF Receive
        <3> QED
            BY <2>1, <3>1 DEF HomeInv, RequestsAreFresh
    <2>4. \A z \in Sessions, id \in Ids :
              task'[z][id] = IF z = s /\ id = m.id THEN "connecting" ELSE task[z][id]
        BY <1>t, <2>1 DEF SetTask
    <2>5. \A z \in Sessions, id \in Ids : Stage(z, id)
        BY <1>n, <2>2, <2>3, <2>4 DEF NewsAreTrue, Succeeded, Rejected
    <2>6. CallersAreRight'
        BY <1>right, <2>3, <2>4 DEF Succeeded
    <2>7. WaitingIsServed'
        BY <1>served, <1>take, <1>t, <2>1, <2>2, <2>3, <2>4 DEF LinkUp
    <2>8. AckedIsAnnounced' /\ ReleaseIsAnnounced'
        BY <1>acked, <1>told, <1>take, <1>t, <2>1, <2>2 DEF LinkUp
    <2> QED
        BY <1>all, <1>ends, <1>true, <2>2, <2>5, <2>6, <2>7, <2>8
<1>3. CASE HandleData(s)
    <2>1. PICK m \in Message : Receive(s, m) /\ m.type = "TCP_DATA"
        BY <1>3 DEF HandleData
    <2>2. SameLink /\ UNCHANGED <<down, conns, task>>
        BY <1>3 DEF HandleData
    <2>3. WaitingIsServed' /\ AckedIsAnnounced' /\ ReleaseIsAnnounced'
        BY <1>served, <1>acked, <1>told, <1>take, <1>t, <2>1, <2>2 DEF LinkUp
    <2>4. NewsAreTrue' /\ CallersAreRight'
        BY <1>c, <1>n, <2>2 DEF NewsAreTrue, CallersAreRight
    <2> QED
        BY <1>all, <1>ends, <2>2, <2>3, <2>4
<1>4. CASE HandleClose(s)
    <2>1. PICK m \in Message : Receive(s, m) /\ m.id \in Ids /\ m.type = "TCP_CLOSE" /\ Close(s, m.id)
        BY <1>4 DEF HandleClose, Message
    <2>2. SameLink /\ UNCHANGED task
        BY <1>4 DEF HandleClose
    <2>3. \A t, id : t = "TCP_CONNECT" \/ id # m.id \/ sess # s =>
              (Carries(up[sess], t, id) /\ sess \in Sessions => Carries(up'[sess], t, id))
        BY <1>take, <2>1
    <2> QED
        BY <1>closed, <2>1, <2>2, <2>3
<1>5. CASE ServerLinkClosed(s)
    BY <1>5, <1>t, <1>over DEF ServerLinkClosed, LinkLost
<1>6. CASE ServerHeartbeatTimeout(s)
    <2>1. /\ UNCHANGED <<sess, cws, sws, up, down, conns, task>>
          /\ tstate' = [tstate EXCEPT ![s] = "disconnected"]
        BY <1>6 DEF ServerHeartbeatTimeout, HeartbeatLost
    <2>2. OpenEnds'
        BY <1>c, <1>t, <2>1 DEF NewsInv, OpenEnds
    <2> QED
        BY <1>all, <1>c, <2>1, <2>2
        DEF NewsInv, NewsAreTrue, CallersAreRight, WaitingIsServed, AckedIsAnnounced,
            ReleaseIsAnnounced, Live, LinkUp
<1>7. CASE CloseTransport(s)
    BY <1>7, <1>t, <1>over DEF CloseTransport, EndTransport
\* A connect is over, m says how.
<1>done. ASSUME NEW i \in Ids, task[s][i] = "connecting", SameLink, UNCHANGED up,
                NEW t \in {"TCP_CONNECT_ACK", "ERROR"}, Reply(s, Msg(t, i)),
                NEW state \in TaskState, SetTask(s, i, state),
                \/ /\ t = "TCP_CONNECT_ACK" /\ state = "reading"
                   /\ conns' = [conns EXCEPT ![s] = @ \cup {i}]
                \/ t = "ERROR" /\ state \in {"refused", "abandoned"} /\ UNCHANGED conns
         PROVE  NewsInv'
    <2>1. Msg(t, i) \in Message /\ Msg(t, i).type = t /\ Msg(t, i).id = i
        BY <1>done, MessagesAreMessages DEF MessageType, Msg
    <2>2. \A z \in Sessions : \A u, id :
              Carries(down'[z], u, id) <=>
                  Carries(down[z], u, id) \/ (z = s /\ t = u /\ i = id /\ Whole(s))
        <3>1. \A z \in Sessions : \A u, id :
                  Carries(down'[z], u, id) <=>
                      \/ Carries(down[z], u, id)
                      \/ z = s /\ Msg(t, i).type = u /\ Msg(t, i).id = id /\ Whole(s)
            BY <1>done, <2>1, ReplyIsCarried
        <3> QED
            BY <2>1, <3>1
    <2>3. \A z \in Sessions, id \in Ids :
              task'[z][id] = IF z = s /\ id = i THEN state ELSE task[z][id]
        BY <1>done, <1>t DEF SetTask
    <2>4. \A z \in Sessions, id \in Ids :
              \/ id \in conns'[z] <=> id \in conns[z]
              \/ z = s /\ id = i /\ t = "TCP_CONNECT_ACK"
        BY <1>done, <1>t
    <2>5. t = "TCP_CONNECT_ACK" => i \in conns'[s] /\ state = "reading"
        BY <1>done, <1>t
    <2>6. SameLink /\ (LinkUp(sess) => sess \in Sessions)
        BY <1>done, <1>t DEF LinkUp
    <2>7. ASSUME NEW z \in Sessions, NEW id \in Ids PROVE Stage(z, id)
        <3>1. /\ Carries(down[z], "TCP_CONNECT_ACK", id) => task[z][id] \in Succeeded
              /\ Carries(down[z], "TCP_CLOSE", id) => task[z][id] \in Succeeded /\ id \notin conns[z]
              /\ Carries(down[z], "ERROR", id) => task[z][id] \in Rejected
              /\ id \in conns[z] => task[z][id] \in {"reading", "holding"}
            BY <1>n DEF NewsAreTrue
        <3>2. CASE z = s /\ id = i
            BY <1>done, <2>2, <2>3, <2>4, <2>5, <3>1, <3>2 DEF Succeeded, Rejected
        <3>3. CASE ~(z = s /\ id = i)
            BY <2>2, <2>3, <2>4, <3>1, <3>3
        <3> QED
            BY <3>2, <3>3
    <2>8. CallersAreRight'
        BY <1>done, <1>right, <2>3 DEF Succeeded
    <2>9. Heard
        BY <2>2
    <2>10. WaitingIsServed'
        <3>1. \A id \in Ids : LinkUp(sess) /\ home[id] = sess =>
                  /\ Carries(up[sess], "TCP_CONNECT", id) =>
                        Carries(up'[sess], "TCP_CONNECT", id) \/ task'[sess][id] = "connecting"
                  /\ task[sess][id] = "connecting" =>
                        \/ task'[sess][id] = "connecting"
                        \/ Carries(down'[sess], "TCP_CONNECT_ACK", id)
                        \/ Carries(down'[sess], "ERROR", id)
            BY <1>done, <1>whole, <2>2, <2>3, <2>6
        <3> QED
            BY <1>served, <2>6, <2>9, <3>1
    <2>11. AckedIsAnnounced'
        <3>1. \A id \in Ids : LinkUp(sess) /\ home[id] = sess =>
                  /\ id \in conns[sess] /\ id \notin conns'[sess] => Carries(down'[sess], "TCP_CLOSE", id)
                  /\ id \notin conns'[sess] /\ Carries(down'[sess], "TCP_CONNECT_ACK", id) =>
                        Carries(down[sess], "TCP_CONNECT_ACK", id)
            BY <2>2, <2>4, <2>5, <2>6
        <3> QED
            BY <1>acked, <2>6, <2>9, <3>1
    <2>12. ReleaseIsAnnounced'
        <3>1. \A id \in Ids : LinkUp(sess) /\ home[id] = sess /\ id \in conns'[sess] =>
                  id \in conns[sess] \/ call[id] # "connected"
            BY <1>done, <1>n, <2>4, <2>6 DEF Succeeded
        <3> QED
            BY <1>done, <1>told, <2>6, <3>1
    <2> QED
        BY <1>all, <1>ends, <1>true, <2>6, <2>7, <2>8, <2>10, <2>11, <2>12
<1>8. ASSUME NEW i \in Ids, ConnectDone(s, i) PROVE NewsInv'
    <2>1. CASE ConnectOk(s, i)
        BY <2>1, <1>done DEF ConnectOk, TaskState
    <2>2. CASE ConnectFail(s, i)
        BY <2>2, <1>done DEF ConnectFail, TaskState
    <2>3. CASE ConnectTimeout(s, i)
        BY <2>3, <1>done DEF ConnectTimeout, TaskState
    <2> QED
        BY <1>8, <2>1, <2>2, <2>3 DEF ConnectDone
\* The task of a call goes on, which is at most a chunk sent.
<1>goes. ASSUME NEW i \in Ids, SameLink, UNCHANGED <<up, conns>>,
                NEW state \in TaskState, SetTask(s, i, state),
                \/ task[s][i] = "abandoned" /\ state \in Rejected
                \/ {task[s][i], state} = {"reading", "holding"},
                Heard,
                \A z \in Sessions : \A t, id : t # "TCP_DATA" =>
                    (Carries(down'[z], t, id) <=> Carries(down[z], t, id))
         PROVE  NewsInv'
    <2>1. \A z \in Sessions, id \in Ids :
              task'[z][id] = IF z = s /\ id = i THEN state ELSE task[z][id]
        BY <1>goes, <1>t DEF SetTask
    <2>2. SameLink /\ (LinkUp(sess) => sess \in Sessions)
        BY <1>goes, <1>t DEF LinkUp
    <2>3. ASSUME NEW z \in Sessions, NEW id \in Ids PROVE Stage(z, id)
        BY <1>goes, <1>n, <2>1 DEF NewsAreTrue, Succeeded, Rejected
    <2>4. CallersAreRight'
        BY <1>goes, <1>right, <2>1 DEF Succeeded, Rejected
    <2>5. WaitingIsServed' /\ AckedIsAnnounced' /\ ReleaseIsAnnounced'
        <3>1. \A id \in Ids : task'[s][id] = "connecting" <=> task[s][id] = "connecting"
            BY <1>goes, <2>1 DEF Rejected
        <3>2. \A z \in Sessions, id \in Ids :
                  task'[z][id] = "connecting" <=> task[z][id] = "connecting"
            BY <2>1, <3>1
        <3> QED
            BY <1>goes, <1>served, <1>acked, <1>told, <2>2, <3>2
    <2> QED
        BY <1>all, <1>ends, <1>true, <2>2, <2>3, <2>4, <2>5
<1>9. ASSUME NEW i \in Ids, LateConnect(s, i) PROVE NewsInv'
    <2>1. PICK state \in {"leaked", "refused"} : SetTask(s, i, state)
        BY <1>9 DEF LateConnect
    <2> QED
        BY <1>9, <2>1, <1>goes DEF LateConnect, Rejected, TaskState
<1>10. ASSUME NEW i \in Ids, ReadChunk(s, i) PROVE NewsInv'
    BY <1>10, <1>goes DEF ReadChunk, TaskState
<1>11. ASSUME NEW i \in Ids, SendChunk(s, i) PROVE NewsInv'
    <2> DEFINE m == DataMsg(i, produced[s][i])
    <2>1. m \in Message /\ m.type = "TCP_DATA"
        BY DEF TypeOK, ProxyTypeOK, DataMsg, Message, MessageType
    <2>2. Reply(s, m)
        BY <1>11 DEF SendChunk
    <2> HIDE DEF m
    <2>3. Heard /\ \A z \in Sessions : \A t, id : t # "TCP_DATA" =>
              (Carries(down'[z], t, id) <=> Carries(down[z], t, id))
        BY <2>1, <2>2, ReplyIsCarried
    <2> QED
        BY <1>11, <2>3, <1>goes DEF SendChunk, TaskState
<1>12. ASSUME NEW i \in Ids, PipeEnd(s, i) PROVE NewsInv'
    <2>1. Close(s, i) /\ SameLink /\ UNCHANGED up
        BY <1>12 DEF PipeEnd
    <2>2. \A z \in Sessions, id \in Ids :
              \/ task'[z][id] = task[z][id]
              \/ z = s /\ id = i /\ task[z][id] = "reading" /\ task'[z][id] \in {"ended", "cut"}
        BY <1>12, <1>t DEF PipeEnd, SetTask
    <2> QED
        BY <1>closed, <2>1, <2>2
<1>13. ASSUME NEW i \in Ids, WriteFails(s, i) PROVE NewsInv'
    <2>1. Close(s, i) /\ SameLink /\ UNCHANGED <<up, task>>
        BY <1>13 DEF WriteFails
    <2> QED
        BY <1>closed, <2>1
<1> QED
    BY <1>1, <1>2, <1>3, <1>4, <1>5, <1>6, <1>7, <1>8, <1>9, <1>10, <1>11, <1>12, <1>13

\* A new session begins with nobody in it.
LEMMA NewSessionKeepsNews ==
    ASSUME TypeOK, HomeInv, NewsInv, NewSession
    PROVE  NewsInv'
<1> DEFINE s == sess + 1
<1>1. /\ s \in Sessions /\ sess \in 0 .. MaxSessions
      /\ \A id \in Ids : home[id] <= sess /\ home[id] \in 0 .. MaxSessions
    BY WireAssumption
    DEF NewSession, Assign, TypeOK, WireTypeOK, ClientTypeOK, Sessions, HomeInv, FreshIds
<1>2. /\ UNCHANGED <<down, home, pending, call, conns, task, isClosed>>
      /\ sess' = s /\ ~isClosed /\ tstate[s] = "none"
      /\ tstate' = [tstate EXCEPT ![s] = "connected"]
      /\ sws' = [sws EXCEPT ![s] = TRUE]
      /\ cws' = TRUE
    BY DEF NewSession, Assign, Accept, AssignSocket
<1>3. \A id \in Ids : ~Live(id)'
    <2>1. \A id \in Ids : home[id] # s
        BY <1>1
    <2> HIDE DEF s
    <2> QED
        BY <1>2, <2>1 DEF Live
<1> HIDE DEF s
<1>4. OpenEnds'
    BY <1>1, <1>2 DEF NewsInv, OpenEnds, TypeOK, WireTypeOK, ProxyTypeOK
<1>5. NewsAreTrue' /\ CallersAreRight'
    BY <1>2 DEF NewsInv, NewsAreTrue, CallersAreRight
<1>6. pending \subseteq Ids
    BY DEF TypeOK, ClientTypeOK
<1>7. WaitingIsServed' /\ AckedIsAnnounced' /\ ReleaseIsAnnounced'
    BY <1>2, <1>3, <1>6 DEF WaitingIsServed, AckedIsAnnounced, ReleaseIsAnnounced
<1> QED
    BY <1>4, <1>5, <1>7 DEF NewsInv

LEMMA InitIsNews == Init => NewsInv
BY DEF Init, WireInit, ClientInit, ProxyInit, NewsInv, OpenEnds, NewsAreTrue, CallersAreRight,
       WaitingIsServed, AckedIsAnnounced, ReleaseIsAnnounced, Live, LinkUp, Carries

LEMMA NewsAreKept == Spec => []NewsInv
<1>1. TypeOK /\ HomeInv /\ WaitingIsTimed /\ EntryHasOpenReader /\ NewsInv /\ [Next]_vars
      => NewsInv'
    <2> SUFFICES ASSUME TypeOK, HomeInv, WaitingIsTimed, EntryHasOpenReader, NewsInv, [Next]_vars
                 PROVE  NewsInv'
        OBVIOUS
    <2>1. CASE UNCHANGED vars
        BY <2>1
        DEF vars, wireVars, clientVars, proxyVars, NewsInv, OpenEnds, NewsAreTrue, CallersAreRight,
            WaitingIsServed, AckedIsAnnounced, ReleaseIsAnnounced, Live, LinkUp
    <2> QED
        BY <2>1, ClientStepKeepsNews, ProxyStepKeepsNews, NewSessionKeepsNews DEF Next
<1> QED
    BY <1>1, InitIsNews, TypesAreCorrect, CallsStayHome, CallsAreKept, PTL DEF Spec

\* No caller waits for an answer nobody is working on: whatever the two ends do,
\* in any order, until one of them gives up the link, the request of a pending
\* connectTCP, the connect of the server or its answer is there.
THEOREM CallsAreServed == Spec => []WaitingIsServed
BY NewsAreKept, PTL DEF NewsInv

\* The reader of a stream whose connection the server has closed, for whatever
\* reason and also before the client had the ACK, is told.
THEOREM ClosesAreAnnounced == Spec => []CloseIsAnnounced
<1>1. NewsInv => CloseIsAnnounced
    BY DEF NewsInv, AckedIsAnnounced, CloseIsAnnounced
<1> QED
    BY <1>1, NewsAreKept, PTL

\* The server is told of every stream the client has given up: by a cancelled
\* reader or by the reaper.
THEOREM ReleasesAreAnnounced == Spec => []ReleaseIsAnnounced
BY NewsAreKept, PTL DEF NewsInv

-----------------------------------------------------------------------------
(* Clean ends                                                              *)

LEMMA ChunksFirstAppend ==
    ASSUME NEW ch \in Seq(Message), NEW m \in Message, NEW id \in Ids,
           ~IsChunk(m, id), ChunksFirst(ch, id),
           m.type # "TCP_CLOSE" \/ m.id # id \/ ~Carries(ch, "TCP_CLOSE", id)
    PROVE  ChunksFirst(Append(ch, m), id)
<1> DEFINE new == Append(ch, m)
           n == Len(ch) + 1
<1>1. /\ DOMAIN new = DOMAIN ch \cup {n}
      /\ \A k \in DOMAIN ch : new[k] = ch[k] /\ k < n
      /\ new[n] = m
    BY AppendElements
<1> HIDE DEF new, n
<1>2. ChunksFirst(new, id)
    BY <1>1 DEF ChunksFirst
<1> QED
    BY <1>2 DEF new

LEMMA ChunksFirstTail ==
    ASSUME NEW ch \in Seq(Message), ch # <<>>, NEW id \in Ids, ChunksFirst(ch, id)
    PROVE  /\ ChunksFirst(Tail(ch), id)
           /\ Head(ch).type = "TCP_CLOSE" /\ Head(ch).id = id =>
                 \A k \in DOMAIN ch : ~IsChunk(ch[k], id)
<1> DEFINE new == Tail(ch)
<1>1. /\ Head(ch) = ch[1] /\ 1 \in DOMAIN ch
      /\ \A k \in DOMAIN new : k + 1 \in DOMAIN ch /\ new[k] = ch[k + 1] /\ k \in Nat
    BY TailElements
<1>2. \A k \in DOMAIN ch : ~(k < 1)
    OBVIOUS
<1> HIDE DEF new
<1>3. ChunksFirst(new, id)
    BY <1>1 DEF ChunksFirst
<1>4. Head(ch).type = "TCP_CLOSE" /\ Head(ch).id = id => \A k \in DOMAIN ch : ~IsChunk(ch[k], id)
    BY <1>1, <1>2 DEF ChunksFirst
<1> QED
    BY <1>3, <1>4 DEF new

\* The client takes a message of a stream whose target has ended.
LEMMA TakeKeepsTheEnd ==
    ASSUME TypeOK, HomeInv, ChunksInv, CloseComesLast, NEW m \in Message, Take(m),
           NEW s \in Sessions, NEW id \in Ids, task[s][id] = "ended",
           UNCHANGED <<task, produced>>, id \in pending' => id \in pending,
           \/ rcvd'[id] = rcvd[id] /\ (id \notin pending' \/ ~IsChunk(m, id))
           \/ id \in pending /\ IsChunk(m, id) /\ rcvd'[id] = Append(rcvd[id], m.chunk)
    PROVE  /\ ChunksFirst(down'[s], id)
           /\ id \in pending' /\ Carries(down'[s], "TCP_CLOSE", id) =>
                 Reaches(down'[s], id, Len(rcvd'[id]), produced'[s][id])
<1> DEFINE ch == down[s]
           got == Len(rcvd[id])
           top == produced[s][id]
<1>1. /\ ch \in Seq(Message) /\ rcvd[id] \in Seq(0 .. MaxChunks) /\ got \in Nat /\ top \in Nat
      /\ home[id] = s /\ s # 0
    <2>1. ch \in Seq(Message) /\ rcvd[id] \in Seq(0 .. MaxChunks) /\ got \in Nat
        BY DEF TypeOK, WireTypeOK, ClientTypeOK
    <2>2. top \in Nat
        BY SentUpIsNumber
    <2>3. home[id] = s /\ s # 0
        BY WireAssumption DEF HomeInv, WorkIsAtHome, Sessions
    <2> QED
        BY <2>1, <2>2, <2>3
<1>2. /\ ChunksFirst(ch, id)
      /\ id \in pending /\ Carries(ch, "TCP_CLOSE", id) => Reaches(ch, id, got, top)
    BY DEF CloseComesLast
<1>3. id \in pending => InFlight(ch, id, got, top)
    BY <1>1 DEF ChunksInv, DeliveryOf, Delivery, SentUp
<1>4. Carries(down'[s], "TCP_CLOSE", id) => Carries(ch, "TCP_CLOSE", id)
    BY TakeIsCarried
<1>5. CASE s # sess
    <2>1. down'[s] = ch
        BY <1>5, TakeIsTyped DEF Take, TypeOK, WireTypeOK
    <2>2. m.id # id
        <3>1. /\ sess \in Sessions /\ down[sess] # <<>> /\ m = Head(down[sess])
              /\ down[sess] \in Seq(Message)
            BY TakeIsTyped DEF Take, TypeOK, WireTypeOK
        <3>2. 1 \in DOMAIN down[sess] /\ m = down[sess][1]
            BY <3>1
        <3>3. home[m.id] = sess
            BY <3>1, <3>2 DEF HomeInv, RepliesAreAtHome
        <3> QED
            BY <1>1, <1>5, <3>3
    <2>3. rcvd'[id] = rcvd[id]
        BY <2>2 DEF IsChunk
    <2> QED
        BY <1>2, <2>1, <2>3
<1>6. CASE s = sess
    <2>1. ch # <<>> /\ m = Head(ch) /\ down'[s] = Tail(ch)
        BY <1>6 DEF Take, TypeOK, WireTypeOK
    <2>2. ChunksFirst(down'[s], id)
        BY <1>1, <1>2, <2>1, ChunksFirstTail
    <2>3. ASSUME id \in pending', Carries(ch, "TCP_CLOSE", id)
          PROVE  Reaches(Tail(ch), id, Len(rcvd'[id]), top)
        <3>1. CASE rcvd'[id] = rcvd[id] /\ ~IsChunk(m, id)
            BY <1>1, <1>2, <2>1, <2>3, <3>1, TailOther
        <3>2. CASE IsChunk(m, id) /\ rcvd'[id] = Append(rcvd[id], m.chunk)
            <4>1. Reaches(Tail(ch), id, got + 1, top)
                BY <1>1, <1>2, <1>3, <2>1, <2>3, <3>2, TailNext
            <4>2. Len(rcvd'[id]) = got + 1
                BY <1>1, <3>2 DEF Message
            <4> QED
                BY <4>1, <4>2
        <3> QED
            BY <2>3, <3>1, <3>2
    <2> QED
        BY <1>4, <2>1, <2>2, <2>3
<1> QED
    BY <1>5, <1>6

\* A reader is closed by the TCP_CLOSE of its connection, after all chunks.
LEMMA ClientStepKeepsEnds ==
    ASSUME TypeOK, HomeInv, EntryHasOpenReader, ChunksInv, NewsInv, EndsInv,
           ClientNext, UNCHANGED proxyVars
    PROVE  EndsInv'
<1>t. /\ reader \in [Ids -> ReaderState] /\ home \in [Ids -> 0 .. MaxSessions]
      /\ pending \subseteq Ids
    BY DEF TypeOK, ClientTypeOK
<1>p. UNCHANGED <<conns, task, produced>>
    BY DEF proxyVars
<1> DEFINE AtEnd(s, id) ==
               /\ ChunksFirst(down'[s], id)
               /\ id \in pending' /\ Carries(down'[s], "TCP_CLOSE", id) =>
                     Reaches(down'[s], id, Len(rcvd'[id]), produced'[s][id])
\* A reader that is not closed now keeps what it got.
<1>all. ASSUME \A s \in Sessions, id \in Ids : task[s][id] = "ended" => AtEnd(s, id),
               \A id \in Ids : reader'[id] = "closed" =>
                  /\ home'[id] = home[id]
                  /\ \/ reader[id] = "closed" /\ rcvd'[id] = rcvd[id]
                     \/ /\ home[id] # 0
                        /\ CutShort(home[id], id) \/ (/\ task[home[id]][id] = "ended"
                                                      /\ Len(rcvd'[id]) = produced[home[id]][id])
        PROVE  EndsInv'
    <2>1. CloseComesLast'
        BY <1>all, <1>p DEF CloseComesLast
    <2>2. \A id \in Ids : reader'[id] = "closed" => home'[id] # 0
        BY <1>all DEF EndsInv
    <2>3. CleanEndIsComplete'
        BY <1>all, <1>p DEF EndsInv, CleanEndIsComplete, CutShort
    <2> QED
        BY <2>1, <2>2, <2>3 DEF EndsInv
<1>same. ASSUME UNCHANGED <<home, rcvd>>,
                \A id \in Ids : reader'[id] = "closed" => reader[id] = "closed",
                \A s \in Sessions, id \in Ids : task[s][id] = "ended" => AtEnd(s, id)
         PROVE  EndsInv'
    BY <1>same, <1>all
<1>quiet. ASSUME UNCHANGED <<down, rcvd>>,
                 NEW s \in Sessions, NEW id \in Ids, task[s][id] = "ended",
                 id \in pending' => id \in pending
          PROVE  AtEnd(s, id)
    BY <1>quiet, <1>p DEF EndsInv, CloseComesLast
<1>lost. ASSUME sess \in Sessions, down' = [down EXCEPT ![sess] = <<>>], UNCHANGED rcvd,
                pending' \subseteq pending,
                NEW s \in Sessions, NEW id \in Ids, task[s][id] = "ended"
         PROVE  AtEnd(s, id)
    <2>1. CASE s = sess
        <3>1. down'[s] = <<>>
            BY <1>lost, <2>1 DEF TypeOK, WireTypeOK
        <3> QED
            BY <3>1 DEF ChunksFirst, Carries
    <2>2. CASE s # sess
        <3>1. down'[s] = down[s]
            BY <1>lost, <2>2 DEF TypeOK, WireTypeOK
        <3> QED
            BY <1>lost, <1>p, <3>1 DEF EndsInv, CloseComesLast
    <2> QED
        BY <2>1, <2>2
<1>take. ASSUME NEW m \in Message, Take(m), UNCHANGED rcvd, pending' \subseteq pending,
                m.type = "TCP_DATA" => m.id \notin pending',
                NEW s \in Sessions, NEW id \in Ids, task[s][id] = "ended"
         PROVE  AtEnd(s, id)
    <2>1. /\ UNCHANGED <<task, produced>> /\ rcvd'[id] = rcvd[id]
          /\ id \in pending' => id \in pending
          /\ id \notin pending' \/ ~IsChunk(m, id)
        BY <1>take, <1>p DEF IsChunk
    <2> QED
        BY <1>take, <2>1, TakeKeepsTheEnd DEF EndsInv
<1>1. CASE Connect
    <2>1. /\ nextId \in Ids /\ home[nextId] = 0
          /\ \A s \in Sessions : task[s][nextId] = "none"
        <3>1. nextId \in Ids
            BY <1>1 DEF Connect, TypeOK, ClientTypeOK, Ids
        <3>2. home[nextId] = 0
            BY <3>1 DEF HomeInv, FreshIds, Ids
        <3>3. \A s \in Sessions : s # 0
            BY WireAssumption DEF Sessions
        <3> QED
            BY <3>1, <3>2, <3>3 DEF HomeInv, WorkIsAtHome
    <2>2. /\ UNCHANGED <<down, rcvd>> /\ pending' = pending \cup {nextId}
          /\ \A id \in Ids : id # nextId => home'[id] = home[id] /\ reader'[id] = reader[id]
          /\ reader'[nextId] = "open"
        BY <1>1, <1>t, <2>1 DEF Connect
    <2>3. \A s \in Sessions, id \in Ids : task[s][id] = "ended" => AtEnd(s, id)
        BY <1>quiet, <2>1, <2>2
    <2>4. \A id \in Ids : reader'[id] = "closed" =>
              home'[id] = home[id] /\ reader[id] = "closed" /\ rcvd'[id] = rcvd[id]
        BY <2>2
    <2> QED
        BY <1>all, <2>3, <2>4
<1>2. ASSUME NEW i \in Ids, RequestTimeout(i) PROVE EndsInv'
    BY <1>2, <1>same, <1>quiet DEF RequestTimeout
<1>3. ASSUME NEW i \in Ids, Cancel(i) PROVE EndsInv'
    <2>1. \A id \in Ids : reader'[id] = "closed" => reader[id] = "closed"
        BY <1>3, <1>t DEF Cancel
    <2> QED
        BY <1>3, <1>same, <1>quiet, <2>1 DEF Cancel
<1>4. ASSUME NEW i \in Ids, Write(i) PROVE EndsInv'
    BY <1>4, <1>same, <1>quiet DEF Write
<1>5. ASSUME NEW i \in Ids, CloseWriter(i) PROVE EndsInv'
    BY <1>5, <1>same, <1>quiet DEF CloseWriter
<1>6. CASE Reap
    <2>1. UNCHANGED <<home, rcvd, reader, down>> /\ pending' \subseteq pending
        BY <1>6 DEF Reap
    <2> QED
        BY <1>same, <1>quiet, <2>1
<1>7. CASE NoHandler
    <2>1. PICK m \in Message : Take(m) /\ m.id \notin pending
        BY <1>7 DEF NoHandler
    <2>2. UNCHANGED <<home, rcvd, reader, pending>>
        BY <1>7 DEF NoHandler
    <2> QED
        BY <1>same, <1>take, <2>1, <2>2
<1>8. CASE ConnectAck
    <2>1. PICK m \in Message : Take(m) /\ m.type = "TCP_CONNECT_ACK"
        BY <1>8 DEF ConnectAck
    <2>2. UNCHANGED <<home, rcvd, reader, pending>>
        BY <1>8 DEF ConnectAck
    <2> QED
        BY <1>same, <1>take, <2>1, <2>2
<1>9. CASE StreamData
    <2>1. PICK m \in Message :
              /\ Take(m) /\ m.id \in pending /\ m.type = "TCP_DATA"
              /\ rcvd' = [rcvd EXCEPT ![m.id] = Append(@, m.chunk)]
              /\ UNCHANGED pending
        BY <1>9 DEF StreamData, EntryHasOpenReader, TypeOK, ClientTypeOK
    <2>2. UNCHANGED <<home, reader>>
        BY <1>9 DEF StreamData
    <2>3. \A id \in Ids : rcvd'[id] = IF id = m.id THEN Append(rcvd[id], m.chunk) ELSE rcvd[id]
        BY <2>1 DEF TypeOK, ClientTypeOK
    <2>4. ASSUME NEW s \in Sessions, NEW id \in Ids, task[s][id] = "ended" PROVE AtEnd(s, id)
        <3>1. \/ rcvd'[id] = rcvd[id] /\ ~IsChunk(m, id)
              \/ id \in pending /\ IsChunk(m, id) /\ rcvd'[id] = Append(rcvd[id], m.chunk)
            BY <2>1, <2>3 DEF IsChunk
        <3> QED
            BY <1>p, <2>1, <2>4, <3>1, TakeKeepsTheEnd DEF EndsInv
    <2>5. \A id \in Ids : reader[id] = "closed" => rcvd'[id] = rcvd[id]
        BY <2>1, <2>3 DEF EntryHasOpenReader
    <2> QED
        BY <1>all, <2>2, <2>4, <2>5
<1>10. CASE StreamClose
    <2>1. PICK m \in Message :
              /\ Take(m) /\ m.id \in Ids /\ m.id \in pending /\ m.type = "TCP_CLOSE"
              /\ \A id \in Ids : reader'[id] = "closed" => id = m.id \/ reader[id] = "closed"
        BY <1>10, <1>t DEF StreamClose, Message
    <2>2. UNCHANGED <<home, rcvd>> /\ pending' \subseteq pending
        BY <1>10 DEF StreamClose
    <2>3. \A s \in Sessions, id \in Ids : task[s][id] = "ended" => AtEnd(s, id)
        BY <1>take, <2>1, <2>2
    <2> DEFINE i == m.id
    <2>4. /\ sess \in Sessions /\ sess # 0
          /\ Carries(down[sess], "TCP_CLOSE", i) /\ home[i] = sess
          /\ down[sess] \in Seq(Message) /\ down[sess] # <<>> /\ m = Head(down[sess])
        <3>1. sess \in Sessions /\ Carries(down[sess], "TCP_CLOSE", i)
            BY <2>1, TakeIsTyped, TakeIsCarried
        <3>2. down[sess] \in Seq(Message) /\ down[sess] # <<>> /\ m = Head(down[sess])
            BY <2>1, <3>1 DEF Take, TypeOK, WireTypeOK
        <3>3. home[i] = sess
            BY <3>1 DEF Carries, HomeInv, RepliesAreAtHome
        <3> QED
            BY <3>1, <3>2, <3>3, WireAssumption DEF Sessions
    <2>5. task[sess][i] \in Succeeded /\ i \notin conns[sess]
        BY <2>1, <2>4 DEF NewsInv, NewsAreTrue
    <2>6. CutShort(sess, i) \/ (task[sess][i] = "ended" /\ Len(rcvd[i]) = produced[sess][i])
        <3>1. CASE task[sess][i] # "ended"
            BY <2>5, <3>1 DEF Succeeded, CutShort
        <3>2. CASE task[sess][i] = "ended"
            <4>1. /\ ChunksFirst(down[sess], i)
                  /\ Reaches(down[sess], i, Len(rcvd[i]), produced[sess][i])
                BY <2>1, <2>4, <3>2 DEF EndsInv, CloseComesLast
            <4>2. \A k \in DOMAIN down[sess] : ~IsChunk(down[sess][k], i)
                BY <2>1, <2>4, <4>1, ChunksFirstTail
            <4> QED
                BY <3>2, <4>1, <4>2 DEF Reaches
        <3> QED
            BY <3>1, <3>2
    <2> QED
        BY <1>all, <2>1, <2>2, <2>3, <2>4, <2>6
<1>11. CASE StreamError
    <2>1. PICK m \in Message : Take(m) /\ m.type = "ERROR"
        BY <1>11 DEF StreamError
    <2>2. UNCHANGED <<home, rcvd>> /\ pending' \subseteq pending
        BY <1>11 DEF StreamError
    <2>3. \A id \in Ids : reader'[id] = "closed" => reader[id] = "closed"
        BY <1>11, <1>t DEF StreamError, Message
    <2> QED
        BY <1>same, <1>take, <2>1, <2>2, <2>3
<1>off. ASSUME HandleDisconnect
        PROVE  /\ pending' \subseteq pending
               /\ \A id \in Ids : reader'[id] = "closed" => reader[id] = "closed"
    BY <1>off, <1>t DEF HandleDisconnect, RejectPending
<1>12. CASE ClientLinkClosed
    <2>1. /\ UNCHANGED <<home, rcvd>> /\ HandleDisconnect
          /\ sess \in Sessions /\ down' = [down EXCEPT ![sess] = <<>>]
        BY <1>12, WireAssumption DEF ClientLinkClosed, TypeOK, WireTypeOK, Sessions
    <2> QED
        BY <1>same, <1>lost, <1>off, <2>1
<1>13. CASE HeartbeatTimeout
    <2>1. UNCHANGED <<home, rcvd, down>> /\ HandleDisconnect
        BY <1>13 DEF HeartbeatTimeout
    <2> QED
        BY <1>same, <1>quiet, <1>off, <2>1
<1>14. CASE CloseClient
    <2>1. /\ UNCHANGED <<home, rcvd, reader>> /\ pending' \subseteq pending
          /\ down' = down \/ (sess \in Sessions /\ down' = [down EXCEPT ![sess] = <<>>])
        BY <1>14, WireAssumption DEF CloseClient, RejectPending, TypeOK, WireTypeOK, Sessions
    <2> QED
        BY <1>same, <1>quiet, <1>lost, <2>1
<1> QED
    BY <1>1, <1>2, <1>3, <1>4, <1>5, <1>6, <1>7, <1>8, <1>9, <1>10, <1>11,
       <1>12, <1>13, <1>14 DEF ClientNext

\* The server closes a connection whose target has ended after its last chunk.
LEMMA ProxyStepKeepsEnds ==
    ASSUME TypeOK, HomeInv, ChunksInv, NewsInv, EndsInv, ProxyNext, UNCHANGED clientVars
    PROVE  EndsInv'
<1>t. /\ conns \in [Sessions -> SUBSET Ids] /\ task \in [Sessions -> [Ids -> TaskState]]
      /\ produced \in [Sessions -> [Ids -> 0 .. MaxChunks]]
      /\ down \in [Sessions -> Seq(Message)]
      /\ home \in [Ids -> 0 .. MaxSessions]
    BY DEF TypeOK, WireTypeOK, ClientTypeOK, ProxyTypeOK
<1>c. UNCHANGED <<home, pending, rcvd, reader>>
    BY DEF clientVars
<1>n. \A s \in Sessions, id \in Ids : id \in conns[s] =>
          task[s][id] \in {"reading", "holding"} /\ ~Carries(down[s], "TCP_CLOSE", id)
    BY DEF NewsInv, NewsAreTrue
<1>1. PICK z \in Sessions :
          \/ HandleConnect(z) \/ HandleData(z) \/ HandleClose(z)
          \/ ServerLinkClosed(z) \/ ServerHeartbeatTimeout(z) \/ CloseTransport(z)
          \/ \E id \in Ids :
                \/ ConnectDone(z, id) \/ LateConnect(z, id)
                \/ ReadChunk(z, id) \/ SendChunk(z, id) \/ PipeEnd(z, id)
                \/ WriteFails(z, id)
    BY DEF ProxyNext
<1> DEFINE AtEnd(s, id) ==
               /\ ChunksFirst(down'[s], id)
               /\ id \in pending /\ Carries(down'[s], "TCP_CLOSE", id) =>
                     Reaches(down'[s], id, Len(rcvd[id]), produced[s][id])
           Final(s, id) ==
               /\ task[s][id] = "ended" =>
                     task'[s][id] = "ended" /\ produced'[s][id] = produced[s][id]
               /\ CutShort(s, id) => CutShort(s, id)'
           Here(s, id, i) == s = z /\ id = i
           Spoken == \A s \in Sessions, id \in Ids : task[s][id] = "ended" => AtEnd(s, id)
\* What has ended has ended.
<1>all. ASSUME \A s \in Sessions, id \in Ids : Final(s, id),
               \A s \in Sessions, id \in Ids :
                  task'[s][id] = "ended" =>
                     AtEnd(s, id) /\ produced'[s][id] = produced[s][id]
        PROVE  EndsInv'
    <2>1. CloseComesLast'
        BY <1>all, <1>c DEF CloseComesLast
    <2>2. \A id \in Ids : reader'[id] = "closed" => home'[id] # 0
        BY <1>c DEF EndsInv
    <2>3. CleanEndIsComplete'
        <3> SUFFICES ASSUME NEW id \in Ids, reader[id] = "closed"
                     PROVE  \/ CutShort(home[id], id)'
                            \/ /\ task'[home[id]][id] = "ended"
                               /\ Len(rcvd[id]) = produced'[home[id]][id]
            BY <1>c DEF CleanEndIsComplete, CutShort
        <3>1. home[id] \in Sessions
            BY <1>t DEF EndsInv, Sessions
        <3>2. CutShort(home[id], id) \/ (/\ task[home[id]][id] = "ended"
                                         /\ Len(rcvd[id]) = produced[home[id]][id])
            BY DEF EndsInv, CleanEndIsComplete
        <3> QED
            BY <1>all, <1>c, <3>1, <3>2 DEF CutShort
    <2> QED
        BY <2>1, <2>2, <2>3 DEF EndsInv
<1>quiet. ASSUME UNCHANGED <<task, produced>>, Spoken,
                 \A s \in Sessions : conns'[s] \subseteq conns[s]
          PROVE  EndsInv'
    <2>1. \A s \in Sessions, id \in Ids : Final(s, id)
        BY <1>quiet DEF CutShort
    <2> QED
        BY <1>quiet, <1>all, <2>1
<1>set. ASSUME NEW i \in Ids, NEW state, SetTask(z, i, state), Spoken,
               state # "ended", task[z][i] # "ended",
               CutShort(z, i) => i \notin conns'[z] /\ state \in {"reading", "holding", "cut"},
               \A s \in Sessions, id \in Ids : Here(s, id, i) \/
                  (produced'[s][id] = produced[s][id] /\ (id \in conns'[s] <=> id \in conns[s]))
        PROVE  EndsInv'
    <2>1. \A s \in Sessions, id \in Ids :
              task'[s][id] = IF Here(s, id, i) THEN state ELSE task[s][id]
        BY <1>set, <1>t DEF SetTask
    <2>2. ASSUME NEW s \in Sessions, NEW id \in Ids PROVE Final(s, id)
        BY <1>set, <2>1 DEF CutShort
    <2> QED
        BY <1>set, <1>all, <2>1, <2>2
<1>still. down' = down => Spoken
    BY DEF EndsInv, CloseComesLast
<1>says. ASSUME NEW m \in Message, Reply(z, m), NEW s \in Sessions, NEW id \in Ids,
                task[s][id] = "ended",
                z # s \/ (~IsChunk(m, id) /\ (m.type # "TCP_CLOSE" \/ m.id # id))
         PROVE  AtEnd(s, id)
    <2>1. /\ ChunksFirst(down[s], id)
          /\ id \in pending /\ Carries(down[s], "TCP_CLOSE", id) =>
                Reaches(down[s], id, Len(rcvd[id]), produced[s][id])
        BY <1>says DEF EndsInv, CloseComesLast
    <2>2. CASE down'[s] = down[s]
        BY <2>1, <2>2
    <2>3. CASE z = s /\ down'[s] = Append(down[s], m)
        <3>1. ChunksFirst(down'[s], id)
            BY <1>t, <1>says, <2>1, <2>3, ChunksFirstAppend
        <3>2. Carries(down'[s], "TCP_CLOSE", id) => Carries(down[s], "TCP_CLOSE", id)
            BY <1>t, <1>says, <2>3, CarriesAppend
        <3>3. Len(rcvd[id]) \in Nat /\ produced[s][id] \in Nat
            BY SentUpIsNumber DEF TypeOK, ClientTypeOK
        <3>4. Reaches(down[s], id, Len(rcvd[id]), produced[s][id]) =>
                  Reaches(down'[s], id, Len(rcvd[id]), produced[s][id])
            BY <1>t, <1>says, <2>3, <3>3, AppendOther
        <3> QED
            BY <2>1, <3>1, <3>2, <3>4
    <2> QED
        BY <1>t, <1>says, <2>2, <2>3 DEF Reply
<1>m. \A i \in Ids : Msg("TCP_CLOSE", i) \in Message
    BY MessagesAreMessages DEF MessageType
<1>m1. \A t, i : Msg(t, i).type = t /\ Msg(t, i).id = i
    BY DEF Msg
<1>close. ASSUME NEW i \in Ids, Close(z, i) PROVE Spoken /\ \A s \in Sessions : conns'[s] \subseteq conns[s]
    <2>1. CASE i \notin conns[z]
        BY <1>close, <1>still, <2>1 DEF Close
    <2>2. CASE i \in conns[z]
        <3>1. Reply(z, Msg("TCP_CLOSE", i)) /\ conns' = [conns EXCEPT ![z] = @ \ {i}]
            BY <1>close, <2>2 DEF Close
        <3>2. task[z][i] # "ended"
            BY <1>n, <2>2
        <3>3. ASSUME NEW s \in Sessions, NEW id \in Ids, task[s][id] = "ended" PROVE AtEnd(s, id)
            <4>1. z # s \/ i # id
                BY <3>2, <3>3
            <4> QED
                BY <1>m, <1>m1, <1>says, <3>1, <3>3, <4>1 DEF IsChunk
        <3> QED
            BY <1>t, <3>1, <3>3
    <2> QED
        BY <2>1, <2>2
<1>2. CASE HandleConnect(z)
    <2>1. PICK m \in Message : Receive(z, m) /\ m.type = "TCP_CONNECT" /\ SetTask(z, m.id, "connecting")
        BY <1>2 DEF HandleConnect
    <2>2. UNCHANGED <<down, conns, produced>>
        BY <1>2 DEF HandleConnect
    <2>3. up[z] \in Seq(Message) /\ up[z] # <<>> /\ m = up[z][1] /\ 1 \in DOMAIN up[z]
        BY <2>1 DEF Receive, TypeOK, WireTypeOK
    <2>4. m.id \in Ids /\ task[z][m.id] = "none"
        BY <2>1, <2>3 DEF HomeInv, RequestsAreFresh, Message
    <2> QED
        BY <1>still, <1>set, <2>1, <2>2, <2>4 DEF CutShort
<1>3. CASE HandleData(z)
    BY <1>3, <1>still, <1>quiet DEF HandleData
<1>4. CASE HandleClose(z)
    <2>1. PICK m \in Message : Close(z, m.id) /\ m.id \in Ids
        BY <1>4 DEF HandleClose, Message
    <2>2. UNCHANGED <<task, produced>>
        BY <1>4 DEF HandleClose
    <2> QED
        BY <1>quiet, <1>close, <2>1, <2>2
<1>5. CASE ServerLinkClosed(z)
    BY <1>5, <1>still, <1>quiet DEF ServerLinkClosed, LinkLost
<1>6. CASE ServerHeartbeatTimeout(z)
    BY <1>6, <1>still, <1>quiet DEF ServerHeartbeatTimeout, HeartbeatLost
<1>7. CASE CloseTransport(z)
    <2>1. UNCHANGED <<task, produced, down>> /\ \A s \in Sessions : conns'[s] \subseteq conns[s]
        BY <1>7, <1>t DEF CloseTransport, EndTransport
    <2> QED
        BY <1>still, <1>quiet, <2>1
<1>8. ASSUME NEW i \in Ids, ConnectDone(z, i) PROVE EndsInv'
    <2>1. /\ task[z][i] = "connecting"
          /\ \E state \in {"reading", "refused", "abandoned"} : SetTask(z, i, state)
          /\ \E t \in {"TCP_CONNECT_ACK", "ERROR"} : Reply(z, Msg(t, i))
          /\ UNCHANGED produced
          /\ conns' = conns \/ conns' = [conns EXCEPT ![z] = @ \cup {i}]
        BY <1>8 DEF ConnectDone, ConnectOk, ConnectFail, ConnectTimeout
    <2>2. PICK t \in {"TCP_CONNECT_ACK", "ERROR"} : Reply(z, Msg(t, i))
        BY <2>1
    <2>3. Msg(t, i) \in Message
        BY MessagesAreMessages DEF MessageType
    <2>4. Spoken
        BY <1>m1, <1>says, <2>2, <2>3 DEF IsChunk
    <2>5. \A s \in Sessions, id \in Ids : Here(s, id, i) \/ (id \in conns'[s] <=> id \in conns[s])
        BY <1>t, <2>1
    <2> QED
        BY <1>set, <2>1, <2>4, <2>5 DEF CutShort
<1>9. ASSUME NEW i \in Ids, LateConnect(z, i) PROVE EndsInv'
    BY <1>9, <1>still, <1>set DEF LateConnect, CutShort
<1>10. ASSUME NEW i \in Ids, ReadChunk(z, i) PROVE EndsInv'
    <2>1. /\ task[z][i] = "reading" /\ i \in conns[z] /\ SetTask(z, i, "holding")
          /\ UNCHANGED <<down, conns>>
          /\ produced' = [produced EXCEPT ![z][i] = @ + 1]
        BY <1>10 DEF ReadChunk
    <2>2. \A s \in Sessions, id \in Ids : Here(s, id, i) \/ produced'[s][id] = produced[s][id]
        BY <1>t, <2>1
    <2> QED
        BY <1>still, <1>set, <2>1, <2>2 DEF CutShort
<1>11. ASSUME NEW i \in Ids, SendChunk(z, i) PROVE EndsInv'
    <2> DEFINE m == DataMsg(i, produced[z][i])
    <2>1. m \in Message /\ m.type = "TCP_DATA" /\ m.id = i
        BY <1>t DEF DataMsg, Message, MessageType
    <2>2. /\ Reply(z, m) /\ task[z][i] = "holding" /\ SetTask(z, i, "reading")
          /\ UNCHANGED <<conns, produced>>
        BY <1>11 DEF SendChunk
    <2> HIDE DEF m
    <2>3. Spoken
        <3> SUFFICES ASSUME NEW s \in Sessions, NEW id \in Ids, task[s][id] = "ended"
                     PROVE  AtEnd(s, id)
            OBVIOUS
        <3>1. z # s \/ i # id
            BY <2>2
        <3> QED
            BY <1>says, <2>1, <2>2, <3>1 DEF IsChunk
    <2> QED
        BY <1>set, <2>2, <2>3 DEF CutShort
<1>12. ASSUME NEW i \in Ids, PipeEnd(z, i) PROVE EndsInv'
    <2>1. /\ task[z][i] = "reading" /\ Close(z, i) /\ UNCHANGED produced
          /\ SetTask(z, i, IF i \in conns[z] THEN "ended" ELSE "cut")
        BY <1>12 DEF PipeEnd
    <2>2. Spoken
        BY <1>close, <2>1
    <2>3. CASE i \notin conns[z]
        <3>1. UNCHANGED conns /\ SetTask(z, i, "cut")
            BY <2>1, <2>3 DEF Close
        <3> QED
            BY <1>set, <2>1, <2>2, <2>3, <3>1
    <2>4. CASE i \in conns[z]
        <3>1. /\ Reply(z, Msg("TCP_CLOSE", i)) /\ conns' = [conns EXCEPT ![z] = @ \ {i}]
              /\ SetTask(z, i, "ended")
            BY <2>1, <2>4 DEF Close
        <3>2. \A s \in Sessions, id \in Ids :
                  task'[s][id] = IF Here(s, id, i) THEN "ended" ELSE task[s][id]
            BY <1>t, <3>1 DEF SetTask
        <3>3. ASSUME NEW s \in Sessions, NEW id \in Ids PROVE Final(s, id)
            BY <1>t, <2>1, <2>4, <3>1, <3>2 DEF CutShort
        <3>4. AtEnd(z, i)
            <4> DEFINE ch == down[z]
                       got == Len(rcvd[i])
                       top == produced[z][i]
            <4>1. ch \in Seq(Message) /\ got \in Nat /\ top \in Nat
                BY SentUpIsNumber DEF TypeOK, WireTypeOK, ClientTypeOK
            <4>2. ~Carries(ch, "TCP_CLOSE", i)
                BY <1>n, <2>4
            <4>3. ChunksFirst(ch, i)
                BY <4>2 DEF ChunksFirst, Carries
            <4>4. CASE Whole(z)
                <5>1. i \in pending => Reaches(ch, i, got, top)
                    <6>1. home[i] = z /\ z # 0
                        BY <2>1, WireAssumption DEF HomeInv, WorkIsAtHome, Sessions
                    <6> QED
                        BY <2>1, <4>4, <6>1 DEF ChunksInv, DeliveryOf, Delivery, SentUp
                <5>2. down'[z] = Append(ch, Msg("TCP_CLOSE", i))
                    BY <1>t, <3>1, <4>4 DEF Reply, Whole
                <5>3. ~IsChunk(Msg("TCP_CLOSE", i), i)
                    BY <1>m1 DEF IsChunk
                <5>4. Reaches(ch, i, got, top) => Reaches(down'[z], i, got, top)
                    BY <1>m, <4>1, <5>2, <5>3, AppendOther
                <5>5. ChunksFirst(down'[z], i)
                    BY <1>m, <4>1, <4>2, <4>3, <5>2, <5>3, ChunksFirstAppend
                <5> QED
                    BY <5>1, <5>4, <5>5
            <4>5. CASE ~Whole(z)
                BY <3>1, <4>2, <4>3, <4>5 DEF Reply, Whole
            <4> QED
                BY <4>4, <4>5
        <3> QED
            BY <1>all, <2>1, <2>2, <3>2, <3>3, <3>4
    <2> QED
        BY <2>3, <2>4
<1>13. ASSUME NEW i \in Ids, WriteFails(z, i) PROVE EndsInv'
    BY <1>13, <1>quiet, <1>close DEF WriteFails
<1> QED
    BY <1>1, <1>2, <1>3, <1>4, <1>5, <1>6, <1>7, <1>8, <1>9, <1>10, <1>11, <1>12, <1>13

LEMMA EndsAreKept == Spec => []EndsInv
<1>1. Init => EndsInv
    BY DEF Init, ClientInit, ProxyInit, EndsInv, CloseComesLast, CleanEndIsComplete
<1>2. TypeOK /\ HomeInv /\ EntryHasOpenReader /\ ChunksInv /\ NewsInv /\ EndsInv /\ [Next]_vars
      => EndsInv'
    <2> SUFFICES ASSUME TypeOK, HomeInv, EntryHasOpenReader, ChunksInv, NewsInv, EndsInv, [Next]_vars
                 PROVE  EndsInv'
        OBVIOUS
    <2>1. CASE UNCHANGED vars
        BY <2>1 DEF vars, wireVars, clientVars, proxyVars, EndsInv, CloseComesLast,
                    CleanEndIsComplete, CutShort
    <2>2. CASE NewSession
        <3>1. UNCHANGED <<down, home, pending, rcvd, reader, conns, task, produced>>
            BY <2>2 DEF NewSession, Assign, Accept, AssignSocket
        <3> QED
            BY <3>1 DEF EndsInv, CloseComesLast, CleanEndIsComplete, CutShort
    <2> QED
        BY <2>1, <2>2, ClientStepKeepsEnds, ProxyStepKeepsEnds DEF Next
<1> QED
    BY <1>1, <1>2, TypesAreCorrect, CallsStayHome, EntriesAreOpen, ChunksAreKept, NewsAreKept,
       PTL DEF Spec

\* A stream that ends cleanly while nobody cut it short has delivered all its
\* target produced: no chunk, held by the pipe or in flight, is overtaken by the
\* TCP_CLOSE of its connection.
THEOREM CleanEndsAreComplete == Spec => []CleanEndIsComplete
BY EndsAreKept, PTL DEF EndsInv
=============================================================================
