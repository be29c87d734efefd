-------------------------- MODULE ExchangesInvariant --------------------------
(***************************************************************************)
(* The inductive invariants behind the properties of Exchanges.            *)
(***************************************************************************)
EXTENDS Exchanges

-----------------------------------------------------------------------------
(* Kinds: what may be said about an id                                     *)

\* A chunk of the stream of id, in either direction.
IsChunk(m, id) == m.type \in {"HTTP_BODY_CHUNK", "UDP_DATA"} /\ m.id = id

\* Chunks are counted from one.
Counted == {m \in RequestMessage : IsChunk(m, m.id) => m.chunk \in 1 .. MaxChunks}

\* What a client may have said, and a server have answered, by the kind of id.
Asked ==
    {m \in Counted :
        \/ kind[m.id] = "dns" /\ m.type \in {"DNS_QUERY", "ERROR"}
        \/ kind[m.id] = "http" /\ m.type \in {"HTTP_REQUEST", "HTTP_BODY_CHUNK", "HTTP_BODY_END"}
        \/ kind[m.id] = "udp" /\ m.type \in {"UDP_BIND", "UDP_DATA", "UDP_CLOSE"}}

Answered ==
    {m \in Counted :
        \/ kind[m.id] = "dns" /\ m.type \in {"DNS_RESPONSE", "ERROR"}
        \/ /\ kind[m.id] = "http"
           /\ m.type \in {"HTTP_RESPONSE", "HTTP_BODY_CHUNK", "HTTP_BODY_END", "ERROR"}
        \/ kind[m.id] = "udp" /\ m.type \in {"UDP_BIND_ACK", "UDP_DATA", "UDP_CLOSE", "ERROR"}}

ChannelsAgree ==
    /\ up \in [Sessions -> Seq(Asked)]
    /\ queue \in Seq(Asked)
    /\ down \in [Sessions -> Seq(Answered)]

\* What the client holds for an id is of its kind, and an id that was not handed
\* out has left no trace.
ClientAgrees ==
    \A id \in Ids :
        /\ id >= nextId => kind[id] = "none"
        /\ kind[id] = "none" <=> home[id] = 0
        /\ home[id] <= sess
        /\ kind[id] = "none" => rcvd[id] = <<>> /\ sent[id] = 0
        /\ kind[id] \in {"none", "udp"} <=> call[id] = "none"
        /\ id \in pending => call[id] \in {"waiting", "connected"}
        /\ id \in pending /\ kind[id] = "dns" => call[id] = "waiting"
        /\ id \in interest => kind[id] = "udp"
        /\ kind[id] # "http" => reader[id] = "none" /\ ~writing[id]
        /\ reader[id] # "none" => call[id] = "connected"

\* So is what the server does for it.
ServerAgrees ==
    \A s \in Sessions, id \in Ids :
        /\ id \in lookups[s] \cup queries[s] => kind[id] = "dns"
        /\ stage[s][id] # "none" => kind[id] = "http"
        /\ loop[s][id] # "none" => kind[id] = "udp"
        /\ loop[s][id] = "holding" => datagrams[s][id] # 0

KindInv == TypeOK /\ WaitingIsTimed /\ ChannelsAgree /\ ClientAgrees /\ ServerAgrees

-----------------------------------------------------------------------------
(* An exchange lives in one session                                        *)

\* An end of a link that can still be used belongs to someone who uses it.
OpenEnds ==
    /\ \A s \in Sessions : sws[s] => tstate[s] \in {"connected", "disconnected"}
    /\ cws => ~isClosed
    /\ cstate = "connected" => cws

\* The server works for an id in the session of the id only, and has nothing for
\* one it has not heard of.
WorkIsAtHome ==
    \A s \in Sessions, id \in Ids :
        /\ stage[s][id] # "none" \/ loop[s][id] # "none" => home[id] = s
        /\ id \in lookups[s] \cup queries[s] => home[id] = s
        /\ stage[s][id] = "none" =>
              id \notin aborted[s] \cup finished[s] /\ uploaded[s][id] = <<>>
        /\ stage[s][id] \in {"none", "fetching"} => produced[s][id] = 0
        /\ loop[s][id] = "none" => datagrams[s][id] = 0

AnswersAreAtHome ==
    \A s \in Sessions : \A k \in DOMAIN down[s] : home[down[s][k].id] = s

\* What an exchange begins with.
Begins(m) == m.type \in {"DNS_QUERY", "HTTP_REQUEST", "UDP_BIND"}

\* An exchange begins in its session, never from the queue.
BeginningsAreAtHome ==
    /\ \A k \in DOMAIN queue : ~Begins(queue[k])
    /\ \A s \in Sessions : \A k \in DOMAIN up[s] :
          Begins(up[s][k]) => home[up[s][k].id] = s

\* It begins once, before the server has heard of it, and with its first message.
BeginsWith(ch, id) ==
    \A k, j \in DOMAIN ch :
        Begins(ch[k]) /\ ch[k].id = id /\ ch[j].id = id => k <= j

BeginningsAreFresh ==
    \A s \in Sessions :
        /\ \A id \in Ids : BeginsWith(up[s], id)
        /\ \A k \in DOMAIN up[s] :
              Begins(up[s][k]) => /\ stage[s][up[s][k].id] = "none"
                                  /\ loop[s][up[s][k].id] = "none"

HomeInv ==
    /\ OpenEnds /\ WorkIsAtHome /\ AnswersAreAtHome
    /\ BeginningsAreAtHome /\ BeginningsAreFresh /\ MapsAreClean

-----------------------------------------------------------------------------
(* What each end has to hear                                               *)

\* At most one message of type t about id is in the channel ch.
Once(ch, t, id) ==
    \A k, j \in DOMAIN ch :
        ch[k].type = t /\ ch[k].id = id /\ ch[j].type = t /\ ch[j].id = id => k = j

-----------------------------------------------------------------------------
(* Chunks in flight, as TunnelInvariant has them for TCP                   *)

\* The channel ch carries chunks of id between got and top, in order, and none
\* without those before it.
InFlight(ch, id, got, top) ==
    \A k \in DOMAIN ch : IsChunk(ch[k], id) =>
        /\ got < ch[k].chunk
        /\ ch[k].chunk <= top
        /\ \A j \in DOMAIN ch : IsChunk(ch[j], id) /\ j < k => ch[j].chunk < ch[k].chunk
        /\ \A v \in got + 1 .. ch[k].chunk - 1 :
              \E j \in DOMAIN ch : IsChunk(ch[j], id) /\ ch[j].chunk = v

\* Nothing up to top is missing: all has been got, or the last is in flight.
Reaches(ch, id, got, top) ==
    got = top \/ \E k \in DOMAIN ch : IsChunk(ch[k], id) /\ ch[k].chunk = top

\* A reader that has been given r, by the channel ch, of the first top chunks:
\* r is a prefix of them; while it listens what is in flight continues r, and
\* nothing is missing while the channel is whole.
Delivery(r, ch, id, top, listens, isWhole) ==
    /\ \A k \in DOMAIN r : r[k] = k
    /\ Len(r) <= top
    /\ listens =>
          /\ InFlight(ch, id, Len(r), top)
          /\ isWhole => Reaches(ch, id, Len(r), top)

\* No chunk of id comes after its end.
ChunksFirst(ch, id) ==
    \A k, j \in DOMAIN ch :
        ch[k].type = "HTTP_BODY_END" /\ ch[k].id = id /\ IsChunk(ch[j], id) => j < k

-----------------------------------------------------------------------------
(* Queries, responses and sockets, exchange by exchange                    *)

\* Chunks of id the transport of session s has sent.
SentDown(s, id) ==
    IF kind[id] # "udp" THEN produced[s][id]
    ELSE IF loop[s][id] = "holding" THEN datagrams[s][id] - 1 ELSE datagrams[s][id]

\* Somebody takes the chunks of id, or will.
Listens(id) ==
    IF kind[id] = "udp" THEN id \in interest
    ELSE id \in pending /\ reader[id] \in {"none", "open"}

\* No chunk of id comes before its response.
ResponseFirst(ch, id) ==
    \A k \in DOMAIN ch : IsChunk(ch[k], id) =>
        \E j \in DOMAIN ch : j < k /\ ch[j].type = "HTTP_RESPONSE" /\ ch[j].id = id

\* A query is answered, while both ends believe in the link.
DnsGood(id) ==
    LET s == home[id] IN
    /\ rcvd[id] = <<>>
    /\ id \in pending /\ call[id] = "waiting" /\ LinkUp(s) =>
          \/ Carries(up[s], "DNS_QUERY", id)
          \/ id \in queries[s]
          \/ Carries(down[s], "DNS_RESPONSE", id)
          \/ Carries(down[s], "ERROR", id)

\* A message of a fetch that got as far as how, and has sent n chunks.
TrueNews(m, how, n) ==
    /\ m.type = "ERROR" => how = "failed"
    /\ m.type = "HTTP_RESPONSE" =>
          how \notin {"none", "fetching"} /\ (m.chunk # 1 => how = "done" /\ n = 0)
    /\ m.type = "HTTP_BODY_END" => how \in {"done", "cut"}

\* A fetch that waits is answered, once; the caller has its Response before the
\* body, and the end of the body last; what it believes of the server is true.
HttpGood(id) ==
    LET s == home[id]
        ch == down[s]
        how == stage[s][id]
        n == produced[s][id]
    IN  /\ \A k \in DOMAIN ch : ch[k].id = id => TrueNews(ch[k], how, n)
        /\ Once(ch, "HTTP_RESPONSE", id)
        /\ call[id] = "connected" =>
              /\ how \notin {"none", "fetching"}
              /\ ~Carries(ch, "HTTP_RESPONSE", id)
              /\ reader[id] = "none" => how = "done" /\ n = 0
        /\ id \in pending /\ call[id] = "waiting" =>
              /\ ResponseFirst(ch, id)
              /\ LinkUp(s) => \/ Carries(up[s], "HTTP_REQUEST", id)
                              \/ how = "fetching"
                              \/ Carries(ch, "HTTP_RESPONSE", id)
                              \/ Carries(ch, "ERROR", id)
        /\ Delivery(rcvd[id], ch, id, n, Listens(id), LinkUp(s))
        /\ Carries(ch, "HTTP_BODY_END", id) =>
              /\ ChunksFirst(ch, id)
              /\ Listens(id) /\ how = "done" => Reaches(ch, id, Len(rcvd[id]), n)

\* The end of a socket is announced once, when it has come.
UdpGood(id) ==
    LET s == home[id]
        ch == down[s]
        isOver == loop[s][id] # "none" /\ id \notin sockets[s]
    IN  /\ Carries(ch, "UDP_CLOSE", id) => isOver
        /\ Once(ch, "UDP_CLOSE", id)
        /\ id \in interest /\ LinkUp(s) /\ isOver => Carries(ch, "UDP_CLOSE", id)
        /\ Delivery(rcvd[id], ch, id, SentDown(s, id), Listens(id), LinkUp(s))

\* An exchange does what its kind asks for.
Good(id) ==
    /\ kind[id] = "dns" => DnsGood(id)
    /\ kind[id] = "http" => HttpGood(id)
    /\ kind[id] = "udp" => UdpGood(id)

EveryoneIsServed == \A id \in Ids : Good(id)

-----------------------------------------------------------------------------
(* Request bodies, exchange by exchange                                    *)

\* The server takes the chunks of a request body, or will.
TakesBody(id) ==
    id \in bodies[home[id]] \/ Carries(up[home[id]], "HTTP_REQUEST", id)

UploadOf(id) ==
    Delivery(uploaded[home[id]][id], up[home[id]], id, sent[id], TakesBody(id),
             LinkUp(home[id]))

\* A request the client still waits for, with a body that did not fail.
Wanted(id) == id \in pending /\ id \notin torn

\* Its end is on its way when the body is over and all of it sent before, and
\* closes a body that is complete.
UploadGood(id) ==
    LET s == home[id] IN
    /\ UploadOf(id)
    /\ Wanted(id) /\ Carries(up[s], "HTTP_BODY_END", id) =>
          /\ ~writing[id]
          /\ ChunksFirst(up[s], id)
          /\ TakesBody(id) => Reaches(up[s], id, Len(uploaded[s][id]), sent[id])
    /\ id \in finished[s] =>
          (~writing[id] /\ Len(uploaded[s][id]) = sent[id]) \/ ~Wanted(id)

UploadsAreGood == \A id \in Ids : kind[id] = "http" => UploadGood(id)
=============================================================================
