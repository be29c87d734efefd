------------------------------ MODULE Requests ------------------------------
(***************************************************************************)
(* queryDNS and fetchHTTP of ProxyClient (core/client.ts): one question,   *)
(* one answer, and for HTTP a body each way.  They share the pending map,  *)
(* the timers, the queue and the end of the link with connectTCP, so this  *)
(* module adds to ProxyClient:                                             *)
(*                                                                         *)
(*   call[id]     the promise; "connected" is resolved                     *)
(*   reader[id]   the body of the Response the caller got, "none" without  *)
(*   writing[id]  sendBody reads the caller's body                         *)
(*   sent[id]     the chunks it has sent                                   *)
(*                                                                         *)
(* UDP has no caller here: ProxyClient has no bind operation.  Its ids are *)
(* taken by a client of another make (see UDPDriver).                      *)
(***************************************************************************)
EXTENDS ProxyClient, RequestMessages

VARIABLES
    kind,       \* kind[id]: what the id was taken for
    torn,       \* uploads whose body failed half way; history, no guard reads it
    interest    \* ids of UDP sockets their driver uses

requestVars == <<kind, torn, interest>>

Kind == {"none", "dns", "http", "udp"}

RequestTypeOK ==
    /\ kind \in [Ids -> Kind]
    /\ torn \subseteq Ids
    /\ interest \subseteq Ids

RequestInit ==
    /\ kind = [id \in Ids |-> "none"]
    /\ torn = {}
    /\ interest = {}

-----------------------------------------------------------------------------
(* Calls                                                                   *)

\* A fresh id for a call of kind k that may be made now.
TakeId(k) ==
    /\ ~isClosed /\ cws
    /\ nextId <= MaxCalls
    /\ nextId' = nextId + 1
    /\ home' = [home EXCEPT ![nextId] = sess]
    /\ kind' = [kind EXCEPT ![nextId] = k]

\* The entry, the promise and its timer.
Await(k) ==
    /\ Cardinality(pending) < MaxPending
    /\ TakeId(k)
    /\ pending' = pending \cup {nextId}
    /\ timer' = timer \cup {nextId}
    /\ call' = [call EXCEPT ![nextId] = "waiting"]

QueryDNS ==
    /\ Await("dns")
    /\ Send(<<Msg("DNS_QUERY", nextId)>>)
    /\ UNCHANGED <<sess, cws, sws, down, reader, rcvd, sent, writing, cstate,
                   isClosed, torn, interest>>

\* fetchHTTP: the entry of receiveResponse, the request, and sendBody if there
\* is a body.  Whether the headers announce one (content-length or
\* transfer-encoding) is up to the caller.
FetchHTTP ==
    \E body, announced \in BOOLEAN :
        /\ Await("http")
        /\ writing' = [writing EXCEPT ![nextId] = body]
        /\ Send(<<Chunk("HTTP_REQUEST", nextId, Flag(announced))>>)
        /\ UNCHANGED <<sess, cws, sws, down, reader, rcvd, sent, cstate, isClosed,
                       torn, interest>>

\* sendBody: it looks at nothing but the caller's body, not even at whether the
\* call is still wanted.
SendBodyChunk(id) ==
    /\ kind[id] = "http" /\ writing[id]
    /\ sent[id] < MaxChunks
    /\ sent' = [sent EXCEPT ![id] = @ + 1]
    /\ Send(<<Chunk("HTTP_BODY_CHUNK", id, sent[id] + 1)>>)
    /\ UNCHANGED <<sess, cws, sws, down, nextId, home, pending, timer, call, reader,
                   rcvd, writing, cstate, isClosed, requestVars>>

\* Mutation: the last chunk and the end change places.
SendBodyEnd_Early(id) ==
    /\ kind[id] = "http" /\ writing[id]
    /\ writing' = [writing EXCEPT ![id] = FALSE]
    /\ \/ /\ Send(<<Msg("HTTP_BODY_END", id)>>) /\ UNCHANGED <<torn, sent>>
       \/ /\ Send(<<Msg("HTTP_BODY_END", id)>>) /\ torn' = torn \cup {id} /\ UNCHANGED sent
       \/ /\ sent[id] < MaxChunks /\ UNCHANGED torn
          /\ sent' = [sent EXCEPT ![id] = @ + 1]
          /\ Send(<<Msg("HTTP_BODY_END", id), Chunk("HTTP_BODY_CHUNK", id, sent[id] + 1)>>)
    /\ UNCHANGED <<sess, cws, sws, down, nextId, home, pending, timer, call, reader,
                   rcvd, cstate, isClosed, kind, interest>>

\* The body ends or fails; `finally` sends the same end in both cases.
SendBodyEnd(id) ==
    /\ kind[id] = "http" /\ writing[id]
    /\ writing' = [writing EXCEPT ![id] = FALSE]
    /\ torn' \in {torn, torn \cup {id}}
    /\ Send(<<Msg("HTTP_BODY_END", id)>>)
    /\ UNCHANGED <<sess, cws, sws, down, nextId, home, pending, timer, call, reader,
                   rcvd, sent, cstate, isClosed, kind, interest>>

\* What the client says when it gives a request of kind k up.
Farewell(k, id) ==
    CASE k = "dns" -> Msg("ERROR", id)
      [] k = "http" -> Msg("HTTP_BODY_END", id)
      [] k = "udp" -> Msg("UDP_CLOSE", id)

\* The timers of request() and of receiveResponse().
GiveUp(id) ==
    /\ id \in timer
    /\ timer' = timer \ {id}
    /\ pending' = pending \ {id}
    /\ call' = [call EXCEPT ![id] = "failed"]
    /\ Send(<<Farewell(kind[id], id)>>)
    /\ UNCHANGED <<sess, cws, sws, down, nextId, home, reader, rcvd, sent, writing,
                   cstate, isClosed, requestVars>>

\* The caller cancels the body of its Response: the stream has no cancel
\* handler, so nobody is told.
CancelBody(id) ==
    /\ kind[id] = "http"
    /\ reader[id] = "open"
    /\ reader' = [reader EXCEPT ![id] = "cancelled"]
    /\ UNCHANGED <<wireVars, nextId, home, pending, timer, call, rcvd, sent, writing,
                   cstate, queue, isClosed, requestVars>>

\* cleanupPendingRequests(), as Reap of ProxyClient has it.  Every entry that
\* old is of a call whose timer is gone: an HTTP response still on its way.
\* Rejecting it does nothing, and its body is neither closed nor errored.
ReapRequests ==
    \E oldest \in Ids :
        LET stale == {id \in pending : id <= oldest} IN
        /\ ~isClosed
        /\ stale # {}
        /\ stale \cap timer = {}
        /\ pending' = pending \ stale
        /\ \E l \in Listing(stale) :
               Send([k \in DOMAIN l |-> Farewell(kind[l[k]], l[k])])
        /\ UNCHANGED <<sess, cws, sws, down, nextId, home, timer, call, reader, rcvd,
                       sent, writing, cstate, isClosed, requestVars>>

-----------------------------------------------------------------------------
(* Messages from the server: dispatch                                      *)

Arriving == IF sess = 0 THEN {} ELSE NextIn(down[sess])

\* DNS_RESPONSE: resolve clears the timer, and queryDNS drops the entry.
DnsResponse ==
    \E m \in Arriving :
        /\ Take(m)
        /\ m.id \in pending
        /\ m.type = "DNS_RESPONSE"
        /\ timer' = timer \ {m.id}
        /\ call' = [call EXCEPT ![m.id] = "connected"]
        /\ pending' = pending \ {m.id}
        /\ UNCHANGED <<sess, cws, sws, up, nextId, home, reader, rcvd, sent, writing,
                       cstate, queue, isClosed, requestVars>>

\* Mutation: resolve does not clear the timer.
HttpResponse_KeepsTimer ==
    \E m \in Arriving :
        /\ Take(m)
        /\ m.id \in pending
        /\ m.type = "HTTP_RESPONSE"
        /\ call' = [call EXCEPT ![m.id] = "connected"]
        /\ reader' = [reader EXCEPT ![m.id] = IF m.chunk = 1 THEN "open" ELSE "none"]
        /\ UNCHANGED <<sess, cws, sws, up, nextId, home, pending, timer, rcvd, sent,
                       writing, cstate, queue, isClosed, requestVars>>

\* HTTP_RESPONSE: the caller gets a Response; the entry stays for the body.
HttpResponse ==
    \E m \in Arriving :
        /\ Take(m)
        /\ m.id \in pending
        /\ m.type = "HTTP_RESPONSE"
        /\ timer' = timer \ {m.id}
        /\ call' = [call EXCEPT ![m.id] = "connected"]
        /\ reader' = [reader EXCEPT ![m.id] = IF m.chunk = 1 THEN "open" ELSE "none"]
        /\ UNCHANGED <<sess, cws, sws, up, nextId, home, pending, rcvd, sent, writing,
                       cstate, queue, isClosed, requestVars>>

\* HTTP_BODY_CHUNK: an enqueue that throws is logged, the entry stays.
BodyChunk ==
    \E m \in Arriving :
        /\ Take(m)
        /\ m.id \in pending
        /\ m.type = "HTTP_BODY_CHUNK"
        /\ rcvd' = IF reader[m.id] = "open" THEN [rcvd EXCEPT ![m.id] = Append(@, m.chunk)]
                                            ELSE rcvd
        /\ UNCHANGED <<sess, cws, sws, up, nextId, home, pending, timer, call, reader,
                       sent, writing, cstate, queue, isClosed, requestVars>>

\* HTTP_BODY_END: the body is closed and the entry goes.
BodyEnd ==
    \E m \in Arriving :
        /\ Take(m)
        /\ m.id \in pending
        /\ m.type = "HTTP_BODY_END"
        /\ reader' = [reader EXCEPT ![m.id] = IF @ = "open" THEN "closed" ELSE @]
        /\ pending' = pending \ {m.id}
        /\ UNCHANGED <<sess, cws, sws, up, nextId, home, timer, call, rcvd, sent,
                       writing, cstate, queue, isClosed, requestVars>>

\* No entry: each chunk of a body is answered with HTTP_BODY_END, each datagram
\* nobody is interested in with UDP_CLOSE, anything else is at most logged.
Stray ==
    \E m \in Arriving :
        /\ Take(m)
        /\ m.id \notin pending \cup interest
        /\ IF m.type \in {"HTTP_BODY_CHUNK", "UDP_DATA"}
           THEN Send(<<Farewell(kind[m.id], m.id)>>)
           ELSE UNCHANGED <<queue, up>>
        /\ UNCHANGED <<sess, cws, sws, nextId, home, pending, timer, call, reader, rcvd,
                       sent, writing, cstate, isClosed, requestVars>>

-----------------------------------------------------------------------------
(* A client that uses UDP.  It is not in src/: what it may send is what    *)
(* UDPProxy handles, and it hears of its sockets until they are closed.    *)

UdpBind ==
    /\ TakeId("udp")
    /\ interest' = interest \cup {nextId}
    /\ Send(<<Msg("UDP_BIND", nextId)>>)
    /\ UNCHANGED <<sess, cws, sws, down, pending, timer, call, reader, rcvd, sent,
                   writing, cstate, isClosed, torn>>

UdpSend(id) ==
    /\ id \in interest
    /\ sent[id] < MaxChunks
    /\ sent' = [sent EXCEPT ![id] = @ + 1]
    /\ Send(<<Chunk("UDP_DATA", id, sent[id] + 1)>>)
    /\ UNCHANGED <<sess, cws, sws, down, nextId, home, pending, timer, call, reader,
                   rcvd, writing, cstate, isClosed, requestVars>>

UdpDrop(id) ==
    /\ id \in interest
    /\ interest' = interest \ {id}
    /\ Send(<<Msg("UDP_CLOSE", id)>>)
    /\ UNCHANGED <<sess, cws, sws, down, nextId, home, pending, timer, call, reader,
                   rcvd, sent, writing, cstate, isClosed, kind, torn>>

UdpHears ==
    \E m \in Arriving :
        /\ Take(m)
        /\ m.id \in interest
        /\ rcvd' = IF m.type = "UDP_DATA" THEN [rcvd EXCEPT ![m.id] = Append(@, m.chunk)]
                                          ELSE rcvd
        /\ interest' = IF m.type \in {"UDP_CLOSE", "ERROR"} THEN interest \ {m.id}
                                                            ELSE interest
        /\ UNCHANGED <<sess, cws, sws, up, nextId, home, pending, timer, call, reader,
                       sent, writing, cstate, queue, isClosed, kind, torn>>

UDPDriver == UdpBind \/ UdpHears \/ \E id \in Ids : UdpSend(id) \/ UdpDrop(id)

RequestNext ==
    \/ QueryDNS \/ FetchHTTP \/ ReapRequests
    \/ \E id \in Ids : SendBodyChunk(id) \/ SendBodyEnd(id) \/ GiveUp(id) \/ CancelBody(id)
    \/ DnsResponse \/ HttpResponse \/ BodyChunk \/ BodyEnd \/ Stray
    \/ UDPDriver
    \/ (StreamError \/ ClientLinkClosed \/ HeartbeatTimeout \/ CloseClient)
       /\ UNCHANGED requestVars
=============================================================================
