------------------------------ MODULE Exchanges ------------------------------
(***************************************************************************)
(* DNS queries, HTTP requests and UDP sockets over the tunnel: the client  *)
(* of Requests and the three proxies of each transport, joined by the      *)
(* WebSockets of Wire.  TCP calls share nothing with them but the client's *)
(* maps; they are Tunnel's subject.                                        *)
(***************************************************************************)
EXTENDS Requests, DNSProxy, HTTPProxy, UDPProxy

serverVars == <<tstate, dnsVars, httpVars, udpVars>>
vars == <<wireVars, clientVars, requestVars, serverVars>>

Init ==
    /\ WireInit /\ ClientInit /\ RequestInit
    /\ tstate = [s \in Sessions |-> "none"]
    /\ DnsInit /\ HttpInit /\ UdpInit

-----------------------------------------------------------------------------
(* The transport                                                           *)

\* dispatch(): to the proxy of the type of the message.  An ERROR, which the
\* client sends when it gives a DNS query up, is only logged.
Dispatch(s) ==
    \E m \in NextIn(up[s]) :
        /\ Receive(s, m)
        /\ \/ HandleQuery(s, m) /\ UNCHANGED <<httpVars, udpVars>>
           \/ HttpReceive(s, m) /\ UNCHANGED <<dnsVars, udpVars>>
           \/ UdpReceive(s, m) /\ UNCHANGED <<dnsVars, httpVars>>
           \/ m.type = "ERROR" /\ UNCHANGED <<dnsVars, httpVars, udpVars, down>>
        /\ UNCHANGED <<sess, cws, sws, tstate>>

ServerLinkClosed(s) == LinkLost(s) /\ UNCHANGED <<dnsVars, httpVars, udpVars>>
ServerHeartbeatTimeout(s) == HeartbeatLost(s) /\ UNCHANGED <<dnsVars, httpVars, udpVars>>

\* close() ends the UDP sockets and the HTTP requests.  The DNS queries and
\* their timers are left to run out.
CloseTransport(s) ==
    EndTransport(s) /\ CloseSockets(s) /\ AbortAll(s) /\ UNCHANGED dnsVars

ServerNext ==
    \E s \in Sessions :
        \/ Dispatch(s)
        \/ ServerLinkClosed(s) \/ ServerHeartbeatTimeout(s) \/ CloseTransport(s)
        \/ \E id \in Ids :
              \/ DnsStep(s, id) /\ UNCHANGED <<httpVars, udpVars>>
              \/ HttpStep(s, id) /\ UNCHANGED <<dnsVars, udpVars>>
              \/ UdpStep(s, id) /\ UNCHANGED <<dnsVars, httpVars>>

NewSession ==
    /\ Assign /\ UNCHANGED requestVars
    /\ AssignSocket(sess + 1) /\ UNCHANGED <<dnsVars, httpVars, udpVars>>

Next ==
    \/ NewSession
    \/ RequestNext /\ UNCHANGED serverVars
    \/ ServerNext /\ UNCHANGED <<clientVars, requestVars>>

Spec == Init /\ [][Next]_vars

-----------------------------------------------------------------------------
(* Fairness.  These steps are taken when nothing else is left to do: the   *)
(* event loops run what is ready, timers fire, and each end of a WebSocket *)
(* learns that the other has gone.  A lookup may take for ever, its timer  *)
(* does not; a fetch is bounded by FETCH_TIMEOUT, and one that was aborted *)
(* rejects.  No timer watches a response body, so it may take for ever.    *)

ClientMustGoOn ==
    \/ DnsResponse \/ HttpResponse \/ BodyChunk \/ BodyEnd \/ Stray \/ UdpHears
    \/ /\ \/ StreamError
          \/ cws /\ ~sws[sess] /\ down[sess] = <<>> /\ ClientLinkClosed
       /\ UNCHANGED requestVars
    \/ \E id \in Ids : GiveUp(id)

ServerMustGoOn(s) ==
    \/ Dispatch(s)
    \/ ~LinkUp(s) /\ ServerLinkClosed(s)
    \/ tstate[s] = "disconnected" /\ CloseTransport(s)
    \/ \E id \in Ids :
          \/ QueryTimeout(s, id) /\ UNCHANGED <<httpVars, udpVars>>
          \/ (FetchEnds(s, id) \/ AbortTakesEffect(s, id)) /\ UNCHANGED <<dnsVars, udpVars>>
          \/ id \notin sockets[s] /\ LoopEnds(s, id) /\ UNCHANGED <<dnsVars, httpVars>>

MustGoOn ==
    \/ ClientMustGoOn /\ UNCHANGED serverVars
    \/ \E s \in Sessions : ServerMustGoOn(s) /\ UNCHANGED <<clientVars, requestVars>>

\* One condition for all of them, as weak as can be: the system does not stop
\* for good while one of these steps can be taken.
FairSpec == Spec /\ WF_vars(MustGoOn)

-----------------------------------------------------------------------------
(* Safety                                                                  *)

TypeOK ==
    /\ sess \in 0 .. MaxSessions
    /\ cws \in BOOLEAN /\ (cws => sess # 0)
    /\ sws \in [Sessions -> BOOLEAN]
    /\ up \in [Sessions -> Seq(RequestMessage)]
    /\ down \in [Sessions -> Seq(RequestMessage)]
    /\ nextId \in 1 .. MaxCalls + 1
    /\ home \in [Ids -> 0 .. MaxSessions]
    /\ pending \subseteq Ids /\ Cardinality(pending) <= MaxPending
    /\ timer \subseteq Ids
    /\ call \in [Ids -> CallState]
    /\ reader \in [Ids -> ReaderState]
    /\ rcvd \in [Ids -> Seq(1 .. MaxChunks)]
    /\ sent \in [Ids -> 0 .. MaxChunks]
    /\ writing \in [Ids -> BOOLEAN]
    /\ cstate \in {"connected", "disconnected"}
    /\ queue \in Seq(RequestMessage) /\ Len(queue) <= MaxQueue
    /\ isClosed \in BOOLEAN
    /\ tstate \in [Sessions -> TransportState]
    /\ RequestTypeOK /\ DnsTypeOK /\ HttpTypeOK /\ UdpTypeOK

\* A query or a fetch never waits without a clock: its timer is armed exactly
\* while its promise is unsettled, through every way of settling it.
WaitingIsTimed == \A id \in Ids : id \in timer <=> call[id] = "waiting"

\* The call was made in the session the client is in, and both ends believe in
\* that session.
Live(id) == home[id] = sess /\ LinkUp(sess)

\* While both ends believe in the link, a waiting query or fetch has something
\* that will answer it: the request on its way, a query with its timer armed, a
\* fetch that FETCH_TIMEOUT bounds, or an answer on its way.
WaitingIsServed ==
    \A id \in pending :
        call[id] = "waiting" /\ Live(id) =>
            \/ \E t \in {"DNS_QUERY", "HTTP_REQUEST"} : Carries(up[sess], t, id)
            \/ id \in queries[sess]
            \/ stage[sess][id] = "fetching"
            \/ \E t \in {"DNS_RESPONSE", "HTTP_RESPONSE", "ERROR"} : Carries(down[sess], t, id)

\* What a caller reads from a response, or a driver from a UDP socket, is what
\* the target of this very call sent, in order.
ResponseInOrder ==
    \A id \in Ids :
        rcvd[id] # <<>> =>
            /\ Len(rcvd[id]) <= (IF kind[id] = "udp" THEN datagrams[home[id]][id]
                                                     ELSE produced[home[id]][id])
            /\ \A k \in DOMAIN rcvd[id] : rcvd[id][k] = k

\* The request body the server forwards is the caller's, in order and without
\* gaps, and in the session of the call only, also when the caller's body goes
\* on after the call is over or after a reconnection.
UploadInOrder ==
    \A id \in Ids, s \in Sessions :
        uploaded[s][id] # <<>> =>
            /\ s = home[id]
            /\ Len(uploaded[s][id]) <= sent[id]
            /\ \A k \in DOMAIN uploaded[s][id] : uploaded[s][id][k] = k

\* A request body the server has ended is the whole of the caller's, unless the
\* caller's body failed or the client had given the call up before.
UploadEndIsComplete ==
    \A s \in Sessions : \A id \in finished[s] :
        \/ ~writing[id] /\ Len(uploaded[s][id]) = sent[id]
        \/ id \in torn
        \/ id \notin pending

\* The server's maps hold exactly what is in progress: a request until it has
\* been answered in full, has failed or was aborted, its body no longer than it,
\* a socket no longer than its loop, a query no longer than its lookup. A closed
\* transport keeps no request and no socket.  Its queries stay until they end,
\* although close() means to "Close all proxies" (transport.ts:341): nobody calls
\* abortAll() of DNSProxy.
MapsAreClean ==
    \A s \in Sessions :
        /\ requests[s] = {id \in Ids : stage[s][id] \in {"fetching", "streaming"}} \ aborted[s]
        /\ bodies[s] \subseteq requests[s]
        /\ bodies[s] \cap finished[s] = {}
        /\ queries[s] \subseteq lookups[s]
        /\ \A id \in sockets[s] : loop[s][id] \in {"receiving", "holding"}
        /\ tstate[s] = "closed" => requests[s] = {} /\ sockets[s] = {}

\* The end of a UDP socket is announced, once: not while it is open, and as long
\* as the link lives its driver has heard of it or will.
SocketEndIsAnnounced ==
    \A id \in Ids : kind[id] = "udp" /\ Live(id) =>
        LET news == Copies(down[sess], "UDP_CLOSE", id) IN
        /\ Cardinality(news) <= (IF id \in sockets[sess] THEN 0 ELSE 1)
        /\ loop[sess][id] # "none" /\ id \in interest \ sockets[sess] => news # {}

-----------------------------------------------------------------------------
(* A fetch keeps the promise of Streams, its body being the stream; a DNS  *)
(* query is a call without data.                                           *)

PhaseOf(id) ==
    CASE call[id] = "none" -> "idle"
      [] call[id] = "waiting" -> "calling"
      [] call[id] = "failed" -> "failed"
      [] call[id] = "connected" /\ reader[id] \in {"none", "open"} -> "open"
      [] call[id] = "connected" /\ reader[id] = "closed" -> "ended"
      [] call[id] = "connected" /\ reader[id] = "errored" -> "broken"
      [] call[id] = "connected" /\ reader[id] = "cancelled" -> "cancelled"

Abstract == INSTANCE Streams WITH
    Calls <- Ids,
    phase <- [id \in Ids |-> PhaseOf(id)],
    made <- [id \in Ids |-> IF home[id] = 0 THEN 0 ELSE produced[home[id]][id]],
    got <- [id \in Ids |-> IF kind[id] = "http" THEN Len(rcvd[id]) ELSE 0],
    cut <- {id \in Ids : home[id] # 0 /\ stage[home[id]][id] = "cut"}

\* Every step of an exchange is a step its caller was promised, or invisible.
ImplementsStreams == Abstract!Spec

-----------------------------------------------------------------------------
(* Liveness, under FairSpec                                                *)

\* Every query and every fetch is settled; once the server has no more of a
\* response to send, the reader of its body learns how it ended, unless the
\* client gave the session or the entry up; and nothing goes on for a transport
\* that was closed.  As calls are made once, it is enough that such a moment
\* comes again and again.
NobodyIsLeftHanging ==
    []<>(\A id \in Ids :
            /\ call[id] # "waiting"
            /\ id \in pending /\ reader[id] = "open" /\ home[id] = sess /\ cstate = "connected"
               => stage[sess][id] \notin {"done", "cut", "failed"}
            /\ \A s \in Sessions :
                   tstate[s] = "closed" => stage[s][id] \notin {"fetching", "streaming"})
=============================================================================
