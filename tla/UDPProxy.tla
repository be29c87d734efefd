------------------------------ MODULE UDPProxy ------------------------------
(***************************************************************************)
(* core/protocol/udp.ts: a datagram socket per id and the loop that        *)
(* receives from it.                                                       *)
(***************************************************************************)
EXTENDS Transport, RequestMessages

VARIABLES
    sockets,    \* sockets[s]: keys of `sockets`
    loop,       \* loop[s][id]: where receiveLoop stands
    datagrams   \* datagrams[s][id]: datagrams received from the target

udpVars == <<sockets, loop, datagrams>>

\* "holding": receive() has resolved and the loop has not resumed.
Loop == {"none", "receiving", "holding", "over"}

UdpTypeOK ==
    /\ sockets \in [Sessions -> SUBSET Ids]
    /\ loop \in [Sessions -> [Ids -> Loop]]
    /\ datagrams \in [Sessions -> [Ids -> 0 .. MaxChunks]]

UdpInit ==
    /\ sockets = [s \in Sessions |-> {}]
    /\ loop = [s \in Sessions |-> [id \in Ids |-> "none"]]
    /\ datagrams = [s \in Sessions |-> [id \in Ids |-> 0]]

SetLoop(s, id, to) == loop' = [loop EXCEPT ![s][id] = to]

\* Mutation: it is announced whether or not there was a socket to close.
CloseSocket_Always(s, id) ==
    /\ sockets' = [sockets EXCEPT ![s] = @ \ {id}]
    /\ Reply(s, Msg("UDP_CLOSE", id))

\* close(): only an open socket is closed, and that is announced.  It runs in
\* one go, so closingSockets is empty whenever anything else runs.
CloseSocket(s, id) ==
    IF id \in sockets[s]
    THEN /\ sockets' = [sockets EXCEPT ![s] = @ \ {id}]
         /\ Reply(s, Msg("UDP_CLOSE", id))
    ELSE UNCHANGED <<sockets, down>>

\* handleBind runs to its end and starts the loop, or fails.
HandleBind(s, m) ==
    /\ m.type = "UDP_BIND"
    /\ \/ /\ sockets' = [sockets EXCEPT ![s] = @ \cup {m.id}]
          /\ SetLoop(s, m.id, "receiving")
          /\ Reply(s, Msg("UDP_BIND_ACK", m.id))
       \/ Reply(s, Msg("ERROR", m.id)) /\ UNCHANGED <<sockets, loop>>
    /\ UNCHANGED datagrams

HandleUdpClose(s, m) ==
    /\ m.type = "UDP_CLOSE"
    /\ CloseSocket(s, m.id)
    /\ UNCHANGED <<loop, datagrams>>

\* handleData sends to the target and waits; whatever comes of it is at most
\* logged.  What targets receive is not modelled.
HandleUdpData(m) == m.type = "UDP_DATA" /\ UNCHANGED <<udpVars, down>>

UdpReceive(s, m) == HandleBind(s, m) \/ HandleUdpClose(s, m) \/ HandleUdpData(m)

-----------------------------------------------------------------------------
(* receiveLoop                                                             *)

\* Mutation: the next datagram is received over the one still to be sent.
Datagram_Overlapping(s, id) ==
    /\ loop[s][id] \in {"receiving", "holding"} /\ id \in sockets[s]
    /\ datagrams[s][id] < MaxChunks
    /\ datagrams' = [datagrams EXCEPT ![s][id] = @ + 1]
    /\ SetLoop(s, id, "holding")
    /\ UNCHANGED <<wireVars, tstate, sockets>>

\* A datagram has been received; sending it on is a step of its own.
Datagram(s, id) ==
    /\ loop[s][id] = "receiving" /\ id \in sockets[s]
    /\ datagrams[s][id] < MaxChunks
    /\ datagrams' = [datagrams EXCEPT ![s][id] = @ + 1]
    /\ SetLoop(s, id, "holding")
    /\ UNCHANGED <<wireVars, tstate, sockets>>

\* The datagram is sent on, whether or not close() ran meanwhile.
SendDatagram(s, id) ==
    /\ loop[s][id] = "holding"
    /\ SetLoop(s, id, "receiving")
    /\ Reply(s, Chunk("UDP_DATA", id, datagrams[s][id]))
    /\ UNCHANGED <<sess, cws, sws, up, tstate, sockets, datagrams>>

\* The socket is closed, by close() or by itself; `finally` closes it again.
\* Any other error leaves the loop where it is.
LoopEnds(s, id) ==
    /\ loop[s][id] = "receiving"
    /\ SetLoop(s, id, "over")
    /\ CloseSocket(s, id)
    /\ UNCHANGED <<sess, cws, sws, up, tstate, datagrams>>

\* closeAll of a closed transport, which drops what close() sends.
CloseSockets(s) ==
    /\ sockets' = [sockets EXCEPT ![s] = {}]
    /\ UNCHANGED <<loop, datagrams>>

UdpStep(s, id) == Datagram(s, id) \/ SendDatagram(s, id) \/ LoopEnds(s, id)
=============================================================================
