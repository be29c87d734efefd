-------------------------------- MODULE Wire --------------------------------
(***************************************************************************)
(* What the client and the server of the tunnel share: the binary messages *)
(* of core/protocol.ts that carry TCP streams, and one WebSocket per       *)
(* session.  A session is one WebSocket, together with the ProxyTransport  *)
(* the server creates for it.  The client replaces its WebSocket when it   *)
(* reconnects and never names an earlier transport, so session n + 1       *)
(* always starts from a fresh transport.                                   *)
(*                                                                         *)
(* A WebSocket is reliable and ordered while it lives: each direction is a *)
(* sequence.  Each end has its own view of whether it is open, because the *)
(* two ends learn of a failure at different times; what was not delivered  *)
(* when an end closes is lost.                                             *)
(***************************************************************************)
EXTENDS Naturals, Sequences, FiniteSets

CONSTANTS
    MaxCalls,      \* bound: resource ids handed out (RESOURCE_ID_MAX in the code)
    MaxSessions,   \* bound: WebSockets the client opens
    MaxChunks,     \* bound: chunks of one stream, in each direction
    MaxQueue,      \* MAX_QUEUE_SIZE
    MaxPending     \* MAX_PENDING_REQUESTS

ASSUME WireAssumption ==
    /\ MaxCalls \in Nat \ {0}
    /\ MaxSessions \in Nat \ {0}
    /\ MaxChunks \in Nat
    /\ MaxQueue \in Nat
    /\ MaxPending \in Nat

Ids == 1 .. MaxCalls
Sessions == 1 .. MaxSessions

MessageType ==
    {"TCP_CONNECT", "TCP_CONNECT_ACK", "TCP_DATA", "TCP_CLOSE", "ERROR"}

\* A chunk stands for its position in its stream; 0 is "no payload".
Message == [type : MessageType, id : Ids, chunk : 0 .. MaxChunks]

Msg(t, id) == [type |-> t, id |-> id, chunk |-> 0]
DataMsg(id, n) == [type |-> "TCP_DATA", id |-> id, chunk |-> n]

VARIABLES
    sess,   \* the session of the client's current WebSocket, 0 before the first
    cws,    \* the client's WebSocket has readyState OPEN
    sws,    \* sws[s]: the server's end of session s has readyState OPEN
    up,     \* up[s]: messages on their way to the server
    down    \* down[s]: messages on their way to the client

wireVars == <<sess, cws, sws, up, down>>

WireTypeOK ==
    /\ sess \in 0 .. MaxSessions
    /\ cws \in BOOLEAN
    /\ cws => sess # 0
    /\ sws \in [Sessions -> BOOLEAN]
    /\ up \in [Sessions -> Seq(Message)]
    /\ down \in [Sessions -> Seq(Message)]

WireInit ==
    /\ sess = 0
    /\ cws = FALSE
    /\ sws = [s \in Sessions |-> FALSE]
    /\ up = [s \in Sessions |-> <<>>]
    /\ down = [s \in Sessions |-> <<>>]

\* A message of type t about id is somewhere in the channel ch.
Carries(ch, t, id) == \E k \in DOMAIN ch : ch[k].type = t /\ ch[k].id = id

\* Both ends of session s still believe in it.
LinkUp(s) == sess = s /\ cws /\ sws[s]
=============================================================================
