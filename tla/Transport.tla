------------------------------ MODULE Transport ------------------------------
(***************************************************************************)
(* ProxyTransport of core/transport.ts, as far as the proxies it owns share *)
(* it: sending, receiving, and its life from the WebSocket it is assigned   *)
(* to its close().  There is one transport per session.  What its own       *)
(* registry, timers and queue do is Registry's subject.                     *)
(***************************************************************************)
EXTENDS Wire

VARIABLE tstate     \* tstate[s]: connectionState and isClosed of the transport

TransportState == {"none", "connected", "disconnected", "closed"}

\* send() of the transport: a closed transport drops the message.  Without an
\* open WebSocket it is queued for a reconnection that names this transport;
\* the client makes none, so the message is never delivered.  On an open one
\* it is lost when the client has already left the session.
Reply(s, m) ==
    down' = IF tstate[s] # "closed" /\ LinkUp(s)
            THEN [down EXCEPT ![s] = Append(@, m)]
            ELSE down

\* send() for two messages in a row.
ReplyTwice(s, m, n) ==
    down' = IF tstate[s] # "closed" /\ LinkUp(s)
            THEN [down EXCEPT ![s] = @ \o <<m, n>>]
            ELSE down

\* The listeners of the transport take the next message.
Receive(s, m) ==
    /\ sws[s]
    /\ up[s] # <<>>
    /\ m = Head(up[s])
    /\ up' = [up EXCEPT ![s] = Tail(@)]

\* Mutation: no reconnect timer is started.
LinkLost_NoTimer(s) ==
    /\ sws[s]
    /\ sws' = [sws EXCEPT ![s] = FALSE]
    /\ up' = [up EXCEPT ![s] = <<>>]
    /\ UNCHANGED <<sess, cws, down, tstate>>

\* handleDisconnect() after close or error of the WebSocket: what it had not
\* delivered is lost, the proxies keep what they hold for the reconnect time.
LinkLost(s) ==
    /\ sws[s]
    /\ sws' = [sws EXCEPT ![s] = FALSE]
    /\ up' = [up EXCEPT ![s] = <<>>]
    /\ tstate' = [tstate EXCEPT ![s] = "disconnected"]
    /\ UNCHANGED <<sess, cws, down>>

\* handleDisconnect() after the heartbeat timer: the WebSocket stays open, and
\* so do its listeners.
HeartbeatLost(s) ==
    /\ sws[s]
    /\ tstate[s] = "connected"
    /\ tstate' = [tstate EXCEPT ![s] = "disconnected"]
    /\ UNCHANGED <<sess, cws, sws, up, down>>

\* close(): by the reconnect timer of a disconnected transport, or by the
\* connection manager at any time.  What the proxies say then is dropped.
EndTransport(s) ==
    /\ tstate[s] \in {"connected", "disconnected"}
    /\ tstate' = [tstate EXCEPT ![s] = "closed"]
    /\ sws' = [sws EXCEPT ![s] = FALSE]
    /\ up' = [up EXCEPT ![s] = <<>>]
    /\ UNCHANGED <<sess, cws, down>>

\* assign() of a fresh transport: handleOpen registers it for a new session.
AssignSocket(s) ==
    /\ tstate[s] = "none"
    /\ tstate' = [tstate EXCEPT ![s] = "connected"]
    /\ sws' = [sws EXCEPT ![s] = TRUE]
=============================================================================
