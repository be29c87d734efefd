------------------------------- MODULE Tunnel -------------------------------
(***************************************************************************)
(* The TCP tunnel: one ProxyClient and the server's transports, joined by  *)
(* the WebSockets of Wire.                                                 *)
(***************************************************************************)
EXTENDS ProxyClient, TCPProxy

vars == <<wireVars, clientVars, proxyVars>>

Init == WireInit /\ ClientInit /\ ProxyInit

\* A new session: client/main.ts opens a WebSocket, the server accepts it.
NewSession == Assign /\ Accept(sess + 1)

Next ==
    \/ NewSession
    \/ ClientNext /\ UNCHANGED proxyVars
    \/ ProxyNext /\ UNCHANGED clientVars

Spec == Init /\ [][Next]_vars

-----------------------------------------------------------------------------
(* Fairness.  The event loops run what is ready: messages are dispatched,  *)
(* timers fire, resumed loops go on.  A read of the target is a promise it *)
(* may keep waiting, but the code's own CONNECT_TIMEOUT bounds a connect,  *)
(* and each end of a WebSocket learns in the end that the other has gone.  *)
(* No fairness is asked of the caller, of the target, of the network that  *)
(* may fail at any time, or of the reconnection.                           *)

Deliver == NoHandler \/ ConnectAck \/ StreamData \/ StreamClose \/ StreamError

\* The client's WebSocket closes because the server's end has.
NoticeServerGone == cws /\ ~sws[sess] /\ down[sess] = <<>> /\ ClientLinkClosed
NoticeClientGone(s) == ~LinkUp(s) /\ ServerLinkClosed(s)

ClientFairness ==
    /\ WF_vars(Deliver /\ UNCHANGED proxyVars)
    /\ WF_vars(NoticeServerGone /\ UNCHANGED proxyVars)
    /\ \A id \in Ids : WF_vars(RequestTimeout(id) /\ UNCHANGED proxyVars)

ProxyFairness ==
    \A s \in Sessions :
        /\ WF_vars((HandleConnect(s) \/ HandleData(s) \/ HandleClose(s)) /\ UNCHANGED clientVars)
        /\ WF_vars(NoticeClientGone(s) /\ UNCHANGED clientVars)
        /\ WF_vars(tstate[s] = "disconnected" /\ CloseTransport(s) /\ UNCHANGED clientVars)
        /\ \A id \in Ids :
              /\ WF_vars(ConnectDone(s, id) /\ UNCHANGED clientVars)
              /\ WF_vars(SendChunk(s, id) /\ UNCHANGED clientVars)
              /\ WF_vars(id \notin conns[s] /\ PipeEnd(s, id) /\ UNCHANGED clientVars)

FairSpec == Spec /\ ClientFairness /\ ProxyFairness

-----------------------------------------------------------------------------
(* Safety                                                                  *)

TypeOK == WireTypeOK /\ ClientTypeOK /\ ProxyTypeOK

\* A caller never waits without a clock: the request timer is armed exactly
\* while the promise of connectTCP is unsettled, through every way of settling
\* it (ACK, ERROR, disconnect, reaper, close).
WaitingIsTimed == \A id \in Ids : id \in timer <=> call[id] = "waiting"

\* The pending map and the streams agree: an entry always has a stream that
\* can take data, so dispatch() never enqueues into an ended stream.
EntryHasOpenReader == \A id \in pending : reader[id] = "open"

\* The call was made in the session the client is in, and both ends believe in
\* that session.
Live(id) == home[id] = sess /\ LinkUp(sess)

\* While both ends of the link believe in it, a call in progress has something
\* working for it: its request or its answer is on the way, or the server is
\* connecting.  Otherwise its caller could only wait for the timeout.
WaitingIsServed ==
    \A id \in pending :
        call[id] = "waiting" /\ Live(id) =>
            \/ Carries(up[sess], "TCP_CONNECT", id)
            \/ task[sess][id] = "connecting"
            \/ Carries(down[sess], "TCP_CONNECT_ACK", id)
            \/ Carries(down[sess], "ERROR", id)

\* Streams deliver in order, without gaps or repetitions, what the target of
\* this very call produced.
DownloadInOrder ==
    \A id \in Ids :
        rcvd[id] # <<>> =>
            /\ Len(rcvd[id]) <= produced[home[id]][id]
            /\ \A k \in DOMAIN rcvd[id] : rcvd[id][k] = k

\* The target of a call is written what the caller wrote, in order and without
\* gaps, and only by the transport the call was made on, also when the caller
\* went on writing while the client was disconnected and the queue was flushed
\* to the next transport.
UploadInOrder ==
    \A id \in Ids, s \in Sessions :
        written[s][id] # <<>> =>
            /\ s = home[id]
            /\ Len(written[s][id]) <= sent[id]
            /\ \A k \in DOMAIN written[s][id] : written[s][id][k] = k

\* The connection was closed while its target had not ended: by the client, by
\* a failed write, or with its transport.
CutShort(s, id) ==
    /\ id \notin conns[s]
    /\ task[s][id] \in {"reading", "holding", "cut"}

\* The stream of a call whose target ended by itself ends cleanly only when all
\* that the target produced has been delivered: no chunk is overtaken by the
\* TCP_CLOSE of its connection.
CleanEndIsComplete ==
    \A id \in Ids :
        reader[id] = "closed" =>
            \/ CutShort(home[id], id)
            \/ task[home[id]][id] = "ended" /\ Len(rcvd[id]) = produced[home[id]][id]

\* A connected stream whose connection is gone on the server has the news on
\* its way as long as the link lives, so its reader cannot hang.
CloseIsAnnounced ==
    \A id \in pending :
        call[id] = "connected" /\ Live(id) /\ id \notin conns[sess]
            => Carries(down[sess], "TCP_CLOSE", id)

\* A connected stream the client has given up, in a session it has not itself
\* declared dead, has its TCP_CLOSE on the way to the server: the connection to
\* the target is not kept for nobody.
ReleaseIsAnnounced ==
    \A id \in Ids \ pending :
        call[id] = "connected" /\ Live(id) /\ cstate = "connected" /\ id \in conns[sess]
            => Carries(up[sess], "TCP_CLOSE", id)

\* cleanupPendingRequests() cleans up stale requests: it does not take the entry
\* of a stream that both ends use and leave its reader open.
ReapsOnlyStale ==
    [][\A id \in pending :
          call[id] = "connected" /\ Live(id) /\ id \in conns[sess] /\ ~isClosed'
              => id \in pending' \/ reader'[id] # "open"]_vars

\* A transport that was closed has closed all its connections.
ClosedTransportHoldsNothing ==
    \A s \in Sessions : tstate[s] = "closed" => conns[s] = {}

-----------------------------------------------------------------------------
(* The tunnel implements Streams                                           *)

PhaseOf(id) ==
    CASE call[id] = "none" -> "idle"
      [] call[id] = "waiting" -> "calling"
      [] call[id] = "failed" -> "failed"
      [] call[id] = "connected" /\ reader[id] = "open" -> "open"
      [] call[id] = "connected" /\ reader[id] = "closed" -> "ended"
      [] call[id] = "connected" /\ reader[id] = "errored" -> "broken"
      [] call[id] = "connected" /\ reader[id] = "cancelled" -> "cancelled"

\* What the target of a call has produced.
MadeFor(id) == IF home[id] = 0 THEN 0 ELSE produced[home[id]][id]

Abstract == INSTANCE Streams WITH
    Calls <- Ids,
    phase <- [id \in Ids |-> PhaseOf(id)],
    made <- [id \in Ids |-> MadeFor(id)],
    got <- [id \in Ids |-> Len(rcvd[id])],
    cut <- {id \in Ids : home[id] # 0 /\ CutShort(home[id], id)}

\* Every step of the tunnel is a step the caller was promised, or invisible.
ImplementsStreams == Abstract!Spec

-----------------------------------------------------------------------------
(* Liveness, under FairSpec                                                *)

\* Every call of connectTCP is settled, whatever is lost and whoever closes.
CallSettles == \A id \in Ids : call[id] = "waiting" ~> call[id] # "waiting"

\* The client is in the session of the call and has not declared it dead.
InSession(id) == home[id] = sess /\ cstate = "connected"

\* Once the connection of a stream is gone on the server, its reader ends (or
\* its entry is reaped), unless the client declared the session dead before:
\* no reader hangs on a message that will not come.
EndReachesReader ==
    \A id \in Ids :
        /\ id \in pending /\ call[id] = "connected" /\ InSession(id)
        /\ id \notin conns[home[id]]
        ~> reader[id] # "open" \/ id \notin pending

\* A transport whose client has gone is closed in the end.
TransportCloses ==
    \A s \in Sessions : tstate[s] # "none" /\ ~LinkUp(s) ~> tstate[s] = "closed"
=============================================================================
