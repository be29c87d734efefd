---------------------------- MODULE ProxyClient ----------------------------
(***************************************************************************)
(* The client's end of the tunnel: ProxyClient and TCPStream of            *)
(* core/client.ts, for the calls of connectTCP.  A call is known by its    *)
(* resource id.  Its `pending` entry, the promise its caller awaits, the   *)
(* request timer and the ReadableStream have lives of their own in the     *)
(* code, and so they have here.                                            *)
(***************************************************************************)
EXTENDS Wire

VARIABLES
    nextId,     \* nextId
    home,       \* home[id]: the session the call was made in, 0 before; the
                \* code does not record it, the properties speak of it
    pending,    \* keys of the pending map
    timer,      \* ids whose request() timer is armed
    call,       \* call[id]: the promise of connectTCP
    reader,     \* reader[id]: the state of the ReadableStream
    rcvd,       \* rcvd[id]: the chunks enqueued in it
    sent,       \* sent[id]: chunks the caller wrote to the WritableStream
    writing,    \* writing[id]: the WritableStream is still open
    cstate,     \* connectionState
    queue,      \* messageQueue
    isClosed    \* isClosed

clientVars == <<nextId, home, pending, timer, call, reader, rcvd, sent,
                writing, cstate, queue, isClosed>>

CallState == {"none", "waiting", "connected", "failed"}
ReaderState == {"none", "open", "closed", "errored", "cancelled"}

ClientTypeOK ==
    /\ nextId \in 1 .. MaxCalls + 1
    /\ home \in [Ids -> 0 .. MaxSessions]
    /\ pending \subseteq Ids
    /\ Cardinality(pending) <= MaxPending
    /\ timer \subseteq Ids
    /\ call \in [Ids -> CallState]
    /\ reader \in [Ids -> ReaderState]
    /\ rcvd \in [Ids -> Seq(0 .. MaxChunks)]
    /\ sent \in [Ids -> 0 .. MaxChunks]
    /\ writing \in [Ids -> BOOLEAN]
    /\ cstate \in {"connected", "disconnected"}
    /\ queue \in Seq(Message)
    /\ Len(queue) <= MaxQueue
    /\ isClosed \in BOOLEAN

ClientInit ==
    /\ nextId = 1
    /\ home = [id \in Ids |-> 0]
    /\ pending = {}
    /\ timer = {}
    /\ call = [id \in Ids |-> "none"]
    /\ reader = [id \in Ids |-> "none"]
    /\ rcvd = [id \in Ids |-> <<>>]
    /\ sent = [id \in Ids |-> 0]
    /\ writing = [id \in Ids |-> FALSE]
    /\ cstate = "disconnected"
    /\ queue = <<>>
    /\ isClosed = FALSE

-----------------------------------------------------------------------------
(* Sending                                                                 *)

\* Mutation: the queue limit is not checked.
FirstOf_Unbounded(q, n) == q

FirstOf(q, n) == IF Len(q) <= n THEN q ELSE SubSeq(q, 1, n)

\* send(), for the messages ms in turn: dropped once close() ran, queued up to
\* the limit while the WebSocket is not open, otherwise handed to it, where it
\* is lost when the other end is already gone.
Send(ms) ==
    IF isClosed THEN UNCHANGED <<queue, up>>
    ELSE IF cws
         THEN /\ up' = [up EXCEPT ![sess] = IF sws[sess] THEN @ \o ms ELSE @]
              /\ UNCHANGED queue
         ELSE /\ queue' = FirstOf(queue \o ms, MaxQueue)
              /\ UNCHANGED up

-----------------------------------------------------------------------------
(* Calls                                                                   *)

\* connectTCP(): refused without an open WebSocket or when too many requests
\* are pending; otherwise a fresh id, the stream and its pending entry, the
\* timer and the request are made in one turn.
Connect ==
    /\ ~isClosed /\ cws
    /\ Cardinality(pending) < MaxPending
    /\ nextId <= MaxCalls
    /\ nextId' = nextId + 1
    /\ home' = [home EXCEPT ![nextId] = sess]
    /\ pending' = pending \cup {nextId}
    /\ timer' = timer \cup {nextId}
    /\ call' = [call EXCEPT ![nextId] = "waiting"]
    /\ reader' = [reader EXCEPT ![nextId] = "open"]
    /\ Send(<<Msg("TCP_CONNECT", nextId)>>)
    /\ UNCHANGED <<sess, cws, sws, down, rcvd, sent, writing, cstate, isClosed>>

\* The timer of request(): the entry is dropped, the server told to close, and
\* the caller sees the promise rejected.  The stream is left as it is.
RequestTimeout(id) ==
    /\ id \in timer
    /\ timer' = timer \ {id}
    /\ pending' = pending \ {id}
    /\ call' = [call EXCEPT ![id] = IF @ = "waiting" THEN "failed" ELSE @]
    /\ Send(<<Msg("TCP_CLOSE", id)>>)
    /\ UNCHANGED <<sess, cws, sws, down, nextId, home, reader, rcvd, sent, writing,
                   cstate, isClosed>>

\* Mutation: cancel drops the entry and does not tell the server.
Cancel_Silent(id) ==
    /\ call[id] = "connected"
    /\ reader[id] = "open"
    /\ reader' = [reader EXCEPT ![id] = "cancelled"]
    /\ pending' = pending \ {id}
    /\ UNCHANGED <<wireVars, nextId, home, timer, call, rcvd, sent, writing,
                   cstate, queue, isClosed>>

\* The caller cancels the ReadableStream.  A stream that was closed while
\* chunks were still queued in it can be cancelled too.
Cancel(id) ==
    /\ call[id] = "connected"
    /\ \/ reader[id] = "open"
       \/ reader[id] = "closed" /\ rcvd[id] # <<>>
    /\ reader' = [reader EXCEPT ![id] = "cancelled"]
    /\ pending' = pending \ {id}
    /\ Send(<<Msg("TCP_CLOSE", id)>>)
    /\ UNCHANGED <<sess, cws, sws, down, nextId, home, timer, call, rcvd, sent,
                   writing, cstate, isClosed>>

\* TCPStream.writable, write: it looks at nothing but the WritableStream.
Write(id) ==
    /\ writing[id]
    /\ sent[id] < MaxChunks
    /\ sent' = [sent EXCEPT ![id] = @ + 1]
    /\ Send(<<DataMsg(id, sent[id] + 1)>>)
    /\ UNCHANGED <<sess, cws, sws, down, nextId, home, pending, timer, call, reader,
                   rcvd, writing, cstate, isClosed>>

\* TCPStream.writable, close and abort.
CloseWriter(id) ==
    /\ writing[id]
    /\ writing' = [writing EXCEPT ![id] = FALSE]
    /\ Send(<<Msg("TCP_CLOSE", id)>>)
    /\ UNCHANGED <<sess, cws, sws, down, nextId, home, pending, timer, call, reader,
                   rcvd, sent, cstate, isClosed>>

\* The sequences that list the set ids in the order the entries were made.
Listing(ids) ==
    {l \in [1 .. Cardinality(ids) -> ids] :
        /\ \A k \in DOMAIN l : \A j \in DOMAIN l : j < k => l[j] < l[k]
        /\ \A id \in ids : \E k \in DOMAIN l : l[k] = id}

\* cleanupPendingRequests(): entries older than 120 s.  No entry that old has
\* its 30 s timer armed, and of two entries the one with the smaller id is the
\* older.  The promise is rejected, which changes nothing for a call that has
\* been settled; the stream is neither closed nor errored.
Reap ==
    \E oldest \in Ids :
        LET stale == {id \in pending : id <= oldest} IN
        /\ ~isClosed
        /\ stale # {}
        /\ stale \cap timer = {}
        /\ pending' = pending \ stale
        /\ call' = [id \in Ids |-> IF id \in stale /\ call[id] = "waiting"
                                   THEN "failed" ELSE call[id]]
        /\ \E l \in Listing(stale) :
               Send([k \in DOMAIN l |-> Msg("TCP_CLOSE", l[k])])
        /\ UNCHANGED <<sess, cws, sws, down, nextId, home, timer, reader, rcvd, sent,
                       writing, cstate, isClosed>>

-----------------------------------------------------------------------------
(* Messages from the server: onMessage, handleMessage, dispatch            *)

\* The head of the channel is m, and the listener takes it.
Take(m) ==
    /\ sess # 0 /\ cws
    /\ down[sess] # <<>>
    /\ m = Head(down[sess])
    /\ down' = [down EXCEPT ![sess] = Tail(@)]

\* No pending entry: data is answered with TCP_CLOSE, anything else, a late
\* TCP_CONNECT_ACK included, is at most logged.
NoHandler ==
    \E m \in Message :
        /\ Take(m)
        /\ m.id \notin pending
        /\ IF m.type = "TCP_DATA" THEN Send(<<Msg("TCP_CLOSE", m.id)>>)
                                  ELSE UNCHANGED <<queue, up>>
        /\ UNCHANGED <<sess, cws, sws, nextId, home, pending, timer, call, reader,
                       rcvd, sent, writing, cstate, isClosed>>

\* Mutation: resolve does not clear the timer.
ConnectAck_KeepsTimer ==
    \E m \in Message :
        /\ Take(m)
        /\ m.id \in pending
        /\ m.type = "TCP_CONNECT_ACK"
        /\ call' = [call EXCEPT ![m.id] = "connected"]
        /\ writing' = [writing EXCEPT ![m.id] = TRUE]
        /\ UNCHANGED <<sess, cws, sws, up, nextId, home, pending, timer, reader,
                       rcvd, sent, cstate, queue, isClosed>>

\* TCP_CONNECT_ACK: resolve clears the timer; the caller gets a TCPStream.
ConnectAck ==
    \E m \in Message :
        /\ Take(m)
        /\ m.id \in pending
        /\ m.type = "TCP_CONNECT_ACK"
        /\ timer' = timer \ {m.id}
        /\ IF call[m.id] = "waiting"
           THEN /\ call' = [call EXCEPT ![m.id] = "connected"]
                /\ writing' = [writing EXCEPT ![m.id] = TRUE]
           ELSE UNCHANGED <<call, writing>>
        /\ UNCHANGED <<sess, cws, sws, up, nextId, home, pending, reader, rcvd, sent,
                       cstate, queue, isClosed>>

\* TCP_DATA: enqueue throws when the stream is not readable any more.
StreamData ==
    \E m \in Message :
        /\ Take(m)
        /\ m.id \in pending
        /\ m.type = "TCP_DATA"
        /\ IF reader[m.id] = "open"
           THEN /\ rcvd' = [rcvd EXCEPT ![m.id] = Append(@, m.chunk)]
                /\ UNCHANGED <<queue, up, pending>>
           ELSE /\ pending' = pending \ {m.id}
                /\ Send(<<Msg("TCP_CLOSE", m.id)>>)
                /\ UNCHANGED rcvd
        /\ UNCHANGED <<sess, cws, sws, nextId, home, timer, call, reader, sent,
                       writing, cstate, isClosed>>

\* TCP_CLOSE: the stream ends, the entry goes; a call still waiting is neither
\* resolved nor rejected.
StreamClose ==
    \E m \in Message :
        /\ Take(m)
        /\ m.id \in pending
        /\ m.type = "TCP_CLOSE"
        /\ reader' = [reader EXCEPT ![m.id] = IF @ = "open" THEN "closed" ELSE @]
        /\ pending' = pending \ {m.id}
        /\ UNCHANGED <<sess, cws, sws, up, nextId, home, timer, call, rcvd, sent,
                       writing, cstate, queue, isClosed>>

\* ERROR: the stream fails, the promise is rejected, the entry goes.
StreamError ==
    \E m \in Message :
        /\ Take(m)
        /\ m.id \in pending
        /\ m.type = "ERROR"
        /\ reader' = [reader EXCEPT ![m.id] = IF @ = "open" THEN "errored" ELSE @]
        /\ timer' = timer \ {m.id}
        /\ call' = [call EXCEPT ![m.id] = IF @ = "waiting" THEN "failed" ELSE @]
        /\ pending' = pending \ {m.id}
        /\ UNCHANGED <<sess, cws, sws, up, nextId, home, rcvd, sent, writing, cstate,
                       queue, isClosed>>

-----------------------------------------------------------------------------
(* The life of the WebSocket                                               *)

\* Mutation: the map is not cleared.
RejectPending_KeepsEntries ==
    /\ call' = [id \in Ids |-> IF id \in pending /\ call[id] = "waiting"
                               THEN "failed" ELSE call[id]]
    /\ timer' = timer \ pending
    /\ UNCHANGED pending

\* Mutation: timers and entries go, the promises are forgotten.
RejectPending_Forgets ==
    /\ timer' = timer \ pending
    /\ pending' = {}
    /\ UNCHANGED call

\* Every pending promise is rejected, which clears its timer.
RejectPending ==
    /\ call' = [id \in Ids |-> IF id \in pending /\ call[id] = "waiting"
                               THEN "failed" ELSE call[id]]
    /\ timer' = timer \ pending
    /\ pending' = {}

\* Mutation: streams are closed where they should be errored.
HandleDisconnect_EndsCleanly ==
    IF cstate = "disconnected"
    THEN UNCHANGED <<cstate, queue, reader, call, timer, pending>>
    ELSE /\ cstate' = "disconnected"
         /\ queue' = <<>>
         /\ reader' = [id \in Ids |-> IF id \in pending /\ reader[id] = "open"
                                      THEN "closed" ELSE reader[id]]
         /\ RejectPending

\* handleDisconnect(): nothing at all the second time.
HandleDisconnect ==
    IF cstate = "disconnected"
    THEN UNCHANGED <<cstate, queue, reader, call, timer, pending>>
    ELSE /\ cstate' = "disconnected"
         /\ queue' = <<>>
         /\ reader' = [id \in Ids |-> IF id \in pending /\ reader[id] = "open"
                                      THEN "errored" ELSE reader[id]]
         /\ RejectPending

\* onError and onClose: the WebSocket is closed and what it had not delivered
\* is lost.
ClientLinkClosed ==
    /\ cws
    /\ cws' = FALSE
    /\ down' = [down EXCEPT ![sess] = <<>>]
    /\ HandleDisconnect
    /\ UNCHANGED <<sess, sws, up, nextId, home, rcvd, sent, writing, isClosed>>

\* The timer of resetHeartbeatTimeout(): the state is cleaned up and the
\* WebSocket stays open, with its listeners.
HeartbeatTimeout ==
    /\ cws
    /\ cstate = "connected"
    /\ HandleDisconnect
    /\ UNCHANGED <<sess, cws, sws, up, down, nextId, home, rcvd, sent, writing, isClosed>>

\* flushQueue(): everything queued goes out on the new WebSocket, in order.
FlushQueue(s) ==
    /\ up' = [up EXCEPT ![s] = queue]
    /\ queue' = <<>>

\* assign() with the WebSocket of session sess + 1, which main.ts opens once
\* the previous one has closed.
Assign ==
    /\ ~cws /\ ~isClosed
    /\ sess < MaxSessions
    /\ sess' = sess + 1
    /\ cws' = TRUE
    /\ cstate' = "connected"
    /\ FlushQueue(sess + 1)
    /\ UNCHANGED <<down, nextId, home, pending, timer, call, reader, rcvd, sent,
                   writing, isClosed>>

\* close(): promises are rejected, streams are left as they are, listeners are
\* removed.  main.ts calls it when the process ends; assign() does not follow.
CloseClient ==
    /\ ~isClosed
    /\ isClosed' = TRUE
    /\ cstate' = "disconnected"
    /\ queue' = <<>>
    /\ RejectPending
    /\ cws' = FALSE
    /\ down' = IF sess = 0 THEN down ELSE [down EXCEPT ![sess] = <<>>]
    /\ UNCHANGED <<sess, sws, up, nextId, home, reader, rcvd, sent, writing>>

\* What the client does alone; Assign is joined with the server's side of it.
ClientNext ==
    \/ Connect
    \/ \E id \in Ids : RequestTimeout(id) \/ Cancel(id) \/ Write(id) \/ CloseWriter(id)
    \/ Reap
    \/ NoHandler \/ ConnectAck \/ StreamData \/ StreamClose \/ StreamError
    \/ ClientLinkClosed \/ HeartbeatTimeout \/ CloseClient
=============================================================================
