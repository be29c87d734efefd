------------------------------ MODULE TCPProxy ------------------------------
(***************************************************************************)
(* The server's end of the tunnel: TCPProxy of core/protocol/tcp.ts, with  *)
(* the dispatch of TCP messages by the transport that owns it.             *)
(*                                                                         *)
(* Deno.connect, conn.read and conn.write are the outside world: a target  *)
(* accepts or refuses, produces chunks, ends or fails when it likes.  Each *)
(* await is a point where other handlers run, so connecting, and reading a *)
(* chunk and sending it on, are separate steps.                            *)
(***************************************************************************)
EXTENDS Transport

VARIABLES
    conns,      \* conns[s]: keys of the connections map
    task,       \* task[s][id]: how far handleConnect and pipeToWebSocket got
    produced,   \* produced[s][id]: chunks read from the target
    written     \* written[s][id]: chunks written to the target

proxyVars == <<tstate, conns, task, produced, written>>

(***************************************************************************)
(*  none        no TCP_CONNECT has arrived                                 *)
(*  connecting  handleConnect awaits the race of Deno.connect and timer    *)
(*  reading     pipeToWebSocket awaits conn.read                           *)
(*  holding     the read resolved with a chunk, the loop has not resumed   *)
(*  ended       the pipe is over and its own close() closed the connection *)
(*  cut         the pipe is over, the connection had been closed under it  *)
(*  refused     the connect failed                                         *)
(*  abandoned   the timer won the race, Deno.connect is still pending      *)
(*  leaked      Deno.connect resolved after that; nobody holds the socket  *)
(***************************************************************************)
TaskState == {"none", "connecting", "reading", "holding", "ended", "cut",
              "refused", "abandoned", "leaked"}

ProxyTypeOK ==
    /\ tstate \in [Sessions -> TransportState]
    /\ conns \in [Sessions -> SUBSET Ids]
    /\ task \in [Sessions -> [Ids -> TaskState]]
    /\ produced \in [Sessions -> [Ids -> 0 .. MaxChunks]]
    /\ written \in [Sessions -> [Ids -> Seq(0 .. MaxChunks)]]

ProxyInit ==
    /\ tstate = [s \in Sessions |-> "none"]
    /\ conns = [s \in Sessions |-> {}]
    /\ task = [s \in Sessions |-> [id \in Ids |-> "none"]]
    /\ produced = [s \in Sessions |-> [id \in Ids |-> 0]]
    /\ written = [s \in Sessions |-> [id \in Ids |-> <<>>]]

-----------------------------------------------------------------------------

\* Mutation: the connection is closed and the client is not told.
Close_Silent(s, id) ==
    /\ conns' = [conns EXCEPT ![s] = @ \ {id}]
    /\ UNCHANGED down

\* close(): only a registered connection is closed, and that is announced.
Close(s, id) ==
    IF id \in conns[s]
    THEN /\ conns' = [conns EXCEPT ![s] = @ \ {id}]
         /\ Reply(s, Msg("TCP_CLOSE", id))
    ELSE UNCHANGED <<conns, down>>

SetTask(s, id, state) == task' = [task EXCEPT ![s][id] = state]

-----------------------------------------------------------------------------
(* Messages from the client: dispatch                                      *)

\* handleConnect up to its first await.
HandleConnect(s) ==
    \E m \in Message :
        /\ Receive(s, m)
        /\ m.type = "TCP_CONNECT"
        /\ SetTask(s, m.id, "connecting")
        /\ UNCHANGED <<sess, cws, sws, down, tstate, conns, produced, written>>

\* handleData: data for an unknown connection is dropped.
HandleData(s) ==
    \E m \in Message :
        /\ Receive(s, m)
        /\ m.type = "TCP_DATA"
        /\ written' = IF m.id \in conns[s]
                      THEN [written EXCEPT ![s][m.id] = Append(@, m.chunk)]
                      ELSE written
        /\ UNCHANGED <<sess, cws, sws, down, tstate, conns, task, produced>>

HandleClose(s) ==
    \E m \in Message :
        /\ Receive(s, m)
        /\ m.type = "TCP_CLOSE"
        /\ Close(s, m.id)
        /\ UNCHANGED <<sess, cws, sws, tstate, task, produced, written>>

-----------------------------------------------------------------------------
(* handleConnect after its await                                           *)

\* Deno.connect won the race.  Nothing asks whether the client still wants the
\* connection or the transport is still there.
ConnectOk(s, id) ==
    /\ task[s][id] = "connecting"
    /\ SetTask(s, id, "reading")
    /\ conns' = [conns EXCEPT ![s] = @ \cup {id}]
    /\ Reply(s, Msg("TCP_CONNECT_ACK", id))
    /\ UNCHANGED <<sess, cws, sws, up, tstate, produced, written>>

\* Mutation: a failed connect is not reported.
ConnectFail_Silent(s, id) ==
    /\ task[s][id] = "connecting"
    /\ SetTask(s, id, "refused")
    /\ UNCHANGED <<wireVars, tstate, conns, produced, written>>

\* Deno.connect failed.
ConnectFail(s, id) ==
    /\ task[s][id] = "connecting"
    /\ SetTask(s, id, "refused")
    /\ Reply(s, Msg("ERROR", id))
    /\ UNCHANGED <<sess, cws, sws, up, tstate, conns, produced, written>>

\* CONNECT_TIMEOUT won the race; the connect goes on unobserved.
ConnectTimeout(s, id) ==
    /\ task[s][id] = "connecting"
    /\ SetTask(s, id, "abandoned")
    /\ Reply(s, Msg("ERROR", id))
    /\ UNCHANGED <<sess, cws, sws, up, tstate, conns, produced, written>>

\* The abandoned connect is over at last.
LateConnect(s, id) ==
    /\ task[s][id] = "abandoned"
    /\ \E state \in {"leaked", "refused"} : SetTask(s, id, state)
    /\ UNCHANGED <<sess, cws, sws, up, down, tstate, conns, produced, written>>

-----------------------------------------------------------------------------
(* pipeToWebSocket                                                         *)

\* Mutation: the loop reads on before it has sent what it holds.
ReadChunk_Ahead(s, id) ==
    /\ task[s][id] \in {"reading", "holding"}
    /\ id \in conns[s]
    /\ produced[s][id] < MaxChunks
    /\ produced' = [produced EXCEPT ![s][id] = @ + 1]
    /\ SetTask(s, id, "holding")
    /\ UNCHANGED <<wireVars, tstate, conns, written>>

\* conn.read resolves with data; a closed connection has none.
ReadChunk(s, id) ==
    /\ task[s][id] = "reading"
    /\ id \in conns[s]
    /\ produced[s][id] < MaxChunks
    /\ produced' = [produced EXCEPT ![s][id] = @ + 1]
    /\ SetTask(s, id, "holding")
    /\ UNCHANGED <<sess, cws, sws, up, down, tstate, conns, written>>

\* The loop resumes and sends the chunk, whether or not close() ran meanwhile.
SendChunk(s, id) ==
    /\ task[s][id] = "holding"
    /\ SetTask(s, id, "reading")
    /\ Reply(s, DataMsg(id, produced[s][id]))
    /\ UNCHANGED <<sess, cws, sws, up, tstate, conns, produced, written>>

\* Mutation: the end of the data overtakes the last chunk.
PipeEnd_Early(s, id) ==
    /\ task[s][id] \in {"reading", "holding"}
    /\ SetTask(s, id, IF id \in conns[s] THEN "ended" ELSE "cut")
    /\ Close(s, id)
    /\ UNCHANGED <<sess, cws, sws, up, tstate, produced, written>>

\* The loop ends, by the end of the data, a failed read or because the
\* connection is gone; `finally` closes.
PipeEnd(s, id) ==
    /\ task[s][id] = "reading"
    /\ SetTask(s, id, IF id \in conns[s] THEN "ended" ELSE "cut")
    /\ Close(s, id)
    /\ UNCHANGED <<sess, cws, sws, up, tstate, produced, written>>

\* A pending conn.write is rejected.
WriteFails(s, id) ==
    /\ id \in conns[s]
    /\ written[s][id] # <<>>
    /\ Close(s, id)
    /\ UNCHANGED <<sess, cws, sws, up, tstate, task, produced, written>>

-----------------------------------------------------------------------------
(* The end of the transport                                                *)

\* The WebSocket is lost: the connections stay open for the reconnect time.
ServerLinkClosed(s) == LinkLost(s) /\ UNCHANGED <<conns, task, produced, written>>

ServerHeartbeatTimeout(s) ==
    HeartbeatLost(s) /\ UNCHANGED <<conns, task, produced, written>>

\* close() closes all connections; the transport drops what that sends.
CloseTransport(s) ==
    /\ EndTransport(s)
    /\ conns' = [conns EXCEPT ![s] = {}]
    /\ UNCHANGED <<task, produced, written>>

\* Mutation: the new session takes over the connections of the previous one.
Accept_Resumes(s) ==
    /\ AssignSocket(s)
    /\ conns' = [conns EXCEPT ![s] = IF s = 1 THEN {} ELSE conns[s - 1]]
    /\ UNCHANGED <<task, produced, written>>

\* The server's side of a new session.
Accept(s) == AssignSocket(s) /\ UNCHANGED <<conns, task, produced, written>>

ConnectDone(s, id) == ConnectOk(s, id) \/ ConnectFail(s, id) \/ ConnectTimeout(s, id)

ProxyNext ==
    \E s \in Sessions :
        \/ HandleConnect(s) \/ HandleData(s) \/ HandleClose(s)
        \/ ServerLinkClosed(s) \/ ServerHeartbeatTimeout(s) \/ CloseTransport(s)
        \/ \E id \in Ids :
              \/ ConnectDone(s, id) \/ LateConnect(s, id)
              \/ ReadChunk(s, id) \/ SendChunk(s, id) \/ PipeEnd(s, id)
              \/ WriteFails(s, id)
=============================================================================
