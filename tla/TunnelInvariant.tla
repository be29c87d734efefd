-------------------------- MODULE TunnelInvariant --------------------------
(***************************************************************************)
(* The inductive invariants behind the properties of Tunnel.               *)
(***************************************************************************)
EXTENDS Tunnel

-----------------------------------------------------------------------------
(* A call lives in one session                                             *)

\* Ids not handed out yet have left no trace.
FreshIds ==
    \A id \in Ids :
        /\ id >= nextId => home[id] = 0
        /\ id \in pending => home[id] # 0
        /\ home[id] = 0 => rcvd[id] = <<>>
        /\ home[id] <= sess

\* A request is on its way at most once, in the session of its call, and before
\* the server has heard of it; it is never queued.
RequestsAreFresh ==
    /\ \A k \in DOMAIN queue : queue[k].type # "TCP_CONNECT"
    /\ \A s \in Sessions : \A k \in DOMAIN up[s] :
          up[s][k].type = "TCP_CONNECT" =>
              /\ home[up[s][k].id] = s
              /\ task[s][up[s][k].id] = "none"
              /\ \A j \in DOMAIN up[s] :
                    up[s][j].type = "TCP_CONNECT" /\ up[s][j].id = up[s][k].id => j = k

\* The server works for a call in the session of the call only.
WorkIsAtHome ==
    \A s \in Sessions, id \in Ids :
        /\ task[s][id] # "none" => home[id] = s
        /\ task[s][id] = "none" => produced[s][id] = 0 /\ id \notin conns[s]
        /\ task[s][id] = "holding" => produced[s][id] # 0

\* So what the server says about a call, it says in that session.
RepliesAreAtHome ==
    \A s \in Sessions : \A k \in DOMAIN down[s] : home[down[s][k].id] = s

HomeInv == FreshIds /\ RequestsAreFresh /\ WorkIsAtHome /\ RepliesAreAtHome

-----------------------------------------------------------------------------
(* Chunks in flight                                                        *)

IsChunk(m, id) == m.type = "TCP_DATA" /\ m.id = id

\* The channel ch carries chunks of id between got and top, in order, and none
\* without those before it.
InFlight(ch, id, got, top) ==
    \A k \in DOMAIN ch : IsChunk(ch[k], id) =>
        /\ got < ch[k].chunk
        /\ ch[k].chunk <= top
        /\ \A j \in DOMAIN ch : IsChunk(ch[j], id) /\ j < k => ch[j].chunk < ch[k].chunk
        /\ \A v \in got + 1 .. ch[k].chunk - 1 :
              \E j \in DOMAIN ch : IsChunk(ch[j], id) /\ ch[j].chunk = v

\* Nothing up to top is missing: all has been got, or the last is in flight.
Reaches(ch, id, got, top) ==
    got = top \/ \E k \in DOMAIN ch : IsChunk(ch[k], id) /\ ch[k].chunk = top

\* A reader that has been given r, by the channel ch, of the first top chunks:
\* r is a prefix of them; while the entry is pending what is in flight continues
\* r, and nothing is missing while the channel is whole.
Delivery(r, ch, id, top, isPending, isWhole) ==
    /\ \A k \in DOMAIN r : r[k] = k
    /\ Len(r) <= top
    /\ isPending =>
          /\ InFlight(ch, id, Len(r), top)
          /\ isWhole => Reaches(ch, id, Len(r), top)

\* Chunks of id the transport of session s has sent.
SentUp(s, id) ==
    IF task[s][id] = "holding" THEN produced[s][id] - 1 ELSE produced[s][id]

\* What the transport of session s sends gets on its way.
Whole(s) == LinkUp(s) /\ tstate[s] # "closed"

DeliveryOf(id) ==
    Delivery(rcvd[id], down[home[id]], id, SentUp(home[id], id),
             id \in pending, Whole(home[id]))

ChunksInv == \A id \in Ids : home[id] # 0 => DeliveryOf(id)

-----------------------------------------------------------------------------
(* What each end has to hear                                               *)

\* An end of a link that can still be used belongs to someone who uses it.
OpenEnds ==
    /\ \A s \in Sessions : sws[s] => tstate[s] \in {"connected", "disconnected"}
    /\ cws => ~isClosed
    /\ cstate = "connected" => cws

\* A connect that succeeded, one that did not.
Succeeded == {"reading", "holding", "ended", "cut"}
Rejected == {"refused", "abandoned", "leaked"}

\* The news of a call agree with how far the server got with it.
NewsAreTrue ==
    \A s \in Sessions, id \in Ids :
        /\ Carries(down[s], "TCP_CONNECT_ACK", id) => task[s][id] \in Succeeded
        /\ Carries(down[s], "TCP_CLOSE", id) => task[s][id] \in Succeeded /\ id \notin conns[s]
        /\ Carries(down[s], "ERROR", id) => task[s][id] \in Rejected
        /\ id \in conns[s] => task[s][id] \in {"reading", "holding"}

\* So does what the caller believes.
CallersAreRight ==
    \A id \in Ids :
        call[id] = "connected" => home[id] # 0 /\ task[home[id]][id] \in Succeeded

\* The end of a connection is announced to a caller who knows of it, or will.
AckedIsAnnounced ==
    \A id \in pending :
        /\ Live(id)
        /\ call[id] = "connected" \/ Carries(down[sess], "TCP_CONNECT_ACK", id)
        /\ id \notin conns[sess]
        => Carries(down[sess], "TCP_CLOSE", id)

NewsInv ==
    /\ OpenEnds /\ NewsAreTrue /\ CallersAreRight
    /\ WaitingIsServed /\ AckedIsAnnounced /\ ReleaseIsAnnounced

-----------------------------------------------------------------------------
(* Clean ends                                                              *)

\* No chunk of id comes after its TCP_CLOSE.
ChunksFirst(ch, id) ==
    \A k, j \in DOMAIN ch :
        ch[k].type = "TCP_CLOSE" /\ ch[k].id = id /\ IsChunk(ch[j], id) => j < k

\* The TCP_CLOSE of a connection whose target has ended comes after all chunks,
\* and none is missing before it.
CloseComesLast ==
    \A s \in Sessions, id \in Ids :
        task[s][id] = "ended" =>
            /\ ChunksFirst(down[s], id)
            /\ id \in pending /\ Carries(down[s], "TCP_CLOSE", id) =>
                  Reaches(down[s], id, Len(rcvd[id]), produced[s][id])

EndsInv ==
    /\ CloseComesLast /\ CleanEndIsComplete
    /\ \A id \in Ids : reader[id] = "closed" => home[id] # 0

-----------------------------------------------------------------------------
(* Uploads                                                                 *)

\* Nothing is written for a call before its caller has a stream.
NothingBeforeTheStream ==
    /\ \A id \in Ids : call[id] # "connected" => ~writing[id] /\ sent[id] = 0
    /\ \A s \in Sessions : \A k \in DOMAIN up[s] :
          up[s][k].type = "TCP_DATA" => sent[up[s][k].id] # 0
    /\ \A k \in DOMAIN queue : queue[k].type = "TCP_DATA" => sent[queue[k].id] # 0

\* Only the transport of the call's session writes to its target.
WritesAreAtHome ==
    \A s \in Sessions, id \in Ids : written[s][id] # <<>> => home[id] = s

\* The target is the reader of an upload, its connection the entry.
UploadOf(id) ==
    Delivery(written[home[id]][id], up[home[id]], id, sent[id],
             id \in conns[home[id]], LinkUp(home[id]))

UploadsInv ==
    /\ NothingBeforeTheStream /\ WritesAreAtHome
    /\ \A id \in Ids : home[id] # 0 => UploadOf(id)

-----------------------------------------------------------------------------
(* What the refinement of Streams needs besides                            *)

\* No chunk of id comes before the ACK of its connection.
AckFirst(ch, id) ==
    \A k \in DOMAIN ch : IsChunk(ch[k], id) =>
        \E j \in DOMAIN ch :
            j < k /\ ch[j].type = "TCP_CONNECT_ACK" /\ ch[j].id = id

\* A caller knows of its stream before it is given data.
AckComesFirst ==
    \A id \in pending : call[id] = "waiting" => AckFirst(down[home[id]], id)

\* A call that was made has a session and a stream, and no entry once it failed.
CallsHaveStreams ==
    \A id \in Ids :
        /\ call[id] = "none" <=> home[id] = 0
        /\ call[id] # "none" => reader[id] # "none"
        /\ call[id] = "failed" => id \notin pending

StreamsInv == AckComesFirst /\ CallsHaveStreams
=============================================================================
