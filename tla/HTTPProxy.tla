------------------------------ MODULE HTTPProxy ------------------------------
(***************************************************************************)
(* core/protocol/http-proxy.ts.  handleRequest awaits fetch and then reads *)
(* the response body chunk by chunk; meanwhile the chunks of the request   *)
(* body arrive as messages of their own.                                   *)
(***************************************************************************)
EXTENDS Transport, RequestMessages

VARIABLES
    requests,   \* requests[s]: keys of `requests`, the AbortControllers
    aborted,    \* aborted[s]: ids whose AbortController was aborted by abort()
    bodies,     \* bodies[s]: keys of bodyControllers
    stage,      \* stage[s][id]: how far handleRequest and sendResponse got
    produced,   \* produced[s][id]: chunks read from the response of the target
    uploaded,   \* uploaded[s][id]: chunks enqueued in the request body
    finished    \* finished[s]: ids whose request body was closed

httpVars == <<requests, aborted, bodies, stage, produced, uploaded, finished>>

(***************************************************************************)
(*  fetching    awaits fetch                                               *)
(*  streaming   awaits reader.read()                                       *)
(*  done        the response is over and has been ended                    *)
(*  cut         it exceeded MAX_RESPONSE_SIZE, and has been ended the same *)
(*  failed      fetch or the response failed, reported as ERROR            *)
(***************************************************************************)
Stage == {"none", "fetching", "streaming", "done", "cut", "failed"}

HttpTypeOK ==
    /\ requests \in [Sessions -> SUBSET Ids]
    /\ aborted \in [Sessions -> SUBSET Ids]
    /\ bodies \in [Sessions -> SUBSET Ids]
    /\ stage \in [Sessions -> [Ids -> Stage]]
    /\ produced \in [Sessions -> [Ids -> 0 .. MaxChunks]]
    /\ uploaded \in [Sessions -> [Ids -> Seq(1 .. MaxChunks)]]
    /\ finished \in [Sessions -> SUBSET Ids]

HttpInit ==
    /\ requests = [s \in Sessions |-> {}]
    /\ aborted = [s \in Sessions |-> {}]
    /\ bodies = [s \in Sessions |-> {}]
    /\ stage = [s \in Sessions |-> [id \in Ids |-> "none"]]
    /\ produced = [s \in Sessions |-> [id \in Ids |-> 0]]
    /\ uploaded = [s \in Sessions |-> [id \in Ids |-> <<>>]]
    /\ finished = [s \in Sessions |-> {}]

SetStage(s, id, to) == stage' = [stage EXCEPT ![s][id] = to]

-----------------------------------------------------------------------------
(* Messages                                                                *)

\* handleRequest up to its await; a request body stream is made when the
\* headers announce a body.  An invalid URL or method is an error at once.
HandleRequest(s, m) ==
    /\ m.type = "HTTP_REQUEST"
    /\ \/ /\ requests' = [requests EXCEPT ![s] = @ \cup {m.id}]
          /\ bodies' = [bodies EXCEPT ![s] = IF m.chunk = 1 THEN @ \cup {m.id} ELSE @]
          /\ SetStage(s, m.id, "fetching")
          /\ UNCHANGED down
       \/ /\ SetStage(s, m.id, "failed")
          /\ Reply(s, Msg("ERROR", m.id))
          /\ UNCHANGED <<requests, bodies>>
    /\ UNCHANGED <<aborted, produced, uploaded, finished>>

\* Mutation: nothing asks for a body.
HandleBodyChunk_Unchecked(s, m) ==
    /\ m.type = "HTTP_BODY_CHUNK"
    /\ uploaded' = [uploaded EXCEPT ![s][m.id] = Append(@, m.chunk)]
    /\ UNCHANGED <<requests, aborted, bodies, stage, produced, finished, down>>

\* handleBodyChunk: dropped when there is no body to put it in.
HandleBodyChunk(s, m) ==
    /\ m.type = "HTTP_BODY_CHUNK"
    /\ uploaded' = IF m.id \in bodies[s]
                   THEN [uploaded EXCEPT ![s][m.id] = Append(@, m.chunk)]
                   ELSE uploaded
    /\ UNCHANGED <<requests, aborted, bodies, stage, produced, finished, down>>

\* handleBodyEnd.
HandleBodyEnd(s, m) ==
    /\ m.type = "HTTP_BODY_END"
    /\ finished' = [finished EXCEPT ![s] = @ \cup ({m.id} \cap bodies[s])]
    /\ bodies' = [bodies EXCEPT ![s] = @ \ {m.id}]
    /\ UNCHANGED <<requests, aborted, stage, produced, uploaded, down>>

\* The target, or fetch on its behalf, cancels the request body.
BodyCancelled(s, id) ==
    /\ id \in bodies[s]
    /\ bodies' = [bodies EXCEPT ![s] = @ \ {id}]
    /\ UNCHANGED <<wireVars, tstate, requests, aborted, stage, produced, uploaded, finished>>

HttpReceive(s, m) == HandleRequest(s, m) \/ HandleBodyChunk(s, m) \/ HandleBodyEnd(s, m)

-----------------------------------------------------------------------------
(* handleRequest after its await, and sendResponse                         *)

\* Mutation: the body keeps its entry.
CleanupRequest_Partly(s, id) ==
    /\ requests' = [requests EXCEPT ![s] = @ \ {id}]
    /\ UNCHANGED bodies

\* cleanupRequest.
CleanupRequest(s, id) ==
    /\ requests' = [requests EXCEPT ![s] = @ \ {id}]
    /\ bodies' = [bodies EXCEPT ![s] = @ \ {id}]

\* fetch fails: by itself, by FETCH_TIMEOUT, or because it was aborted.
FetchFails(s, id) ==
    /\ stage[s][id] = "fetching"
    /\ SetStage(s, id, "failed")
    /\ CleanupRequest(s, id)
    /\ Reply(s, Msg("ERROR", id))
    /\ UNCHANGED <<sess, cws, sws, up, tstate, aborted, produced, uploaded, finished>>

\* fetch resolves with a response that has a body.
Responds(s, id) ==
    /\ stage[s][id] = "fetching" /\ id \notin aborted[s]
    /\ SetStage(s, id, "streaming")
    /\ Reply(s, Chunk("HTTP_RESPONSE", id, 1))
    /\ UNCHANGED <<sess, cws, sws, up, tstate, requests, aborted, bodies, produced,
                   uploaded, finished>>

\* fetch resolves with a response that has none.
RespondsWithoutBody(s, id) ==
    /\ stage[s][id] = "fetching" /\ id \notin aborted[s]
    /\ SetStage(s, id, "done")
    /\ CleanupRequest(s, id)
    /\ ReplyTwice(s, Chunk("HTTP_RESPONSE", id, 0), Msg("HTTP_BODY_END", id))
    /\ UNCHANGED <<sess, cws, sws, up, tstate, aborted, produced, uploaded, finished>>

\* A chunk of the response is read and sent on.
ReadBody(s, id) ==
    /\ stage[s][id] = "streaming" /\ id \notin aborted[s]
    /\ produced[s][id] < MaxChunks
    /\ produced' = [produced EXCEPT ![s][id] = @ + 1]
    /\ Reply(s, Chunk("HTTP_BODY_CHUNK", id, produced[s][id] + 1))
    /\ UNCHANGED <<sess, cws, sws, up, tstate, requests, aborted, bodies, stage,
                   uploaded, finished>>

\* The response has ended.
BodyDone(s, id) ==
    /\ stage[s][id] = "streaming" /\ id \notin aborted[s]
    /\ SetStage(s, id, "done")
    /\ CleanupRequest(s, id)
    /\ Reply(s, Msg("HTTP_BODY_END", id))
    /\ UNCHANGED <<sess, cws, sws, up, tstate, aborted, produced, uploaded, finished>>

\* A chunk that exceeds MAX_RESPONSE_SIZE is dropped; what follows is what
\* follows the end of a response.
CutOff(s, id) ==
    /\ stage[s][id] = "streaming" /\ id \notin aborted[s]
    /\ SetStage(s, id, "cut")
    /\ CleanupRequest(s, id)
    /\ Reply(s, Msg("HTTP_BODY_END", id))
    /\ UNCHANGED <<sess, cws, sws, up, tstate, aborted, produced, uploaded, finished>>

\* Reading the response fails, by itself or because it was aborted.
ReadFails(s, id) ==
    /\ stage[s][id] = "streaming"
    /\ SetStage(s, id, "failed")
    /\ CleanupRequest(s, id)
    /\ Reply(s, Msg("ERROR", id))
    /\ UNCHANGED <<sess, cws, sws, up, tstate, aborted, produced, uploaded, finished>>

\* Mutation: the requests are forgotten and not aborted.
AbortAll_Forgets(s) ==
    /\ requests' = [requests EXCEPT ![s] = {}]
    /\ bodies' = [bodies EXCEPT ![s] = {}]
    /\ UNCHANGED <<aborted, stage, produced, uploaded, finished>>

\* abortAll: each request is aborted and forgotten together with its body.
AbortAll(s) ==
    /\ aborted' = [aborted EXCEPT ![s] = @ \cup requests[s]]
    /\ requests' = [requests EXCEPT ![s] = {}]
    /\ bodies' = [bodies EXCEPT ![s] = IF requests[s] = {} THEN @ ELSE {}]
    /\ UNCHANGED <<stage, produced, uploaded, finished>>

FetchEnds(s, id) == FetchFails(s, id) \/ Responds(s, id) \/ RespondsWithoutBody(s, id)
AbortTakesEffect(s, id) == id \in aborted[s] /\ (FetchFails(s, id) \/ ReadFails(s, id))

HttpStep(s, id) ==
    \/ FetchEnds(s, id) \/ ReadBody(s, id) \/ BodyDone(s, id) \/ CutOff(s, id)
    \/ ReadFails(s, id) \/ BodyCancelled(s, id)
=============================================================================
