--------------------------- MODULE RequestMessages ---------------------------
(***************************************************************************)
(* The messages of core/protocol.ts that carry DNS, HTTP and UDP.          *)
(***************************************************************************)
EXTENDS Wire

RequestType ==
    {"DNS_QUERY", "DNS_RESPONSE", "HTTP_REQUEST", "HTTP_RESPONSE",
     "HTTP_BODY_CHUNK", "HTTP_BODY_END", "UDP_BIND", "UDP_BIND_ACK", "UDP_DATA",
     "UDP_CLOSE", "ERROR"}

\* `chunk` is the position of a chunk in its body, or of a datagram.  In
\* HTTP_REQUEST it says whether the headers announce a body, in HTTP_RESPONSE
\* whether there is one.
RequestMessage == [type : RequestType, id : Ids, chunk : 0 .. MaxChunks + 1]

Chunk(t, id, n) == [type |-> t, id |-> id, chunk |-> n]
Flag(b) == IF b THEN 1 ELSE 0

\* The message a channel delivers next, if there is one.
NextIn(ch) == IF ch = <<>> THEN {} ELSE {Head(ch)}

\* The messages of type t about id that are in the channel ch.
Copies(ch, t, id) == {k \in DOMAIN ch : ch[k].type = t /\ ch[k].id = id}
=============================================================================
