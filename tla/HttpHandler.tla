----------------------------- MODULE HttpHandler -----------------------------
(***************************************************************************)
(* HTTPProxyHandler of client/http.ts: one connection carries requests one *)
(* after the other (keep-alive), or one CONNECT or WebSocket upgrade, after *)
(* which it is a tunnel.  handleLocalRequest is never reached: the parser  *)
(* marks every request as one for the proxy.  What reads the connection is *)
(* the handler, a pipe, and a loop that feeds a body; the bytes are not    *)
(* here, so which of them gets a byte is not either.                       *)
(***************************************************************************)
EXTENDS LocalServer

VARIABLES
    keep,       \* keep[c]: keepAlive of the request
    feeding     \* connections with a loop that feeds a request body

httpVars == <<keep, feeding>>

HttpTypeOK ==
    /\ keep \in [Conns -> BOOLEAN]
    /\ feeding \subseteq Conns

HttpInit ==
    /\ keep = [c \in Conns |-> FALSE]
    /\ feeding = {}

\* handle(): the first bytes are those of a method.
HttpStarts(c) ==
    /\ at[c] = "peeking"
    /\ Hears(c)
    /\ Goes(c, "reading")
    /\ UNCHANGED <<running, pending, connections, conn, peer, proto, via, remote, up, down, told,
                   httpVars>>

Asks(c, what) ==
    /\ at[c] = "reading"
    /\ Hears(c)
    /\ Goes(c, "deciding")
    /\ proto' = [proto EXCEPT ![c] = what]
    /\ Tells(c, "nothing")
    /\ UNCHANGED <<running, pending, connections, conn, peer, via, remote, up, down>>

\* The parser may have seen some of a body already: then a loop feeds it the rest,
\* alongside the handler.  Several loops of one connection count as one.
MayFeed(c) == feeding' \in {feeding, feeding \cup {c}}

\* A request.  One with a body is never kept alive.  The parser goes on into what
\* follows a request in the same chunk, so that the body a loop feeds may also be
\* that of the next request, which is itself lost.  Of a body that comes later than
\* its headers nothing is ever read.
PlainRequest(c) ==
    /\ Asks(c, "http")
    /\ \E k \in BOOLEAN : keep' = [keep EXCEPT ![c] = k]
    /\ MayFeed(c)

\* CONNECT, after which the parser stops, or an upgrade to WebSocket, which may
\* have a body like any request.
TunnelRequest(c) ==
    /\ \/ Asks(c, "connect") /\ UNCHANGED feeding
       \/ Asks(c, "websocket") /\ MayFeed(c)
    /\ UNCHANGED keep

\* What came is no request, the program is done, or KEEP_ALIVE_TIMEOUT is over.
ReadingEnds(c) ==
    /\ at[c] = "reading"
    /\ Over(c)
    /\ UNCHANGED <<running, pending, peer, proto, via, remote, up, down, told, httpVars>>

\* The body loop reads until the program ends or the connection is closed.  It
\* never closes the body.
FeedingEnds(c) ==
    /\ c \in feeding
    /\ ~Hears(c)
    /\ feeding' = feeding \ {c}
    /\ UNCHANGED <<localVars, keep>>

-----------------------------------------------------------------------------
(* handleHTTP                                                              *)

\* fetchHTTP or fetch; a response without a body has ended, and its entry is gone.
Fetched(c, linked) ==
    /\ at[c] = "fetching"
    /\ Within(c, linked)
    /\ \/ Remote(c, "open") /\ UNCHANGED pending
       \/ Remote(c, "ended") /\ Forgets(c)
    /\ Goes(c, "answering")
    /\ UNCHANGED <<running, connections, conn, peer, proto, via, up, down, told, httpVars>>

\* 502, whether or not it can be written, without a length.
FetchFails(c) ==
    /\ at[c] = "fetching"
    /\ Tells(c, "failed")
    /\ IF keep[c]
       THEN /\ Goes(c, "reading")
            /\ Remote(c, "none")
            /\ UNCHANGED <<connections, conn>>
       ELSE Over(c) /\ UNCHANGED remote
    /\ Forgets(c)
    /\ UNCHANGED <<running, peer, proto, via, up, down, httpVars>>

\* The response has been written to its end.
Answered(c) ==
    /\ at[c] = "answering"
    /\ conn[c] = "open"
    /\ remote[c] = "ended"
    /\ Tells(c, "ok")
    /\ \/ /\ keep[c]
          /\ Goes(c, "reading")
          /\ Remote(c, "none")
          /\ UNCHANGED <<connections, conn>>
       \/ Over(c) /\ UNCHANGED remote
    /\ UNCHANGED <<running, pending, peer, proto, via, up, down, httpVars>>

\* Reading the response or writing it fails; a body that is still open is left
\* as it is.
AnswerFails(c) ==
    /\ at[c] = "answering"
    /\ remote[c] = "broken" \/ MayFail(c)
    /\ Over(c)
    /\ UNCHANGED <<running, pending, peer, proto, via, remote, up, down, told, httpVars>>

HttpStep(c, linked) ==
    \/ HttpStarts(c) \/ PlainRequest(c) \/ TunnelRequest(c) \/ ReadingEnds(c) \/ FeedingEnds(c)
    \/ Fetched(c, linked) \/ FetchFails(c) \/ Answered(c) \/ AnswerFails(c)
=============================================================================
