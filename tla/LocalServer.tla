----------------------------- MODULE LocalServer -----------------------------
(***************************************************************************)
(* MixedProxyServer of client/server.ts, which accepts the connections of  *)
(* local programs, and what its two handlers have in common: they decide   *)
(* on a route, connect to the target and join the two connections by a     *)
(* pipe each way.                                                          *)
(*                                                                         *)
(* The target is reached through the tunnel or directly.  Its connection   *)
(* is `remote`: a TCPStream or the body of a Response in the first case, a *)
(* Deno.Conn or a fetch in the second.  In the first case ProxyClient has an *)
(* entry for it, and only while it has one does anything that happens to   *)
(* the link or to the target reach the handler.                            *)
(***************************************************************************)
EXTENDS Naturals, FiniteSets

CONSTANT MaxConns   \* bound: connections of local programs

ASSUME LocalAssumption == MaxConns \in Nat \ {0}

Conns == 1 .. MaxConns

VARIABLES
    running,        \* isRunning, and the loop of listen() goes on
    connections,    \* connections
    at,             \* at[c]: what the handler of c awaits
    conn,           \* conn[c]: our end of the connection
    peer,           \* peer[c]: the program; "ended" sends no more, "gone" is gone
    proto,          \* proto[c]: what it asked for
    via,            \* via[c]: the route
    remote,         \* remote[c]: the connection to the target; "left" by us
    pending,        \* pending[c]: the entry of c in the pending map (see Held)
    up, down,       \* up[c], down[c]: the pipes to and from the target
    told            \* told[c]: the last answer to the program

localVars == <<running, connections, at, conn, peer, proto, via, remote, pending,
               up, down, told>>

Await == {"none", "peeking", "methods", "header", "reading", "deciding", "dialing",
          "announcing", "piping", "fetching", "answering", "relaying", "sending", "over"}

\* An entry of a call made while the client believed in its link, of one made later
\* on the same WebSocket, and of one whose WebSocket has ended unnoticed since.  The
\* code does not tell them apart; what an answer can still reach does.
Held == {"made", "late", "stale"}

\* Entries whose WebSocket is still there.
Reachable == {"made", "late"}

LocalTypeOK ==
    /\ running \in BOOLEAN
    /\ connections \subseteq Conns
    /\ at \in [Conns -> Await]
    /\ conn \in [Conns -> {"none", "open", "closed"}]
    /\ peer \in [Conns -> {"open", "ended", "gone"}]
    /\ proto \in [Conns -> {"none", "http", "connect", "websocket", "socks"}]
    /\ via \in [Conns -> {"none", "tunnel", "direct"}]
    /\ remote \in [Conns -> {"none", "open", "ended", "broken", "left"}]
    /\ pending \in [Conns -> Held \cup {"none", "reaped"}]
    /\ up \in [Conns -> {"none", "running", "over"}]
    /\ down \in [Conns -> {"none", "running", "over"}]
    /\ told \in [Conns -> {"nothing", "ok", "failed"}]

LocalInit ==
    /\ running = FALSE
    /\ connections = {}
    /\ at = [c \in Conns |-> "none"]
    /\ conn = [c \in Conns |-> "none"]
    /\ peer = [c \in Conns |-> "open"]
    /\ proto = [c \in Conns |-> "none"]
    /\ via = [c \in Conns |-> "none"]
    /\ remote = [c \in Conns |-> "none"]
    /\ pending = [c \in Conns |-> "none"]
    /\ up = [c \in Conns |-> "none"]
    /\ down = [c \in Conns |-> "none"]
    /\ told = [c \in Conns |-> "nothing"]

Goes(c, to) == at' = [at EXCEPT ![c] = to]
Tells(c, what) == told' = [told EXCEPT ![c] = what]
Closes(c) == conn' = [conn EXCEPT ![c] = "closed"]
Remote(c, state) == remote' = [remote EXCEPT ![c] = state]
Forgets(c) == pending' = [pending EXCEPT ![c] = "none"]

\* Reading from c may return something.
Hears(c) == conn[c] = "open" /\ peer[c] = "open"

\* Writing to c may fail.
MayFail(c) == conn[c] # "open" \/ peer[c] = "gone"

-----------------------------------------------------------------------------
(* The server                                                              *)

\* listen() has the port.
Listen ==
    /\ ~running
    /\ running' = TRUE
    /\ UNCHANGED <<connections, at, conn, peer, proto, via, remote, pending, up, down, told>>

\* handleConnection up to its first read.
Accept(c) ==
    /\ running
    /\ at[c] = "none"
    /\ Goes(c, "peeking")
    /\ conn' = [conn EXCEPT ![c] = "open"]
    /\ connections' = connections \cup {c}
    /\ UNCHANGED <<running, pending, peer, proto, via, remote, up, down, told>>

\* The handler returns or throws, in every case closing the connection.
Over(c) ==
    /\ Goes(c, "over")
    /\ connections' = connections \ {c}
    /\ Closes(c)

\* Nothing was read, or nothing that either protocol starts with.
PeekFails(c) ==
    /\ at[c] = "peeking"
    /\ Over(c)
    /\ UNCHANGED <<running, pending, peer, proto, via, remote, up, down, told>>

\* stop(), at the end of the program.
StopServer ==
    /\ running' = FALSE
    /\ conn' = [c \in Conns |-> IF c \in connections THEN "closed" ELSE conn[c]]
    /\ connections' = {}
    /\ UNCHANGED <<at, peer, proto, via, remote, pending, up, down, told>>

-----------------------------------------------------------------------------
(* Local programs and targets                                              *)

PeerEnds(c) ==
    /\ at[c] \notin {"none", "over"}
    /\ \/ peer[c] = "open" /\ peer' = [peer EXCEPT ![c] = "ended"]
       \/ peer[c] # "gone" /\ peer' = [peer EXCEPT ![c] = "gone"]
    /\ UNCHANGED <<running, pending, connections, at, conn, proto, via, remote, up, down, told>>

\* The target has no more to say, or its connection fails.  Through the tunnel this
\* is a message, which takes the entry away.
RemoteEnds(c, linked) ==
    /\ remote[c] = "open"
    /\ via[c] = "direct" \/ (linked /\ pending[c] \in Reachable)
    /\ Remote(c, "ended") \/ Remote(c, "broken")
    /\ Forgets(c)
    /\ UNCHANGED <<running, connections, at, conn, peer, proto, via, up, down, told>>

-----------------------------------------------------------------------------
(* The pending map of ProxyClient, as far as it is about these calls       *)

\* Mutation: calls in progress survive the link.
BreakTunnels_Established ==
    LET broken == {c \in Conns : pending[c] \in Held /\ remote[c] = "open"} IN
    /\ remote' = [c \in Conns |-> IF c \in broken THEN "broken" ELSE remote[c]]
    /\ pending' = [c \in Conns |-> IF c \in broken THEN "none" ELSE pending[c]]
    /\ UNCHANGED <<running, connections, at, conn, peer, proto, via, up, down, told>>

\* handleDisconnect() past its check: every stream that still has an entry fails,
\* every call in progress is rejected, and the map is cleared.
BreakTunnels ==
    /\ remote' = [c \in Conns |-> IF pending[c] \in Held THEN "broken" ELSE remote[c]]
    /\ pending' = [c \in Conns |-> IF pending[c] \in Held THEN "none" ELSE pending[c]]
    /\ UNCHANGED <<running, connections, at, conn, peer, proto, via, up, down, told>>

\* The WebSocket ends and handleDisconnect() returns at once: the entries stay, and
\* nothing can answer them.
OutliveLink ==
    /\ pending' = [c \in Conns |-> IF pending[c] \in Held THEN "stale" ELSE pending[c]]
    /\ UNCHANGED <<running, connections, at, conn, peer, proto, via, remote, up, down, told>>

\* cleanupPendingRequests() takes the entry of a stream after 120 s and leaves the
\* stream open.  Calls are answered or time out before that.
Reap(c) ==
    /\ pending[c] \in Held
    /\ remote[c] = "open"
    /\ pending' = [pending EXCEPT ![c] = "reaped"]
    /\ UNCHANGED <<running, connections, at, conn, peer, proto, via, remote, up, down, told>>

-----------------------------------------------------------------------------
(* The way to the target                                                   *)

\* shouldProxy(), the tunnel when it fails; then the call.  Through the tunnel it
\* has an entry, unless it is refused for want of an open WebSocket.
Decide(c, entry) ==
    /\ at[c] = "deciding"
    /\ \/ /\ via' = [via EXCEPT ![c] = "tunnel"]
          /\ pending' = [pending EXCEPT ![c] = entry]
       \/ /\ via' = [via EXCEPT ![c] = "direct"]
          /\ UNCHANGED pending
    /\ Goes(c, IF proto[c] = "http" THEN "fetching" ELSE "dialing")
    /\ UNCHANGED <<running, connections, conn, peer, proto, remote, up, down, told>>

\* The target can be reached: directly, or by an answer to the call.
Within(c, linked) ==
    /\ remote[c] = "none"
    /\ via[c] = "direct" \/ (linked /\ pending[c] \in Reachable)

\* connectTCP or Deno.connect; what the program is told then is on its way.
Dialled(c, linked) ==
    /\ at[c] = "dialing"
    /\ Within(c, linked)
    /\ Remote(c, "open")
    /\ Goes(c, "announcing")
    /\ UNCHANGED <<running, pending, connections, conn, peer, proto, via, up, down, told>>

\* Mutation: no timeout, only the end of the link.
DialFails_Untimed(c) ==
    /\ at[c] = "dialing" /\ remote[c] = "broken"
    /\ IF proto[c] = "websocket" THEN UNCHANGED told ELSE Tells(c, "failed")
    /\ Over(c)
    /\ Forgets(c)
    /\ UNCHANGED <<running, peer, proto, via, remote, up, down>>

\* A failure is answered (a WebSocket upgrade is not), and the handler is over.  The
\* request timer takes the entry away.
DialFails(c) ==
    /\ at[c] = "dialing"
    /\ IF proto[c] = "websocket" THEN UNCHANGED told ELSE Tells(c, "failed")
    /\ Over(c)
    /\ Forgets(c)
    /\ UNCHANGED <<running, peer, proto, via, remote, up, down>>

\* The answer is written (the request for a WebSocket, to the target) and both
\* pipes start.  PrefixedReader still holds the reader of a SOCKS5 connection, so
\* that its first pipe fails at once.
Announce(c) ==
    /\ at[c] = "announcing"
    /\ conn[c] = "open"
    /\ Goes(c, "piping")
    /\ IF proto[c] = "websocket" THEN UNCHANGED told ELSE Tells(c, "ok")
    /\ up' = [up EXCEPT ![c] = IF proto[c] = "socks" THEN "over" ELSE "running"]
    /\ down' = [down EXCEPT ![c] = "running"]
    /\ UNCHANGED <<running, pending, connections, conn, peer, proto, via, remote>>

\* Writing it fails: the connection to the target is forgotten.
AnnounceFails(c) ==
    /\ at[c] = "announcing"
    /\ IF proto[c] = "websocket" THEN via[c] = "direct" /\ remote[c] # "open" ELSE MayFail(c)
    /\ Over(c)
    /\ UNCHANGED <<running, pending, peer, proto, via, remote, up, down, told>>

-----------------------------------------------------------------------------
(* The pipes: pipeTo with preventClose.  An error on one side is passed to *)
(* the other, an end is not.                                               *)

\* The program has no more to say.  The runtime may close the connection with
\* the last read (the source guards each later close against that).
UpEnds(c) ==
    /\ up[c] = "running"
    /\ peer[c] # "open" /\ conn[c] = "open"
    /\ up' = [up EXCEPT ![c] = "over"]
    /\ Closes(c) \/ UNCHANGED conn
    /\ UNCHANGED <<running, pending, connections, at, peer, proto, via, remote, down, told>>

\* Reading fails: the writable side of the target is aborted.  That closes a direct
\* connection; of a stream the server is told, and its reader is left as it is.
UpReadFails(c) ==
    /\ up[c] = "running"
    /\ conn[c] # "open"
    /\ up' = [up EXCEPT ![c] = "over"]
    /\ Remote(c, IF via[c] = "direct" /\ remote[c] = "open" THEN "left" ELSE remote[c])
    /\ UNCHANGED <<running, pending, connections, at, conn, peer, proto, via, down, told>>

\* Writing to a direct connection fails, and reading is cancelled.  Writing to
\* a TCPStream never fails.
UpWriteFails(c) ==
    /\ up[c] = "running"
    /\ Hears(c)
    /\ via[c] = "direct" /\ remote[c] # "open"
    /\ up' = [up EXCEPT ![c] = "over"]
    /\ Closes(c)
    /\ UNCHANGED <<running, pending, connections, at, peer, proto, via, remote, down, told>>

DownEnds(c) ==
    /\ down[c] = "running"
    /\ remote[c] \in {"ended", "left"}
    /\ down' = [down EXCEPT ![c] = "over"]
    /\ UNCHANGED <<running, pending, connections, at, conn, peer, proto, via, remote, up, told>>

\* Mutation: nothing catches the failure of a single pipe.
DownReadFails_Uncaught(c) ==
    /\ down[c] = "running"
    /\ remote[c] \in {"broken", "left"}
    /\ down' = [down EXCEPT ![c] = "over"]
    /\ Tells(c, "failed")
    /\ Over(c)
    /\ UNCHANGED <<running, pending, peer, proto, via, remote, up>>

\* Reading from the target fails: the connection of the program is aborted.
DownReadFails(c) ==
    /\ down[c] = "running"
    /\ remote[c] \in {"broken", "left"}
    /\ down' = [down EXCEPT ![c] = "over"]
    /\ Closes(c)
    /\ UNCHANGED <<running, pending, connections, at, peer, proto, via, remote, up, told>>

\* Mutation: reading from the target is not cancelled.
DownWriteFails_Uncancelled(c) ==
    /\ down[c] = "running"
    /\ remote[c] = "open" /\ MayFail(c)
    /\ down' = [down EXCEPT ![c] = "over"]
    /\ Closes(c)
    /\ UNCHANGED <<running, pending, connections, at, peer, proto, via, remote, up, told>>

\* Writing to the program fails: reading from the target is cancelled.
DownWriteFails(c) ==
    /\ down[c] = "running"
    /\ remote[c] = "open" /\ MayFail(c)
    /\ down' = [down EXCEPT ![c] = "over"]
    /\ Closes(c)
    /\ Remote(c, "left")
    /\ Forgets(c)
    /\ UNCHANGED <<running, connections, at, peer, proto, via, up, told>>

\* Promise.all of the two.
PipesOver(c) ==
    /\ at[c] = "piping"
    /\ up[c] = "over" /\ down[c] = "over"
    /\ Over(c)
    /\ UNCHANGED <<running, pending, peer, proto, via, remote, up, down, told>>

\* What follows by itself from the end of either side; a write fails only when
\* somebody has something to say.
PipeEnds(c) ==
    \/ UpEnds(c) \/ UpReadFails(c) \/ DownEnds(c) \/ DownReadFails(c) \/ PipesOver(c)

PipeStep(c) == PipeEnds(c) \/ UpWriteFails(c) \/ DownWriteFails(c)
=============================================================================
