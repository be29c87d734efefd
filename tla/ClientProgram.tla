---------------------------- MODULE ClientProgram ----------------------------
(***************************************************************************)
(* The client program of client/main.ts: its connection loop, and the      *)
(* server for local programs, whose calls need the connection the loop     *)
(* keeps up.  ProxyClient stands between the two.  It is given the         *)
(* WebSocket when that opens, and has a view of its own whether the link   *)
(* lives: its heartbeat timer declares the link dead without closing the   *)
(* WebSocket.  A link that ends takes every stream and every call with it  *)
(* that ProxyClient knows of, unless it had been declared dead before.     *)
(***************************************************************************)
EXTENDS Lifecycle, HttpHandler, SocksHandler

VARIABLE connectionState    \* connectionState of ProxyClient

programVars == <<vars, connectionState, localVars, httpVars, socksVars>>

ProgramInit ==
    /\ Init /\ LocalInit /\ HttpInit /\ SocksInit
    /\ connectionState = "disconnected"

-----------------------------------------------------------------------------

\* The loop goes on by itself.
LoopGoes ==
    /\ Start \/ Reconnect \/ \E k \in Sockets : ConnectTimeout(k)
    /\ UNCHANGED <<connectionState, localVars>>

\* A socket opens and is given to ProxyClient by assign().
LinkOpens ==
    /\ \E k \in Sockets : Opens(k)
    /\ connectionState' = "connected"
    /\ UNCHANGED localVars

\* A socket ends; handleDisconnect() does nothing when it is disconnected already.  A
\* socket that was never open is not ProxyClient's, which is disconnected then.
LinkEnds ==
    /\ \E k \in Sockets : Ends(k)
    /\ connectionState' = "disconnected"
    /\ IF connectionState = "connected" THEN BreakTunnels ELSE OutliveLink

\* The heartbeat timer expires, which runs handleDisconnect() and no more.
HeartbeatTimeout ==
    /\ ~exited
    /\ connectionState = "connected"
    /\ connectionState' = "disconnected"
    /\ BreakTunnels
    /\ UNCHANGED vars

LoopStep ==
    /\ LoopGoes \/ LinkOpens \/ LinkEnds \/ HeartbeatTimeout
    /\ UNCHANGED <<httpVars, socksVars>>

\* What entry a call made now gets: none without an open WebSocket, otherwise one,
\* whatever connectionState is.
Entry ==
    IF ~Connected THEN "none" ELSE IF connectionState = "connected" THEN "made" ELSE "late"

\* After the first attempt, whatever came of it, the server starts.
ServerStarts ==
    /\ started /\ ~exited
    /\ Connected \/ reconnectTimeout
    /\ Listen
    /\ UNCHANGED <<vars, connectionState, httpVars, socksVars>>

\* listen() throws, at once or later, and so does main().
ServerFails ==
    /\ started /\ ~exited
    /\ Connected \/ running
    /\ exited' = TRUE
    /\ UNCHANGED <<started, ws, sock, connectTimers, reconnectTimeout, reconnectAttempts,
                   connectionState, localVars, httpVars, socksVars>>

\* cleanup() stops the server and ends the program.
ProgramEnds ==
    Shutdown /\ StopServer /\ UNCHANGED <<connectionState, httpVars, socksVars>>

LocalStep(c) ==
    /\ ~exited
    /\ \/ /\ \/ Accept(c) \/ PeekFails(c) \/ PeerEnds(c) \/ RemoteEnds(c, Connected)
             \/ Reap(c) \/ Decide(c, Entry) \/ Dialled(c, Connected) \/ DialFails(c)
             \/ Announce(c) \/ AnnounceFails(c) \/ PipeStep(c)
          /\ UNCHANGED <<httpVars, socksVars>>
       \/ HttpStep(c, Connected) /\ UNCHANGED socksVars
       \/ SocksStep(c) /\ UNCHANGED httpVars
    /\ UNCHANGED <<vars, connectionState>>

ProgramNext ==
    \/ LoopStep \/ ServerStarts \/ ServerFails \/ ProgramEnds
    \/ \E c \in Conns : LocalStep(c)

ProgramSpec == ProgramInit /\ [][ProgramNext]_programVars

\* What goes on by itself: a decision is made (its DNS query has a timeout), a call
\* through the tunnel ends one way or another (as do connects of the system), a pipe
\* notices the end of either side, the keep-alive timer expires.  A direct fetch, the
\* answer to one, a SOCKS5 handshake and a UDP relay may take for ever.
Onward(c) ==
    /\ ~exited
    /\ \/ /\ Decide(c, Entry) \/ DialFails(c) \/ PipeEnds(c)
          /\ UNCHANGED <<httpVars, socksVars>>
       \/ /\ ReadingEnds(c) \/ (via[c] = "tunnel" /\ FetchFails(c))
          /\ UNCHANGED socksVars
    /\ UNCHANGED <<vars, connectionState>>

ProgramFairSpec ==
    /\ ProgramSpec
    /\ Fairness
    /\ \A c \in Conns : WF_programVars(Onward(c))

-----------------------------------------------------------------------------
(* Properties                                                              *)

ProgramTypeOK ==
    /\ TypeOK /\ LocalTypeOK /\ HttpTypeOK /\ SocksTypeOK
    /\ connectionState \in {"connected", "disconnected"}

\* The WebSocket of the loop has been open and has not ended.
HasLink == ws # 0 /\ sock[ws] \in {"open", "closing"}

\* An open stream of a local program is reached by the end of its link: it belongs to
\* the WebSocket the loop has now, which ProxyClient believes in.  Not so streams whose
\* entry was reaped, and those opened after the heartbeat timeout (client.ts:697).
StreamsHaveLinks ==
    \A c \in Conns :
        ~exited /\ via[c] = "tunnel" /\ remote[c] = "open"
            => \/ pending[c] \in {"late", "stale", "reaped"}
               \/ pending[c] = "made" /\ connectionState = "connected" /\ HasLink

\* A handler that is over has given back its place and its connection, and a
\* tunnel that was set up has not left its target behind.
OverLeavesNothing ==
    \A c \in Conns :
        /\ ~exited => (c \in connections <=> at[c] \notin {"none", "over"})
        /\ at[c] = "over" => conn[c] = "closed"
        /\ at[c] = "over" /\ up[c] # "none" => remote[c] \notin {"none", "open"}

\* Once a tunnel has been announced to the program, all it carries is the
\* target's: no error answer of a handler gets into it.
TunnelIsClean ==
    [][\A c \in Conns : up[c] # "none" => told'[c] = told[c]]_programVars

\* The handler of c awaits something that has a timeout.
IsTimed(c) ==
    \/ at[c] \in {"deciding", "dialing"}
    \/ at[c] = "fetching" /\ via[c] = "tunnel"

\* What has a timeout does not take for ever, and a tunnel both of whose ends are gone
\* is given up.
NothingHangs ==
    \A c \in Conns :
        /\ IsTimed(c) ~> ~IsTimed(c) \/ exited
        /\ at[c] = "piping" /\ peer[c] = "gone" /\ remote[c] # "open"
           ~> at[c] = "over" \/ exited

\* A program that has sent its whole SOCKS5 greeting and waits for the answer is
\* not asked for more.
GreetingIsAnswered ==
    \A c \in Conns :
        ~(at[c] = "methods" /\ ~eager[c] /\ owes[c] = 0 /\ need[c] > 0 /\ peer[c] = "open")
=============================================================================
