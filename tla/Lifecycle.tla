----------------------------- MODULE Lifecycle -----------------------------
(***************************************************************************)
(* The connection loop of client/main.ts: connect(), scheduleReconnect()   *)
(* and the timers and socket events that call them.                        *)
(*                                                                         *)
(* A socket is one attempt to connect, successful or not.  Its name is     *)
(* used again once nothing is left of the attempt, so a run need not end.  *)
(* How long the delays are is left out, and so is ProxyClient, which does  *)
(* not close the socket before the program ends.                           *)
(***************************************************************************)
EXTENDS Naturals, FiniteSets

CONSTANTS
    MaxSockets,    \* bound: attempts of which something is left at a time
    MaxAttempts    \* MAX_RECONNECT_ATTEMPTS

ASSUME LifecycleAssumption ==
    /\ MaxSockets \in Nat \ {0}
    /\ MaxAttempts \in Nat \ {0}

Sockets == 1 .. MaxSockets

VARIABLES
    started,             \* main() has called connect()
    exited,              \* Deno.exit()
    ws,                  \* the variable all callbacks share, 0 for null
    sock,                \* sock[k]: readyState
    connectTimers,       \* attempts whose connectionTimeout is armed
    reconnectTimeout,    \* a reconnection is scheduled
    reconnectAttempts

vars == <<started, exited, ws, sock, connectTimers, reconnectTimeout, reconnectAttempts>>

TypeOK ==
    /\ started \in BOOLEAN
    /\ exited \in BOOLEAN
    /\ ws \in 0 .. MaxSockets
    /\ sock \in [Sockets -> {"none", "connecting", "open", "closing"}]
    /\ connectTimers \subseteq Sockets
    /\ reconnectTimeout \in BOOLEAN
    /\ reconnectAttempts \in 0 .. MaxAttempts

Init ==
    /\ started = FALSE
    /\ exited = FALSE
    /\ ws = 0
    /\ sock = [k \in Sockets |-> "none"]
    /\ connectTimers = {}
    /\ reconnectTimeout = FALSE
    /\ reconnectAttempts = 0

-----------------------------------------------------------------------------

\* Enough failures in a row.
Exhausted == reconnectAttempts >= MaxAttempts

\* connect() up to its await: the tenth failure in a row ends the program.
Connect ==
    IF Exhausted
    THEN /\ exited' = TRUE
         /\ UNCHANGED <<ws, sock, connectTimers, reconnectAttempts>>
    ELSE /\ \E k \in Sockets \ connectTimers :
               /\ sock[k] = "none"
               /\ ws' = k
               /\ sock' = [sock EXCEPT ![k] = "connecting"]
               /\ connectTimers' = connectTimers \cup {k}
         /\ reconnectAttempts' = reconnectAttempts + 1
         /\ UNCHANGED exited

Start ==
    /\ ~started
    /\ started' = TRUE
    /\ Connect
    /\ UNCHANGED reconnectTimeout

Reconnect ==
    /\ ~exited
    /\ reconnectTimeout
    /\ reconnectTimeout' = FALSE
    /\ Connect
    /\ UNCHANGED started

\* The socket opens, and the rest of connect() runs.
Opens(k) ==
    /\ ~exited
    /\ sock[k] = "connecting"
    /\ sock' = [sock EXCEPT ![k] = "open"]
    /\ connectTimers' = connectTimers \ {k}
    /\ reconnectAttempts' = 0
    /\ reconnectTimeout' = FALSE
    /\ UNCHANGED <<started, exited, ws>>

\* Mutation: only the close of an established connection is followed up.
Ends_Forgotten(k) ==
    /\ ~exited
    /\ sock[k] # "none"
    /\ sock' = [sock EXCEPT ![k] = "none"]
    /\ reconnectTimeout' = (reconnectTimeout \/ sock[k] = "open")
    /\ UNCHANGED <<started, exited, ws, connectTimers, reconnectAttempts>>

\* The socket fails or closes: connect() rejects, or its close listener runs.
\* Either calls scheduleReconnect(); the connect timer is not cleared.
Ends(k) ==
    /\ ~exited
    /\ sock[k] # "none"
    /\ sock' = [sock EXCEPT ![k] = "none"]
    /\ reconnectTimeout' = TRUE
    /\ UNCHANGED <<started, exited, ws, connectTimers, reconnectAttempts>>

\* Mutation: the timer does not wait for the socket to close.
ConnectTimeout_Eager(k) ==
    /\ ~exited
    /\ k \in connectTimers
    /\ connectTimers' = connectTimers \ {k}
    /\ sock' = IF sock[ws] # "none" THEN [sock EXCEPT ![ws] = "closing"] ELSE sock
    /\ reconnectTimeout' = (reconnectTimeout \/ sock[ws] = "connecting")
    /\ UNCHANGED <<started, exited, ws, reconnectAttempts>>

\* The connect timer of attempt k closes ws, which may be a later attempt's.
ConnectTimeout(k) ==
    /\ ~exited
    /\ k \in connectTimers
    /\ connectTimers' = connectTimers \ {k}
    /\ sock' = IF sock[ws] # "none" THEN [sock EXCEPT ![ws] = "closing"] ELSE sock
    /\ UNCHANGED <<started, exited, ws, reconnectTimeout, reconnectAttempts>>

\* cleanup() on SIGINT ends the process.
Shutdown ==
    /\ started
    /\ ~exited
    /\ exited' = TRUE
    /\ UNCHANGED <<started, ws, sock, connectTimers, reconnectTimeout, reconnectAttempts>>

Next ==
    \/ Start \/ Reconnect \/ Shutdown
    \/ \E k \in Sockets : Opens(k) \/ Ends(k) \/ ConnectTimeout(k)

Spec == Init /\ [][Next]_vars

\* Timers expire and a socket that is closing closes. That an attempt succeeds,
\* or fails by itself, is not assumed.
Fairness ==
    /\ WF_vars(Start)
    /\ WF_vars(Reconnect)
    /\ \A k \in Sockets :
          /\ WF_vars(ConnectTimeout(k))
          /\ WF_vars(sock[k] = "closing" /\ Ends(k))

FairSpec == Spec /\ Fairness

-----------------------------------------------------------------------------
(* Properties                                                              *)

Connected == ws # 0 /\ sock[ws] = "open"

Live == {k \in Sockets : sock[k] # "none"}

\* The loop has exactly one way to go on, whatever timers are left of earlier
\* attempts: a socket, which is the current one, or a scheduled reconnection.
\* Two would be two connections to the server, none would be the end.
OneWayOn ==
    started /\ ~exited =>
        IF reconnectTimeout THEN Live = {} ELSE Live = {ws}

\* An attempt that hangs and a connection that is lost both lead to another
\* connection, or to the end of the program after MaxAttempts failures.
Recovers == started /\ ~Connected ~> Connected \/ exited

\* The connect timer limits an attempt to connect: it never closes a connection
\* that is established.
LimitsAttempts ==
    [][\A k \in Sockets : ConnectTimeout(k) => ~Connected]_vars
=============================================================================
