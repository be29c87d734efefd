---------------------------- MODULE SocksHandler ----------------------------
(***************************************************************************)
(* SOCKS5Handler of client/socks5.ts.  What a program sends is counted in  *)
(* bytes as long as it matters: until its greeting has been read.          *)
(***************************************************************************)
EXTENDS LocalServer, Sequences

CONSTANTS
    MaxMethods,     \* bound: authentication methods a greeting offers
    Senders,        \* addresses from which datagrams reach a relay
    MaxTable        \* MAX_SESSIONS

ASSUME SocksAssumption == MaxMethods \in Nat \ {0} /\ MaxTable \in Nat \ {0}

VARIABLES
    eager,      \* eager[c]: the program does not wait for the answer
    need,       \* need[c]: bytes readExact still waits for
    owes,       \* owes[c]: bytes of the greeting the program has not sent
    table       \* table[c]: keys of `sessions` in the order of the Map

socksVars == <<eager, need, owes, table>>

SocksTypeOK ==
    /\ eager \in [Conns -> BOOLEAN]
    /\ need \in [Conns -> 0 .. MaxMethods]
    /\ owes \in [Conns -> 0 .. MaxMethods]
    /\ table \in [Conns -> Seq(Senders)]
    /\ \A c \in Conns : Len(table[c]) <= MaxTable

SocksInit ==
    /\ eager = [c \in Conns |-> FALSE]
    /\ need = [c \in Conns |-> 0]
    /\ owes = [c \in Conns |-> 0]
    /\ table = [c \in Conns |-> <<>>]

-----------------------------------------------------------------------------
(* Handshake and request                                                   *)

\* The first bytes, at least three, begin with version 5.  readExact takes two
\* of them, and what else came with them is lost; then it waits for the methods.
SocksStarts(c) ==
    /\ at[c] = "peeking"
    /\ Hears(c)
    /\ Goes(c, "methods")
    /\ proto' = [proto EXCEPT ![c] = "socks"]
    /\ \E methods \in 1 .. MaxMethods : \E first \in 3 .. 2 + methods :
          /\ need' = [need EXCEPT ![c] = methods]
          /\ owes' = [owes EXCEPT ![c] = 2 + methods - first]
    /\ \E e \in BOOLEAN : eager' = [eager EXCEPT ![c] = e]
    /\ UNCHANGED <<running, pending, connections, conn, peer, via, remote, up, down, told, table>>

\* A chunk of k bytes: what is more than needed is lost.
ReadMethods(c) ==
    /\ at[c] = "methods" /\ need[c] > 0
    /\ Hears(c)
    /\ \E k \in 1 .. (IF eager[c] THEN need[c] ELSE owes[c]) :
          /\ need' = [need EXCEPT ![c] = IF k < @ THEN @ - k ELSE 0]
          /\ owes' = [owes EXCEPT ![c] = IF k < @ THEN @ - k ELSE 0]
    /\ UNCHANGED <<localVars, eager, table>>

\* handshake() answers, readRequest() waits.
AnswerGreeting(c) ==
    /\ at[c] = "methods" /\ need[c] = 0
    /\ conn[c] = "open"
    /\ Goes(c, "header")
    /\ UNCHANGED <<running, pending, connections, conn, peer, proto, via, remote, up, down, told,
                   socksVars>>

\* readRequest() has a request to CONNECT, or to relay UDP, for which a socket
\* was bound and announced.
ReadRequest(c) ==
    /\ at[c] = "header"
    /\ Hears(c)
    /\ \/ Goes(c, "deciding") /\ UNCHANGED told
       \/ Goes(c, "relaying") /\ Tells(c, "ok")
    /\ UNCHANGED <<running, pending, connections, conn, peer, proto, via, remote, up, down, socksVars>>

\* An invalid or unknown request, a socket that cannot be bound, or a program
\* that left; nothing limits how long it may take.
SocksFails(c) ==
    /\ at[c] \in {"methods", "header"}
    /\ Tells(c, "failed")
    /\ Over(c)
    /\ UNCHANGED <<running, pending, peer, proto, via, remote, up, down, socksVars>>

-----------------------------------------------------------------------------
(* relayUDP                                                                *)

\* Mutation: room is made when there is more than the limit.
Record_Late(t, d) ==
    LET kept == IF Len(t) > MaxTable THEN Tail(t) ELSE t IN
    IF \E k \in DOMAIN kept : kept[k] = d THEN kept ELSE Append(kept, d)

\* A full table loses its oldest entry first, also when d is in it already.
Record(t, d) ==
    LET kept == IF Len(t) >= MaxTable THEN Tail(t) ELSE t IN
    IF \E k \in DOMAIN kept : kept[k] = d THEN kept ELSE Append(kept, d)

\* A well-formed datagram, from anybody; other ones are skipped.  Then its
\* route, a DNS query and the sending are awaited.
Datagram(c) ==
    /\ at[c] = "relaying"
    /\ \E d \in Senders : table' = [table EXCEPT ![c] = Record(@, d)]
    /\ Goes(c, "sending")
    /\ UNCHANGED <<running, pending, connections, conn, peer, proto, via, remote, up, down, told,
                   eager, need, owes>>

DatagramSent(c) ==
    /\ at[c] = "sending"
    /\ Goes(c, "relaying")
    /\ UNCHANGED <<running, pending, connections, conn, peer, proto, via, remote, up, down, told,
                   socksVars>>

\* One datagram that cannot be sent, or a failure of the socket, ends the relay.
\* That the program closed its connection does not.
RelayEnds(c) ==
    /\ at[c] \in {"relaying", "sending"}
    /\ table' = [table EXCEPT ![c] = <<>>]
    /\ Over(c)
    /\ UNCHANGED <<running, pending, peer, proto, via, remote, up, down, told, eager, need, owes>>

\* What is left of table t without the keys of idle, in the same order: this is
\* the only member of the set.
Remains(t, idle) ==
    LET stays == {k \in DOMAIN t : t[k] \notin idle}
        places == 1 .. Cardinality(stays)
        inOrder == {f \in [places -> stays] : \A i, j \in places : i < j => f[i] < f[j]}
    IN {[j \in places |-> t[f[j]]] : f \in inOrder}

\* Entries not used for SESSION_TIMEOUT, whichever these are.
Sweep(c) ==
    \E idle \in SUBSET Senders :
        /\ at[c] \in {"relaying", "sending"}
        /\ \E t \in Remains(table[c], idle) : table' = [table EXCEPT ![c] = t]
        /\ table' # table
        /\ UNCHANGED <<localVars, eager, need, owes>>

SocksStep(c) ==
    \/ SocksStarts(c) \/ ReadMethods(c) \/ AnswerGreeting(c) \/ ReadRequest(c) \/ SocksFails(c)
    \/ Datagram(c) \/ DatagramSent(c) \/ RelayEnds(c) \/ Sweep(c)
=============================================================================
