------------------------------ MODULE Commands ------------------------------
(***************************************************************************)
(* The text frames of core/command.ts between a ProxyTransport and its     *)
(* client.  A transport greets each socket it is assigned with "SET UUID". *)
(* Each end answers whatever text it receives, and takes the answer of the *)
(* other for a command it does not know, so that one greeting goes back    *)
(* and forth as long as the socket lasts.                                  *)
(***************************************************************************)
EXTENDS Naturals, Sequences

CONSTANT MaxLinks       \* bound: WebSockets over which they meet

ASSUME CommandsAssumption == MaxLinks \in Nat \ {0}

Links == 1 .. MaxLinks

VARIABLES
    links,          \* WebSockets made so far
    open,           \* those that are open
    serverWs,       \* this.ws of the transport and of the client; 0 for null
    clientWs,
    serverHears,    \* the WebSockets that have their listeners
    clientHears,
    toServer,       \* toServer[k], toClient[k]: text frames on their way
    toClient

commandsVars ==
    <<links, open, serverWs, clientWs, serverHears, clientHears, toServer, toClient>>

\* SET UUID; {"success":true,...}; {"success":false,"message":"Unknown command..."}
Frame == {"SET", "acknowledged", "unknown"}

CommandsTypeOK ==
    /\ links \in 0 .. MaxLinks
    /\ open \subseteq Links
    /\ serverWs \in 0 .. MaxLinks
    /\ clientWs \in 0 .. MaxLinks
    /\ serverHears \subseteq Links
    /\ clientHears \subseteq Links
    /\ toServer \in [Links -> Seq(Frame)]
    /\ toClient \in [Links -> Seq(Frame)]

CommandsInit ==
    /\ links = 0
    /\ open = {}
    /\ serverWs = 0
    /\ clientWs = 0
    /\ serverHears = {}
    /\ clientHears = {}
    /\ toServer = [k \in Links |-> <<>>]
    /\ toClient = [k \in Links |-> <<>>]

\* handleCommand(): the registered commands, of which only SET is ever sent, and
\* everything else.
Answer(frame) == IF frame = "SET" THEN "acknowledged" ELSE "unknown"

\* Mutation: the WebSocket that is left keeps its listeners.
ServerHearsFrom_All(k) == serverHears \cup {k}

\* assign(): the previous WebSocket loses its listeners.
ServerHearsFrom(k) == {k}

\* A client comes, or comes back, on a new WebSocket while the one it had may
\* still look open: assign() of the transport.
ServerAssigns ==
    /\ links < MaxLinks
    /\ links' = links + 1
    /\ open' = open \cup {links + 1}
    /\ serverWs' = links + 1
    /\ serverHears' = ServerHearsFrom(links + 1)
    /\ toClient' = [toClient EXCEPT ![links + 1] = <<"SET">>]
    /\ UNCHANGED <<clientWs, clientHears, toServer>>

\* assign() of the client.
ClientAssigns ==
    /\ clientWs < links
    /\ clientWs' = links
    /\ clientHears' = {links}
    /\ UNCHANGED <<links, open, serverWs, serverHears, toServer, toClient>>

\* onMessage() with a text, from any socket that has its listeners; sendText()
\* takes the one the transport has now.
ServerAnswers ==
    \E k \in serverHears \cap open :
        /\ toServer[k] # <<>>
        /\ toServer' = [toServer EXCEPT ![k] = Tail(@)]
        /\ toClient' = IF serverWs \in open
                       THEN [toClient EXCEPT ![serverWs] = Append(@, Answer(Head(toServer[k])))]
                       ELSE toClient
        /\ UNCHANGED <<links, open, serverWs, clientWs, serverHears, clientHears>>

ClientAnswers ==
    \E k \in clientHears \cap open :
        /\ toClient[k] # <<>>
        /\ toClient' = [toClient EXCEPT ![k] = Tail(@)]
        /\ toServer' = IF clientWs \in open
                       THEN [toServer EXCEPT ![clientWs] = Append(@, Answer(Head(toClient[k])))]
                       ELSE toServer
        /\ UNCHANGED <<links, open, serverWs, clientWs, serverHears, clientHears>>

\* A WebSocket ends, with what was on its way.
LinkEnds ==
    \E k \in open :
        /\ open' = open \ {k}
        /\ toServer' = [toServer EXCEPT ![k] = <<>>]
        /\ toClient' = [toClient EXCEPT ![k] = <<>>]
        /\ UNCHANGED <<links, serverWs, clientWs, serverHears, clientHears>>

CommandsNext ==
    ServerAssigns \/ ClientAssigns \/ ServerAnswers \/ ClientAnswers \/ LinkEnds

CommandsSpec == CommandsInit /\ [][CommandsNext]_commandsVars

-----------------------------------------------------------------------------

\* However often the client comes back, one greeting at most goes back and forth
\* between the two: the answers to answers (command.ts:176) do not multiply.
FramesDoNotMultiply ==
    /\ \A k \in Links : Len(toClient[k]) + Len(toServer[k]) <= 1
    /\ \A k \in clientHears, l \in serverHears : Len(toClient[k]) + Len(toServer[l]) <= 1
=============================================================================
