------------------------- MODULE ClientProgramProofs -------------------------
(***************************************************************************)
(* The client program: its connection loop never stops and never splits,   *)
(* whatever connect timers are left over; handlers give back what they     *)
(* hold and write no answer into a tunnel, and the end of a link reaches   *)
(* every stream ProxyClient has an entry of from a time when it believed   *)
(* in the link: for any number of local connections and of attempts.       *)
(***************************************************************************)
EXTENDS ClientProgram, FiniteSetTheorems, SequenceTheorems, TLAPS

-----------------------------------------------------------------------------
(* The loop alone                                                          *)

\* Before main() has called connect() there is nothing to go on with.
NotStarted == ~started => Live = {} /\ ~reconnectTimeout /\ ~exited

LoopInv == TypeOK /\ OneWayOn /\ NotStarted

LEMMA InitIsOne == Init => LoopInv
<1> SUFFICES ASSUME Init PROVE LoopInv
  OBVIOUS
<1>1. TypeOK
  <2>1. 0 \in 0 .. MaxSockets /\ 0 \in 0 .. MaxAttempts
    BY LifecycleAssumption
  <2>2. QED
    BY <2>1 DEF Init, TypeOK
<1>2. Live = {} /\ ~started
  BY DEF Init, Live
<1>3. QED
  BY <1>1, <1>2 DEF Init, LoopInv, OneWayOn, NotStarted

\* connect(), with nothing to go on with, leaves one socket or the end.
LEMMA ConnectIsOne ==
    ASSUME TypeOK, Live = {}, ~exited, Connect,
           started' = TRUE, reconnectTimeout' = FALSE
    PROVE  LoopInv'
<1>1. CASE Exhausted
  BY <1>1 DEF Connect, LoopInv, TypeOK, OneWayOn, NotStarted, Live
<1>2. CASE ~Exhausted
  <2>1. PICK k \in Sockets : /\ sock[k] = "none"
                             /\ ws' = k
                             /\ sock' = [sock EXCEPT ![k] = "connecting"]
                             /\ connectTimers' = connectTimers \cup {k}
    BY <1>2 DEF Connect
  <2>2. reconnectAttempts' = reconnectAttempts + 1 /\ UNCHANGED exited
    BY <1>2 DEF Connect
  <2>3. TypeOK'
    <3>1. reconnectAttempts' \in 0 .. MaxAttempts
      BY <1>2, <2>2, LifecycleAssumption DEF TypeOK, Exhausted
    <3>2. sock' \in [Sockets -> {"none", "connecting", "open", "closing"}]
      BY <2>1 DEF TypeOK
    <3>3. ws' \in 0 .. MaxSockets /\ connectTimers' \subseteq Sockets
      BY <2>1, LifecycleAssumption DEF TypeOK, Sockets
    <3>4. QED
      BY <2>2, <3>1, <3>2, <3>3 DEF TypeOK
  <2>4. Live' = {k}
    BY <2>1 DEF Live, TypeOK
  <2>5. QED
    BY <2>1, <2>3, <2>4 DEF LoopInv, OneWayOn, NotStarted
<1>3. QED
  BY <1>1, <1>2

LEMMA StepKeepsOne == LoopInv /\ [Next]_vars => LoopInv'
<1> SUFFICES ASSUME LoopInv, [Next]_vars PROVE LoopInv'
  OBVIOUS
<1> USE DEF LoopInv
<1>1. CASE Start
  <2>1. Live = {} /\ ~exited /\ ~reconnectTimeout
    BY <1>1 DEF Start, NotStarted
  <2>2. reconnectTimeout' = FALSE
    BY <1>1, <2>1 DEF Start, TypeOK
  <2>3. QED
    BY <1>1, <2>1, <2>2, ConnectIsOne DEF Start
<1>2. CASE Reconnect
  <2>1. Live = {} /\ started
    BY <1>2 DEF Reconnect, OneWayOn, NotStarted
  <2>2. QED
    BY <1>2, <2>1, ConnectIsOne DEF Reconnect
<1>3. CASE Shutdown
  BY <1>3 DEF Shutdown, TypeOK, OneWayOn, NotStarted, Live
<1>4. ASSUME NEW k \in Sockets, Opens(k)
      PROVE  LoopInv'
  <2>1. Live' = Live /\ k \in Live
    BY <1>4 DEF Opens, Live, TypeOK
  <2>2. started /\ ~reconnectTimeout
    BY <1>4, <2>1 DEF Opens, OneWayOn, NotStarted
  <2>3. TypeOK'
    <3>1. 0 \in 0 .. MaxAttempts
      BY LifecycleAssumption
    <3>2. QED
      BY <1>4, <3>1 DEF Opens, TypeOK
  <2>4. QED
    BY <1>4, <2>1, <2>2, <2>3 DEF Opens, OneWayOn, NotStarted
<1>5. ASSUME NEW k \in Sockets, Ends(k)
      PROVE  LoopInv'
  <2>1. k \in Live
    BY <1>5 DEF Ends, Live
  <2>2. started /\ Live = {ws}
    BY <1>5, <2>1 DEF Ends, OneWayOn, NotStarted
  <2>3. Live' = Live \ {k}
    BY <1>5 DEF Ends, Live, TypeOK
  <2>4. TypeOK'
    BY <1>5 DEF Ends, TypeOK
  <2>5. Live' = {}
    BY <2>1, <2>2, <2>3
  <2>6. QED
    BY <1>5, <2>2, <2>4, <2>5 DEF Ends, OneWayOn, NotStarted
<1>6. ASSUME NEW k \in Sockets, ConnectTimeout(k)
      PROVE  LoopInv'
  <2>1. Live' = Live
    BY <1>6 DEF ConnectTimeout, Live, TypeOK
  <2>2. TypeOK'
    BY <1>6 DEF ConnectTimeout, TypeOK
  <2>3. QED
    BY <1>6, <2>1, <2>2 DEF ConnectTimeout, OneWayOn, NotStarted
<1>7. CASE UNCHANGED vars
  BY <1>7 DEF vars, TypeOK, OneWayOn, NotStarted, Live
<1>8. QED
  BY <1>1, <1>2, <1>3, <1>4, <1>5, <1>6, <1>7 DEF Next

\* The loop always has exactly one way to go on: no timer left of an earlier
\* attempt makes it connect twice, and no event ends it.
THEOREM LoopGoesOn == Spec => []OneWayOn
<1>1. LoopInv => OneWayOn
  BY DEF LoopInv
<1>2. QED
  BY InitIsOne, StepKeepsOne, <1>1, PTL DEF Spec

-----------------------------------------------------------------------------
(* What holds of the program                                               *)

HandlersTyped == LocalTypeOK /\ HttpTypeOK

\* Until the route is known there is no connection to a target.
TargetComesLast ==
    \A c \in Conns :
        at[c] \in {"none", "peeking", "methods", "header", "reading", "deciding"}
            => remote[c] = "none"

HandlersInv == HandlersTyped /\ TargetComesLast

\* There are pipes only once both connections are there, and the one from the
\* target is over only when its connection is.
PipesComeLast ==
    \A c \in Conns :
        /\ at[c] \notin {"piping", "over"} => up[c] = "none" /\ down[c] = "none"
        /\ down[c] = "over" => remote[c] \notin {"none", "open"}

PlacesInv == PipesComeLast /\ OverLeavesNothing

\* ProxyClient believes in a link only while there is one.
BelievesRightly ==
    /\ connectionState \in {"connected", "disconnected"}
    /\ connectionState = "connected" => HasLink

\* What was asked while it believed in the link is forgotten as soon as it does not.
MadeIsBelieved == \A c \in Conns : pending[c] = "made" => connectionState = "connected"

\* A stream has an entry as long as it is open, unless it was reaped.
OpenHasEntry ==
    \A c \in Conns : via[c] = "tunnel" /\ remote[c] = "open" => pending[c] # "none"

\* An entry is that of an open stream or of a call that waits.
EntriesInUse ==
    \A c \in Conns :
        pending[c] \in Held =>
            /\ via[c] = "tunnel"
            /\ remote[c] = "open" \/ (remote[c] = "none" /\ at[c] \in {"dialing", "fetching"})

\* While a call waits there is no stream yet.
CallsComeFirst ==
    \A c \in Conns : at[c] \in {"dialing", "fetching"} => remote[c] # "open"

LinksInv ==
    BelievesRightly /\ MadeIsBelieved /\ OpenHasEntry /\ EntriesInUse /\ CallsComeFirst

ProgramInv == LoopInv /\ HandlersInv /\ LinksInv /\ SocksTypeOK /\ PlacesInv

LEMMA ProgramStarts == ProgramInit => ProgramInv
  <1> SUFFICES ASSUME ProgramInit PROVE ProgramInv
    OBVIOUS
  <1>1. LoopInv
    BY InitIsOne DEF ProgramInit
  <1>2. HandlersInv
    BY DEF ProgramInit, LocalInit, HttpInit, HandlersInv, HandlersTyped, LocalTypeOK,
           HttpTypeOK, Await, TargetComesLast
  <1>3. LinksInv
    BY DEF ProgramInit, LocalInit, LinksInv, BelievesRightly, MadeIsBelieved, OpenHasEntry,
           EntriesInUse, CallsComeFirst, Held
  <1>4. SocksTypeOK
    <2>1. <<>> \in Seq(Senders) /\ Len(<<>>) <= MaxTable
      BY SocksAssumption
    <2>2. QED  BY <2>1, SocksAssumption DEF ProgramInit, SocksInit, SocksTypeOK
  <1>5. PlacesInv
    BY DEF ProgramInit, LocalInit, PlacesInv, PipesComeLast, OverLeavesNothing
  <1>6. QED  BY <1>1, <1>2, <1>3, <1>4, <1>5 DEF ProgramInv

-----------------------------------------------------------------------------
(* One connection                                                          *)

\* Nothing of connection c changes but what is said of it.
LEMMA LocalKeeps ==
    ASSUME HandlersInv, NEW c \in Conns, LocalStep(c)
    PROVE  HandlersInv'
  <1> USE DEF HandlersInv, HandlersTyped, LocalTypeOK, HttpTypeOK, TargetComesLast, Await,
              Held, localVars, httpVars, Goes, Tells, Closes, Remote, Forgets, Over
  <1>1. CASE Accept(c) /\ UNCHANGED httpVars
    BY <1>1 DEF Accept
  <1>2. CASE PeekFails(c) /\ UNCHANGED httpVars
    BY <1>2 DEF PeekFails
  <1>3. CASE PeerEnds(c) /\ UNCHANGED httpVars
    BY <1>3 DEF PeerEnds
  <1>4. CASE RemoteEnds(c, Connected) /\ UNCHANGED httpVars
    BY <1>4 DEF RemoteEnds
  <1>5. CASE Decide(c, Entry) /\ UNCHANGED httpVars
    BY <1>5 DEF Decide, Entry
  <1>6. CASE Dialled(c, Connected) /\ UNCHANGED httpVars
    BY <1>6 DEF Dialled
  <1>7. CASE DialFails(c) /\ UNCHANGED httpVars
    BY <1>7 DEF DialFails
  <1>8. CASE Announce(c) /\ UNCHANGED httpVars
    BY <1>8 DEF Announce
  <1>9. CASE AnnounceFails(c) /\ UNCHANGED httpVars
    BY <1>9 DEF AnnounceFails
  <1>10. CASE UpEnds(c) /\ UNCHANGED httpVars
    BY <1>10 DEF UpEnds
  <1>11. CASE UpReadFails(c) /\ UNCHANGED httpVars
    BY <1>11 DEF UpReadFails
  <1>12. CASE UpWriteFails(c) /\ UNCHANGED httpVars
    BY <1>12 DEF UpWriteFails
  <1>13. CASE DownEnds(c) /\ UNCHANGED httpVars
    BY <1>13 DEF DownEnds
  <1>14. CASE DownReadFails(c) /\ UNCHANGED httpVars
    BY <1>14 DEF DownReadFails
  <1>15. CASE DownWriteFails(c) /\ UNCHANGED httpVars
    BY <1>15 DEF DownWriteFails
  <1>16. CASE PipesOver(c) /\ UNCHANGED httpVars
    BY <1>16 DEF PipesOver
  <1>17. CASE HttpStarts(c)
    BY <1>17 DEF HttpStarts
  <1>18. CASE PlainRequest(c)
    BY <1>18 DEF PlainRequest, MayFeed, Asks
  <1>19. CASE TunnelRequest(c)
    BY <1>19 DEF TunnelRequest, MayFeed, Asks
  <1>20. CASE ReadingEnds(c)
    BY <1>20 DEF ReadingEnds
  <1>21. CASE FeedingEnds(c)
    BY <1>21 DEF FeedingEnds
  <1>22. CASE Fetched(c, Connected)
    BY <1>22 DEF Fetched
  <1>23. CASE FetchFails(c)
    BY <1>23 DEF FetchFails
  <1>24. CASE Answered(c)
    BY <1>24 DEF Answered
  <1>25. CASE AnswerFails(c)
    BY <1>25 DEF AnswerFails
  <1>26. CASE SocksStarts(c) /\ UNCHANGED httpVars
    BY <1>26 DEF SocksStarts
  <1>27. CASE ReadMethods(c) /\ UNCHANGED httpVars
    BY <1>27 DEF ReadMethods
  <1>28. CASE AnswerGreeting(c) /\ UNCHANGED httpVars
    BY <1>28 DEF AnswerGreeting
  <1>29. CASE ReadRequest(c) /\ UNCHANGED httpVars
    BY <1>29 DEF ReadRequest
  <1>30. CASE SocksFails(c) /\ UNCHANGED httpVars
    BY <1>30 DEF SocksFails
  <1>31. CASE Datagram(c) /\ UNCHANGED httpVars
    BY <1>31 DEF Datagram
  <1>32. CASE DatagramSent(c) /\ UNCHANGED httpVars
    BY <1>32 DEF DatagramSent
  <1>33. CASE RelayEnds(c) /\ UNCHANGED httpVars
    BY <1>33 DEF RelayEnds
  <1>34. CASE Sweep(c) /\ UNCHANGED httpVars
    BY <1>34 DEF Sweep
  <1>35. CASE Reap(c) /\ UNCHANGED httpVars
    BY <1>35 DEF Reap
  <1>36. QED
    BY <1>1, <1>2, <1>3, <1>4, <1>5, <1>6, <1>7, <1>8, <1>9, <1>10, <1>11,
       <1>12, <1>13, <1>14, <1>15, <1>16, <1>17, <1>18, <1>19, <1>20, <1>21,
       <1>22, <1>23, <1>24, <1>25, <1>26, <1>27, <1>28, <1>29, <1>30, <1>31,
       <1>32, <1>33, <1>34, <1>35
       DEF LocalStep, PipeStep, PipeEnds, HttpStep, SocksStep

\* A handler keeps its place until it is over, and its target while there are pipes.
LEMMA LocalPlaces ==
    ASSUME HandlersInv, PlacesInv, NEW c \in Conns, LocalStep(c)
    PROVE  PlacesInv'
  <1> USE DEF HandlersInv, HandlersTyped, LocalTypeOK, TargetComesLast, PlacesInv,
              PipesComeLast, OverLeavesNothing, localVars, vars, Goes, Tells, Closes,
              Remote, Forgets, Over
  <1>1. ~exited /\ UNCHANGED vars
    BY DEF LocalStep
  <1>2. CASE Accept(c)
    BY <1>1, <1>2 DEF Accept
  <1>3. CASE PeekFails(c)
    BY <1>1, <1>3 DEF PeekFails
  <1>4. CASE PeerEnds(c)
    BY <1>1, <1>4 DEF PeerEnds
  <1>5. CASE RemoteEnds(c, Connected)
    BY <1>1, <1>5 DEF RemoteEnds
  <1>6. CASE Decide(c, Entry)
    BY <1>1, <1>6 DEF Decide
  <1>7. CASE Dialled(c, Connected)
    BY <1>1, <1>7 DEF Dialled, Within
  <1>8. CASE DialFails(c)
    BY <1>1, <1>8 DEF DialFails
  <1>9. CASE Announce(c)
    BY <1>1, <1>9 DEF Announce
  <1>10. CASE AnnounceFails(c)
    BY <1>1, <1>10 DEF AnnounceFails
  <1>11. CASE UpEnds(c)
    BY <1>1, <1>11 DEF UpEnds
  <1>12. CASE UpReadFails(c)
    BY <1>1, <1>12 DEF UpReadFails
  <1>13. CASE UpWriteFails(c)
    BY <1>1, <1>13 DEF UpWriteFails
  <1>14. CASE DownEnds(c)
    BY <1>1, <1>14 DEF DownEnds
  <1>15. CASE DownReadFails(c)
    BY <1>1, <1>15 DEF DownReadFails
  <1>16. CASE DownWriteFails(c)
    BY <1>1, <1>16 DEF DownWriteFails
  <1>17. CASE PipesOver(c)
    BY <1>1, <1>17 DEF PipesOver
  <1>18. CASE HttpStarts(c)
    BY <1>1, <1>18 DEF HttpStarts
  <1>19. CASE PlainRequest(c)
    BY <1>1, <1>19 DEF PlainRequest, MayFeed, Asks
  <1>20. CASE TunnelRequest(c)
    BY <1>1, <1>20 DEF TunnelRequest, MayFeed, Asks
  <1>21. CASE ReadingEnds(c)
    BY <1>1, <1>21 DEF ReadingEnds
  <1>22. CASE FeedingEnds(c)
    BY <1>1, <1>22 DEF FeedingEnds
  <1>23. CASE Fetched(c, Connected)
    BY <1>1, <1>23 DEF Fetched, Within
  <1>24. CASE FetchFails(c)
    BY <1>1, <1>24 DEF FetchFails
  <1>25. CASE Answered(c)
    BY <1>1, <1>25 DEF Answered
  <1>26. CASE AnswerFails(c)
    BY <1>1, <1>26 DEF AnswerFails
  <1>27. CASE SocksStarts(c)
    BY <1>1, <1>27 DEF SocksStarts
  <1>28. CASE ReadMethods(c)
    BY <1>1, <1>28 DEF ReadMethods
  <1>29. CASE AnswerGreeting(c)
    BY <1>1, <1>29 DEF AnswerGreeting
  <1>30. CASE ReadRequest(c)
    BY <1>1, <1>30 DEF ReadRequest
  <1>31. CASE SocksFails(c)
    BY <1>1, <1>31 DEF SocksFails
  <1>32. CASE Datagram(c)
    BY <1>1, <1>32 DEF Datagram
  <1>33. CASE DatagramSent(c)
    BY <1>1, <1>33 DEF DatagramSent
  <1>34. CASE RelayEnds(c)
    BY <1>1, <1>34 DEF RelayEnds
  <1>35. CASE Sweep(c)
    BY <1>1, <1>35 DEF Sweep
  <1>36. CASE Reap(c)
    BY <1>1, <1>36 DEF Reap
  <1>37. QED
    BY <1>2, <1>3, <1>4, <1>5, <1>6, <1>7, <1>8, <1>9, <1>10, <1>11, <1>12,
       <1>13, <1>14, <1>15, <1>16, <1>17, <1>18, <1>19, <1>20, <1>21, <1>22,
       <1>23, <1>24, <1>25, <1>26, <1>27, <1>28, <1>29, <1>30, <1>31, <1>32,
       <1>33, <1>34, <1>35, <1>36
       DEF LocalStep, PipeStep, PipeEnds, HttpStep, SocksStep

\* The tables of the relays stay within their limit.
LEMMA RemainsAreFewer ==
    ASSUME NEW t \in Seq(Senders), NEW idle, NEW r \in Remains(t, idle)
    PROVE  r \in Seq(Senders) /\ Len(r) <= Len(t)
  <1> DEFINE stays == {k \in DOMAIN t : t[k] \notin idle}
             places == 1 .. Cardinality(stays)
  <1>1. IsFiniteSet(1 .. Len(t)) /\ Cardinality(1 .. Len(t)) = Len(t)
    <2>1. Len(t) \in Nat
      OBVIOUS
    <2> HIDE DEF stays
    <2>2. QED  BY <2>1, FS_Interval
  <1>2. stays \subseteq 1 .. Len(t)
    OBVIOUS
  <1>3. Cardinality(stays) \in Nat /\ Cardinality(stays) <= Len(t)
    BY <1>1, <1>2, FS_Subset, FS_CardinalityType
  <1>4. PICK f \in [places -> stays] : r = [j \in places |-> t[f[j]]]
    BY DEF Remains
  <1>5. \A j \in places : t[f[j]] \in Senders
    BY <1>2, <1>4
  <1> HIDE DEF stays
  <1>6. r \in [1 .. Cardinality(stays) -> Senders]
    BY <1>4, <1>5
  <1>7. r \in Seq(Senders)
    BY <1>3, <1>6, SeqDef
  <1>8. Len(r) = Cardinality(stays)
    BY <1>3, <1>6, <1>7, LenProperties
  <1>9. QED
    BY <1>3, <1>7, <1>8

LEMMA RecordIsBounded ==
    ASSUME NEW t \in Seq(Senders), NEW d \in Senders, Len(t) <= MaxTable
    PROVE  Record(t, d) \in Seq(Senders) /\ Len(Record(t, d)) <= MaxTable
  <1> DEFINE kept == IF Len(t) >= MaxTable THEN Tail(t) ELSE t
  <1>1. kept \in Seq(Senders) /\ Len(kept) <= MaxTable
    BY SocksAssumption
  <1>2. Len(t) >= MaxTable => Len(kept) < MaxTable
    BY SocksAssumption
  <1>3. Len(t) < MaxTable => Len(kept) < MaxTable
    BY SocksAssumption
  <1>4. Len(kept) < MaxTable
    BY <1>2, <1>3, SocksAssumption
  <1> HIDE DEF kept
  <1>5. /\ Append(kept, d) \in Seq(Senders)
        /\ Len(Append(kept, d)) <= MaxTable
    BY <1>1, <1>4, SocksAssumption
  <1>6. Record(t, d) \in {kept, Append(kept, d)}
    BY DEF Record, kept
  <1>7. QED  BY <1>1, <1>5, <1>6

LEMMA SocksTyped ==
    ASSUME SocksTypeOK, NEW c \in Conns, LocalStep(c)
    PROVE  SocksTypeOK'
  <1>1. CASE UNCHANGED socksVars
    BY <1>1 DEF socksVars, SocksTypeOK
  <1>2. CASE SocksStarts(c)
    BY <1>2, SocksAssumption DEF SocksStarts, SocksTypeOK
  <1>3. CASE ReadMethods(c)
    BY <1>3, SocksAssumption DEF ReadMethods, SocksTypeOK
  <1>4. CASE Datagram(c)
    BY <1>4, RecordIsBounded DEF Datagram, SocksTypeOK
  <1>5. CASE RelayEnds(c)
    BY <1>5, SocksAssumption DEF RelayEnds, SocksTypeOK
  <1>6. CASE Sweep(c)
    <2>1. PICK idle \in SUBSET Senders : \E t \in Remains(table[c], idle) :
              table' = [table EXCEPT ![c] = t]
      BY <1>6 DEF Sweep
    <2>2. PICK t \in Remains(table[c], idle) : table' = [table EXCEPT ![c] = t]
      BY <2>1
    <2>3. t \in Seq(Senders) /\ Len(t) <= Len(table[c])
      BY <2>2, RemainsAreFewer DEF SocksTypeOK
    <2>4. QED
      BY <1>6, <2>2, <2>3, SocksAssumption DEF Sweep, SocksTypeOK
  <1>7. QED
    BY <1>1, <1>2, <1>3, <1>4, <1>5, <1>6
       DEF LocalStep, SocksStep, AnswerGreeting, ReadRequest, SocksFails, DatagramSent

\* Whatever a handler does, its stream has an entry while it is open, and no other.
LEMMA LocalLinked ==
    ASSUME HandlersInv, LinksInv, NEW c \in Conns, LocalStep(c)
    PROVE  LinksInv'
  <1> USE DEF HandlersInv, HandlersTyped, LocalTypeOK, HttpTypeOK, TargetComesLast, LinksInv,
              BelievesRightly, MadeIsBelieved, OpenHasEntry, EntriesInUse, CallsComeFirst,
              HasLink, Held, localVars, vars, Goes, Tells, Closes, Remote, Forgets, Over
  <1>1. UNCHANGED <<vars, connectionState>>
    BY DEF LocalStep
  <1>2. CASE Accept(c)
    BY <1>1, <1>2 DEF Accept
  <1>3. CASE PeekFails(c)
    BY <1>1, <1>3 DEF PeekFails
  <1>4. CASE PeerEnds(c)
    BY <1>1, <1>4 DEF PeerEnds
  <1>5. CASE RemoteEnds(c, Connected)
    BY <1>1, <1>5 DEF RemoteEnds
  <1>6. CASE Decide(c, Entry)
    BY <1>1, <1>6 DEF Decide, Entry
  <1>7. CASE Dialled(c, Connected)
    BY <1>1, <1>7 DEF Dialled, Within, Reachable
  <1>8. CASE DialFails(c)
    BY <1>1, <1>8 DEF DialFails
  <1>9. CASE Announce(c)
    BY <1>1, <1>9 DEF Announce
  <1>10. CASE AnnounceFails(c)
    BY <1>1, <1>10 DEF AnnounceFails
  <1>11. CASE UpEnds(c)
    BY <1>1, <1>11 DEF UpEnds
  <1>12. CASE UpReadFails(c)
    BY <1>1, <1>12 DEF UpReadFails
  <1>13. CASE UpWriteFails(c)
    BY <1>1, <1>13 DEF UpWriteFails
  <1>14. CASE DownEnds(c)
    BY <1>1, <1>14 DEF DownEnds
  <1>15. CASE DownReadFails(c)
    BY <1>1, <1>15 DEF DownReadFails
  <1>16. CASE DownWriteFails(c)
    BY <1>1, <1>16 DEF DownWriteFails
  <1>17. CASE PipesOver(c)
    BY <1>1, <1>17 DEF PipesOver
  <1>18. CASE HttpStarts(c)
    BY <1>1, <1>18 DEF HttpStarts
  <1>19. CASE PlainRequest(c)
    BY <1>1, <1>19 DEF PlainRequest, MayFeed, Asks
  <1>20. CASE TunnelRequest(c)
    BY <1>1, <1>20 DEF TunnelRequest, MayFeed, Asks
  <1>21. CASE ReadingEnds(c)
    BY <1>1, <1>21 DEF ReadingEnds
  <1>22. CASE FeedingEnds(c)
    BY <1>1, <1>22 DEF FeedingEnds
  <1>23. CASE Fetched(c, Connected)
    BY <1>1, <1>23 DEF Fetched, Within, Reachable
  <1>24. CASE FetchFails(c)
    BY <1>1, <1>24 DEF FetchFails
  <1>25. CASE Answered(c)
    BY <1>1, <1>25 DEF Answered
  <1>26. CASE AnswerFails(c)
    BY <1>1, <1>26 DEF AnswerFails
  <1>27. CASE SocksStarts(c)
    BY <1>1, <1>27 DEF SocksStarts
  <1>28. CASE ReadMethods(c)
    BY <1>1, <1>28 DEF ReadMethods
  <1>29. CASE AnswerGreeting(c)
    BY <1>1, <1>29 DEF AnswerGreeting
  <1>30. CASE ReadRequest(c)
    BY <1>1, <1>30 DEF ReadRequest
  <1>31. CASE SocksFails(c)
    BY <1>1, <1>31 DEF SocksFails
  <1>32. CASE Datagram(c)
    BY <1>1, <1>32 DEF Datagram
  <1>33. CASE DatagramSent(c)
    BY <1>1, <1>33 DEF DatagramSent
  <1>34. CASE RelayEnds(c)
    BY <1>1, <1>34 DEF RelayEnds
  <1>35. CASE Sweep(c)
    BY <1>1, <1>35 DEF Sweep
  <1>36. CASE Reap(c)
    BY <1>1, <1>36 DEF Reap
  <1>37. QED
    BY <1>2, <1>3, <1>4, <1>5, <1>6, <1>7, <1>8, <1>9, <1>10, <1>11, <1>12,
       <1>13, <1>14, <1>15, <1>16, <1>17, <1>18, <1>19, <1>20, <1>21, <1>22,
       <1>23, <1>24, <1>25, <1>26, <1>27, <1>28, <1>29, <1>30, <1>31, <1>32,
       <1>33, <1>34, <1>35, <1>36
       DEF LocalStep, PipeStep, PipeEnds, HttpStep, SocksStep

-----------------------------------------------------------------------------
(* The loop, with the connections                                          *)

\* What the loop does without opening or ending a socket leaves ProxyClient its link.
LEMMA LoopLinked ==
    ASSUME LoopInv, LinksInv, LoopGoes
    PROVE  LinksInv'
  <1>1. BelievesRightly'
    <2> SUFFICES ASSUME connectionState = "connected" PROVE HasLink'
      BY DEF LoopGoes, LinksInv, BelievesRightly
    <2>1. ws \in Sockets /\ sock[ws] \in {"open", "closing"} /\ ws \in Live
      BY DEF LinksInv, BelievesRightly, HasLink, LoopInv, TypeOK, Sockets, Live
    <2>2. ~Start /\ ~Reconnect
      BY <2>1 DEF LoopInv, OneWayOn, NotStarted, Start, Reconnect
    <2>3. PICK k \in Sockets : ConnectTimeout(k)
      BY <2>2 DEF LoopGoes
    <2>4. QED
      BY <2>1, <2>3 DEF ConnectTimeout, HasLink, LoopInv, TypeOK, Sockets
  <1>2. QED
    BY <1>1 DEF LoopGoes, LinksInv, MadeIsBelieved, OpenHasEntry, EntriesInUse,
                CallsComeFirst, localVars

\* What changes nothing of the handlers keeps what holds of them.
LEMMA HandlersStay ==
    ASSUME HandlersInv, SocksTypeOK, PlacesInv, LinksInv,
           UNCHANGED <<localVars, httpVars, socksVars>>
    PROVE  /\ HandlersInv' /\ SocksTypeOK'
           /\ UNCHANGED exited => PlacesInv'
           /\ UNCHANGED <<ws, sock, connectionState>> => LinksInv'
  BY DEF HandlersInv, HandlersTyped, LocalTypeOK, HttpTypeOK, TargetComesLast,
         SocksTypeOK, PlacesInv, PipesComeLast, OverLeavesNothing, LinksInv, BelievesRightly,
         MadeIsBelieved, OpenHasEntry, EntriesInUse, CallsComeFirst, HasLink,
         localVars, httpVars, socksVars

\* Breaking what has an entry, and leaving it behind, keep all that holds of handlers.
LEMMA LosingKeeps ==
    ASSUME HandlersInv, SocksTypeOK, PlacesInv, LinksInv,
           BreakTunnels \/ (OutliveLink /\ connectionState # "connected"),
           connectionState' = "disconnected", UNCHANGED <<httpVars, socksVars, exited>>
    PROVE  HandlersInv' /\ SocksTypeOK' /\ PlacesInv' /\ LinksInv'
  <1>1. UNCHANGED <<running, connections, at, conn, peer, proto, via, up, down, told>>
    BY DEF BreakTunnels, OutliveLink
  <1>2. \A c \in Conns :
            /\ pending[c] \in Held =>
                  \/ remote'[c] = "broken" /\ pending'[c] = "none"
                  \/ remote'[c] = remote[c] /\ pending'[c] = "stale"
            /\ pending[c] \notin Held => remote'[c] = remote[c] /\ pending'[c] = pending[c]
    BY DEF BreakTunnels, OutliveLink
  <1>3. /\ remote' \in [Conns -> {"none", "open", "ended", "broken", "left"}]
        /\ pending' \in [Conns -> Held \cup {"none", "reaped"}]
    BY DEF BreakTunnels, OutliveLink, HandlersInv, HandlersTyped, LocalTypeOK, Held
  <1>4. TargetComesLast'
    BY <1>1, <1>2 DEF HandlersInv, TargetComesLast, LinksInv, EntriesInUse
  <1>5. HandlersInv'
    BY <1>1, <1>3, <1>4 DEF HandlersInv, HandlersTyped, LocalTypeOK, HttpTypeOK, httpVars
  <1>6. SocksTypeOK'
    BY DEF SocksTypeOK, socksVars
  <1>7. PlacesInv'
    BY <1>1, <1>2 DEF PlacesInv, PipesComeLast, OverLeavesNothing
  <1>8. LinksInv'
    <2>1. BelievesRightly'
      BY DEF BelievesRightly
    <2>2. MadeIsBelieved'
      BY DEF BreakTunnels, OutliveLink, LinksInv, MadeIsBelieved, Held, HandlersInv,
             HandlersTyped, LocalTypeOK
    <2>3. OpenHasEntry'
      BY <1>1, <1>2 DEF LinksInv, OpenHasEntry
    <2>4. EntriesInUse'
      BY <1>1, <1>2 DEF LinksInv, EntriesInUse, Held
    <2>5. CallsComeFirst'
      BY <1>1, <1>2 DEF LinksInv, CallsComeFirst
    <2>6. QED  BY <2>1, <2>2, <2>3, <2>4, <2>5 DEF LinksInv
  <1>9. QED  BY <1>5, <1>6, <1>7, <1>8

LEMMA LoopStepKeeps ==
    ASSUME ProgramInv, LoopStep
    PROVE  HandlersInv' /\ SocksTypeOK' /\ PlacesInv' /\ LinksInv'
  <1> USE DEF ProgramInv
  <1>1. UNCHANGED <<httpVars, socksVars>> /\ ~exited
    BY DEF LoopStep, LoopGoes, LinkOpens, LinkEnds, HeartbeatTimeout, Start, Reconnect, Opens,
           Ends, ConnectTimeout, LoopInv, NotStarted
  <1>2. CASE LoopGoes
    <2>1. HandlersInv' /\ SocksTypeOK'
      BY <1>1, <1>2, HandlersStay DEF LoopGoes
    <2>2. PlacesInv'
      BY <1>1, <1>2 DEF LoopGoes, PlacesInv, PipesComeLast, OverLeavesNothing, localVars
    <2>3. QED  BY <1>2, <2>1, <2>2, LoopLinked
  <1>3. CASE LinkOpens
    <2>1. PICK k \in Sockets : Opens(k)
      BY <1>3 DEF LinkOpens
    <2>2. HandlersInv' /\ SocksTypeOK' /\ PlacesInv'
      BY <1>1, <1>3, <2>1, HandlersStay DEF LinkOpens, Opens
    <2>3. k = ws /\ sock'[ws'] = "open" /\ ws' # 0
      BY <1>1, <2>1 DEF Opens, LoopInv, OneWayOn, NotStarted, Live, TypeOK, Sockets
    <2>4. LinksInv'
      BY <1>3, <2>3 DEF LinkOpens, LinksInv, BelievesRightly, MadeIsBelieved, OpenHasEntry,
                        EntriesInUse, CallsComeFirst, HasLink, localVars
    <2>5. QED  BY <2>2, <2>4
  <1>4. CASE LinkEnds
    <2>1. UNCHANGED exited
      BY <1>4 DEF LinkEnds, Ends
    <2>2. QED  BY <1>1, <1>4, <2>1, LosingKeeps DEF LinkEnds
  <1>5. CASE HeartbeatTimeout
    BY <1>1, <1>5, LosingKeeps DEF HeartbeatTimeout, vars
  <1>6. QED  BY <1>2, <1>3, <1>4, <1>5 DEF LoopStep

LEMMA ProgramStep == ProgramInv /\ [ProgramNext]_programVars => ProgramInv'
  <1> SUFFICES ASSUME ProgramInv, [ProgramNext]_programVars PROVE ProgramInv'
    OBVIOUS
  <1> USE DEF ProgramInv
  <1>1. CASE LoopStep
    <2>1. [Next]_vars
      BY <1>1 DEF LoopStep, LoopGoes, LinkOpens, LinkEnds, HeartbeatTimeout, Next
    <2>2. QED  BY <1>1, <2>1, StepKeepsOne, LoopStepKeeps
  <1>2. CASE ServerStarts
    <2>1. UNCHANGED <<vars, connectionState, connections, at, conn, peer, proto, via, remote,
                      pending, up, down, told, httpVars, socksVars>> /\ running' = TRUE
      BY <1>2 DEF ServerStarts, Listen
    <2>2. LoopInv'
      BY <2>1, StepKeepsOne
    <2>3. HandlersInv' /\ SocksTypeOK'
      BY <2>1 DEF HandlersInv, HandlersTyped, LocalTypeOK, HttpTypeOK, TargetComesLast, httpVars,
                  SocksTypeOK, socksVars
    <2>4. PlacesInv' /\ LinksInv'
      BY <2>1 DEF PlacesInv, PipesComeLast, OverLeavesNothing, LinksInv, BelievesRightly,
                  MadeIsBelieved, OpenHasEntry, EntriesInUse, CallsComeFirst, HasLink, vars
    <2>5. QED  BY <2>2, <2>3, <2>4
  <1>3. CASE ServerFails
    <2>1. Shutdown /\ UNCHANGED <<connectionState, localVars, httpVars, socksVars>>
      BY <1>3 DEF ServerFails, Shutdown
    <2>2. LoopInv'
      BY <2>1, StepKeepsOne DEF Next
    <2>3. HandlersInv' /\ SocksTypeOK' /\ LinksInv'
      BY <2>1, HandlersStay DEF Shutdown
    <2>4. PlacesInv'
      BY <2>1 DEF Shutdown, PlacesInv, PipesComeLast, OverLeavesNothing, localVars
    <2>5. QED  BY <2>2, <2>3, <2>4
  <1>4. CASE ProgramEnds
    <2>1. Shutdown /\ StopServer /\ UNCHANGED <<connectionState, httpVars, socksVars>>
      BY <1>4 DEF ProgramEnds
    <2>2. LoopInv'
      BY <2>1, StepKeepsOne DEF Next
    <2>3. HandlersInv' /\ SocksTypeOK'
      BY <2>1 DEF StopServer, HandlersInv, HandlersTyped, LocalTypeOK, HttpTypeOK,
                  TargetComesLast, httpVars, SocksTypeOK, socksVars
    <2>4. PlacesInv'
      BY <2>1 DEF Shutdown, StopServer, PlacesInv, PipesComeLast, OverLeavesNothing,
                  HandlersInv, HandlersTyped, LocalTypeOK
    <2>5. LinksInv'
      BY <2>1 DEF Shutdown, StopServer, LinksInv, BelievesRightly, MadeIsBelieved, OpenHasEntry,
                  EntriesInUse, CallsComeFirst, HasLink
    <2>6. QED  BY <2>2, <2>3, <2>4, <2>5
  <1>5. ASSUME NEW c \in Conns, LocalStep(c)
        PROVE  ProgramInv'
    <2>1. UNCHANGED vars
      BY <1>5 DEF LocalStep
    <2>2. LoopInv'
      BY <2>1, StepKeepsOne
    <2>3. QED  BY <1>5, <2>2, LocalKeeps, LocalLinked, LocalPlaces, SocksTyped
  <1>6. CASE UNCHANGED programVars
    <2>1. UNCHANGED <<vars, connectionState, localVars, httpVars, socksVars>>
      BY <1>6 DEF programVars
    <2>2. LoopInv'
      BY <2>1, StepKeepsOne
    <2>3. QED  BY <2>1, <2>2, HandlersStay DEF vars
  <1>7. QED  BY <1>1, <1>2, <1>3, <1>4, <1>5, <1>6 DEF ProgramNext

LEMMA ProgramIsKept == ProgramSpec => []ProgramInv
  BY ProgramStarts, ProgramStep, PTL DEF ProgramSpec

\* Whatever timers the loop has left of earlier attempts, and however often ProxyClient
\* gives up a link that is still there: the end of a link reaches every open stream of a
\* local program, but for those that were reaped or opened after the heartbeat timeout.
THEOREM TunnelsHaveLinks == ProgramSpec => []StreamsHaveLinks
  <1>1. ProgramInv => StreamsHaveLinks
    BY DEF ProgramInv, LinksInv, BelievesRightly, MadeIsBelieved, OpenHasEntry, StreamsHaveLinks,
           HandlersInv, HandlersTyped, LocalTypeOK, Held
  <1>2. QED  BY <1>1, ProgramIsKept, PTL

\* The types of the whole program, the limits on the tables of its relays among them.
THEOREM ProgramTypes == ProgramSpec => []ProgramTypeOK
  <1>1. ProgramInv => ProgramTypeOK
    BY DEF ProgramInv, LoopInv, HandlersInv, HandlersTyped, LinksInv, BelievesRightly,
           ProgramTypeOK
  <1>2. QED  BY <1>1, ProgramIsKept, PTL

\* However a handler ends, it gives back its place and closes its connection, and a
\* tunnel that was set up has let go of its target (server.ts:59).
THEOREM HandlersLeaveNothing == ProgramSpec => []OverLeavesNothing
  <1>1. ProgramInv => OverLeavesNothing
    BY DEF ProgramInv, PlacesInv
  <1>2. QED  BY <1>1, ProgramIsKept, PTL

-----------------------------------------------------------------------------
(* What is said into a tunnel                                              *)

\* A handler that has pipes says nothing more to the program.
LEMMA LocalIsClean ==
    ASSUME HandlersInv, PlacesInv, NEW c \in Conns, LocalStep(c), NEW d \in Conns,
           up[d] # "none"
    PROVE  told'[d] = told[d]
  <1> USE DEF HandlersInv, HandlersTyped, LocalTypeOK, PlacesInv, PipesComeLast,
              localVars, Goes, Tells, Forgets, Over
  <1>1. at[d] \in {"piping", "over"}
    OBVIOUS
  <1>2. CASE Accept(c)
    BY <1>1, <1>2 DEF Accept
  <1>3. CASE PeekFails(c)
    BY <1>1, <1>3 DEF PeekFails
  <1>4. CASE PeerEnds(c)
    BY <1>1, <1>4 DEF PeerEnds
  <1>5. CASE RemoteEnds(c, Connected)
    BY <1>1, <1>5 DEF RemoteEnds
  <1>6. CASE Decide(c, Entry)
    BY <1>1, <1>6 DEF Decide
  <1>7. CASE Dialled(c, Connected)
    BY <1>1, <1>7 DEF Dialled, Within
  <1>8. CASE DialFails(c)
    BY <1>1, <1>8 DEF DialFails
  <1>9. CASE Announce(c)
    BY <1>1, <1>9 DEF Announce
  <1>10. CASE AnnounceFails(c)
    BY <1>1, <1>10 DEF AnnounceFails
  <1>11. CASE UpEnds(c)
    BY <1>1, <1>11 DEF UpEnds
  <1>12. CASE UpReadFails(c)
    BY <1>1, <1>12 DEF UpReadFails
  <1>13. CASE UpWriteFails(c)
    BY <1>1, <1>13 DEF UpWriteFails
  <1>14. CASE DownEnds(c)
    BY <1>1, <1>14 DEF DownEnds
  <1>15. CASE DownReadFails(c)
    BY <1>1, <1>15 DEF DownReadFails
  <1>16. CASE DownWriteFails(c)
    BY <1>1, <1>16 DEF DownWriteFails
  <1>17. CASE PipesOver(c)
    BY <1>1, <1>17 DEF PipesOver
  <1>18. CASE HttpStarts(c)
    BY <1>1, <1>18 DEF HttpStarts
  <1>19. CASE PlainRequest(c)
    BY <1>1, <1>19 DEF PlainRequest, MayFeed, Asks
  <1>20. CASE TunnelRequest(c)
    BY <1>1, <1>20 DEF TunnelRequest, MayFeed, Asks
  <1>21. CASE ReadingEnds(c)
    BY <1>1, <1>21 DEF ReadingEnds
  <1>22. CASE FeedingEnds(c)
    BY <1>1, <1>22 DEF FeedingEnds
  <1>23. CASE Fetched(c, Connected)
    BY <1>1, <1>23 DEF Fetched, Within
  <1>24. CASE FetchFails(c)
    BY <1>1, <1>24 DEF FetchFails
  <1>25. CASE Answered(c)
    BY <1>1, <1>25 DEF Answered
  <1>26. CASE AnswerFails(c)
    BY <1>1, <1>26 DEF AnswerFails
  <1>27. CASE SocksStarts(c)
    BY <1>1, <1>27 DEF SocksStarts
  <1>28. CASE ReadMethods(c)
    BY <1>1, <1>28 DEF ReadMethods
  <1>29. CASE AnswerGreeting(c)
    BY <1>1, <1>29 DEF AnswerGreeting
  <1>30. CASE ReadRequest(c)
    BY <1>1, <1>30 DEF ReadRequest
  <1>31. CASE SocksFails(c)
    BY <1>1, <1>31 DEF SocksFails
  <1>32. CASE Datagram(c)
    BY <1>1, <1>32 DEF Datagram
  <1>33. CASE DatagramSent(c)
    BY <1>1, <1>33 DEF DatagramSent
  <1>34. CASE RelayEnds(c)
    BY <1>1, <1>34 DEF RelayEnds
  <1>35. CASE Sweep(c)
    BY <1>1, <1>35 DEF Sweep
  <1>36. CASE Reap(c)
    BY <1>1, <1>36 DEF Reap
  <1>37. QED
    BY <1>2, <1>3, <1>4, <1>5, <1>6, <1>7, <1>8, <1>9, <1>10, <1>11, <1>12,
       <1>13, <1>14, <1>15, <1>16, <1>17, <1>18, <1>19, <1>20, <1>21, <1>22,
       <1>23, <1>24, <1>25, <1>26, <1>27, <1>28, <1>29, <1>30, <1>31, <1>32,
       <1>33, <1>34, <1>35, <1>36
       DEF LocalStep, PipeStep, PipeEnds, HttpStep, SocksStep

\* Once a tunnel has been announced to the program, nothing but what its target says
\* reaches the program: no error answer gets into it.
THEOREM TunnelsAreClean == ProgramSpec => TunnelIsClean
  <1>1. ProgramInv /\ [ProgramNext]_programVars
          => [\A c \in Conns : up[c] # "none" => told'[c] = told[c]]_programVars
    <2> SUFFICES ASSUME ProgramInv, ProgramNext, NEW d \in Conns, up[d] # "none"
                 PROVE  told'[d] = told[d]
      OBVIOUS
    <2>1. ASSUME NEW c \in Conns, LocalStep(c)
          PROVE  told'[d] = told[d]
      BY <2>1, LocalIsClean DEF ProgramInv
    <2>2. CASE LoopStep \/ ServerStarts \/ ServerFails \/ ProgramEnds
      BY <2>2 DEF LoopStep, LoopGoes, LinkOpens, LinkEnds, HeartbeatTimeout, BreakTunnels,
                  OutliveLink, ServerStarts, Listen, ServerFails, ProgramEnds,
                  StopServer, localVars
    <2>3. QED  BY <2>1, <2>2 DEF ProgramNext
  <1>2. QED  BY <1>1, ProgramIsKept, PTL DEF ProgramSpec, TunnelIsClean
=============================================================================
