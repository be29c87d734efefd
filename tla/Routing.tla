------------------------------- MODULE Routing -------------------------------
(***************************************************************************)
(* The choice between the tunnel and a direct connection: shouldProxy() of *)
(* client/proxy-decision.ts, isChinaIP() of client/geoip.ts, and the two   *)
(* caches of utils/lru-cache.ts they keep.  A Map remembers the order in   *)
(* which its keys were set, so that a cache is the sequence of its entries.*)
(*                                                                         *)
(* There is a GeoIP database here; without one, everything that is not     *)
(* private takes the tunnel.                                               *)
(***************************************************************************)
EXTENDS Naturals, SequencesExt

CONSTANTS
    Hosts,          \* names that are not private
    Addresses,      \* IP addresses
    China,          \* those the database places in China
    Callers,        \* handlers that wait for a decision
    TTL,            \* DNS_CACHE_TTL
    MaxNames,       \* MAX_DNS_CACHE_SIZE
    MaxPlaces,      \* GEOIP_CACHE_SIZE
    MaxClock        \* bound: length of a run

ASSUME RoutingAssumption ==
    /\ China \subseteq Addresses
    /\ TTL \in Nat
    /\ MaxNames \in Nat \ {0}
    /\ MaxPlaces \in Nat \ {0}
    /\ MaxClock \in Nat

VARIABLES
    clock,
    names,      \* dnsCache, a TTLCache: [host, ips, made, expires]; made is history
    places,     \* cache of GeoIPManager, an LRUCache: [ip, inChina]
    asking,     \* asking[c]: the host for which caller c awaits resolveDns
    route,      \* the last decision: [direct, ips, made]
    seen        \* history: all addresses looked up, by their last use

routingVars == <<clock, names, places, asking, route, seen>>

Nobody == "nobody"
Undecided == [direct |-> FALSE, ips |-> <<>>, made |-> 0]

RoutingInit ==
    /\ clock = 0
    /\ names = <<>>
    /\ places = <<>>
    /\ asking = [c \in Callers |-> Nobody]
    /\ route = Undecided
    /\ seen = <<>>

-----------------------------------------------------------------------------
(* The caches                                                              *)

\* Map.delete of the entry at one of the places ks, if there is one.
Without(cache, ks) == IF ks = {} THEN cache ELSE RemoveAt(cache, CHOOSE k \in ks : TRUE)

\* Where the answers for a host are, the place of an address, and its last use.
\* There is one of each at most.
NamesOf(host) == {k \in DOMAIN names : names[k].host = host}
PlacesOf(cache, ip) == {k \in DOMAIN cache : cache[k].ip = ip}
UsesOf(uses, ip) == {k \in DOMAIN uses : uses[k] = ip}

\* What must go before an entry can be set in a cache of at most max.
MakeRoom(cache, max) == IF Len(cache) >= max THEN Tail(cache) ELSE cache

\* Mutation: an entry that is used keeps its place.
Used_InPlace(cache, k) == cache

\* get() of an entry that is there, and may be used: it moves to the end.
Used(cache, k) == Append(RemoveAt(cache, k), cache[k])

\* Mutation: a cached answer is good for another TTL.
Kept_Longer(e) == [e EXCEPT !.expires = clock + TTL]

\* What get() of the TTLCache puts back.
Kept(e) == e

-----------------------------------------------------------------------------
(* isChinaIP(ip): from the cache, or from the database, whose errors are   *)
(* cached as a no.  A state is the cache, the uses, and whether an address *)
(* in China was found; checkIPsShouldProxy() stops at the first.           *)

FromCache(state, ip, k) ==
    [places |-> Used(state.places, k),
     seen |-> Append(Without(state.seen, UsesOf(state.seen, ip)), ip),
     direct |-> state.places[k].inChina]

FromDatabase(state, ip, inChina) ==
    [places |-> Append(MakeRoom(state.places, MaxPlaces), [ip |-> ip, inChina |-> inChina]),
     seen |-> Append(Without(state.seen, UsesOf(state.seen, ip)), ip),
     direct |-> inChina]

LookUp(state, ip, failing) ==
    LET ks == PlacesOf(state.places, ip) IN
    IF ks # {} THEN FromCache(state, ip, CHOOSE k \in ks : TRUE)
               ELSE FromDatabase(state, ip, ip \in China \ failing)

\* checkIPsShouldProxy(ips) of one address or two.
Check(ips, failing) ==
    LET one == LookUp([places |-> places, seen |-> seen, direct |-> FALSE], ips[1], failing) IN
    IF one.direct \/ Len(ips) = 1 THEN one ELSE LookUp(one, ips[2], failing)

\* The decision on a host with these addresses, known since `made`.
Decides(ips, made) ==
    \E failing \in SUBSET China :
        LET result == Check(ips, failing) IN
        /\ places' = result.places
        /\ seen' = result.seen
        /\ route' = [direct |-> result.direct, ips |-> ips, made |-> made]

\* A failure of any kind takes the tunnel.
TakesTunnel ==
    /\ route' = Undecided
    /\ UNCHANGED <<places, seen>>

-----------------------------------------------------------------------------
(* shouldProxy(host)                                                       *)

\* An address needs no query.
RouteAddress ==
    /\ \E ip \in Addresses : Decides(<<ip>>, clock)
    /\ UNCHANGED <<clock, names, asking>>

\* The answer is in the cache and has not expired.
RouteCached ==
    \E k \in DOMAIN names :
        /\ clock <= names[k].expires
        /\ names' = Append(RemoveAt(names, k), Kept(names[k]))
        /\ Decides(names[k].ips, names[k].made)
        /\ UNCHANGED <<clock, asking>>

\* It is not; one that has expired is dropped.
StartQuery(c) ==
    \E h \in Hosts :
        /\ asking[c] = Nobody
        /\ \A k \in NamesOf(h) : clock > names[k].expires
        /\ names' = Without(names, NamesOf(h))
        /\ asking' = [asking EXCEPT ![c] = h]
        /\ UNCHANGED <<clock, places, route, seen>>

\* Answers have one address or two.
Pairs == {<<a, b>> : a, b \in Addresses}
Answered == [host : Hosts, ips : {<<a>> : a \in Addresses} \cup Pairs]

\* resolveDns wins the race; meanwhile another caller may have set the answer.
QueryAnswered(c) ==
    \E ans \in Answered :
        /\ asking[c] = ans.host
        /\ asking' = [asking EXCEPT ![c] = Nobody]
        /\ names' = Append(MakeRoom(Without(names, NamesOf(ans.host)), MaxNames),
                           [host |-> ans.host, ips |-> ans.ips, made |-> clock,
                            expires |-> clock + TTL])
        /\ Decides(ans.ips, clock)
        /\ UNCHANGED clock

\* It fails, is empty, or loses against DNS_TIMEOUT: nothing is cached.
QueryFails(c) ==
    /\ asking[c] # Nobody
    /\ asking' = [asking EXCEPT ![c] = Nobody]
    /\ TakesTunnel
    /\ UNCHANGED <<clock, names>>

\* cleanup() of the TTLCache: what has expired goes, the others keep their order.
DropExpired ==
    LET live == {k \in DOMAIN names : clock <= names[k].expires} IN
    \E at \in [1 .. Cardinality(live) -> live] :
        /\ \A i, j \in DOMAIN at : i < j => at[i] < at[j]
        /\ names' = [i \in DOMAIN at |-> names[at[i]]]
        /\ UNCHANGED <<clock, places, asking, route, seen>>

ClockTicks ==
    /\ clock < MaxClock
    /\ clock' = clock + 1
    /\ route' = Undecided
    /\ UNCHANGED <<names, places, asking, seen>>

RoutingNext ==
    \/ RouteAddress \/ RouteCached \/ DropExpired \/ ClockTicks
    \/ \E c \in Callers : StartQuery(c) \/ QueryAnswered(c) \/ QueryFails(c)

RoutingSpec == RoutingInit /\ [][RoutingNext]_routingVars

-----------------------------------------------------------------------------
(* Properties                                                              *)

\* A host is connected to directly only if an answer that is no older than
\* DNS_CACHE_TTL names an address in China: neither a cache nor a failure ever
\* takes traffic out of the tunnel by mistake (proxy-decision.ts:58, geoip.ts:73).
DirectIsJustified ==
    route.direct =>
        /\ \E k \in DOMAIN route.ips : route.ips[k] \in China
        /\ clock <= route.made + TTL

\* The cache of places holds the addresses used last, as many as it may, and
\* loses the one that was used longest ago (lru-cache.ts:20, 35).
HoldsTheLatest ==
    LET size == IF Len(seen) < MaxPlaces THEN Len(seen) ELSE MaxPlaces IN
    [k \in DOMAIN places |-> places[k].ip] = SubSeq(seen, Len(seen) - size + 1, Len(seen))
=============================================================================
