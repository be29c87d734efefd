# denoproxy: TLA+ models, checks and proofs

denoproxy tunnels TCP, UDP, DNS and HTTP through one WebSocket between a client
(a local HTTP and SOCKS5 proxy) and a server that talks to the targets. This
directory models what the two ends do to each other, checks it with TLC on small
instances, and proves part of it for every instance with TLAPS.

Paths below are relative to `src/`.

## 1. Inventory

| Part | State | Operations | Interacts with |
|---|---|---|---|
| Wire: `core/protocol.ts`, `core/codec.ts` | none; a frame is type, resource id, payload | encode, decode | both ends |
| `ProxyClient`, `TCPStream`: `core/client.ts` | `nextId`, `pending` map (promise, stream controller, `createdAt`), `messageQueue`, `connectionState`, `isClosed`, heartbeat timers, reaper interval | `connectTCP`, `queryDNS`, `fetch`, `assign`, `close`; handlers for messages, WebSocket close and error; timers for requests, heartbeat, reaper | WebSocket, local proxies, `client/main.ts` |
| `TCPProxy`: `core/protocol/tcp.ts` | `connections` map | `handleConnect`, `handleData`, `close`, `closeAll`, the pipe loop of each connection | its transport, `Deno.connect`, sockets |
| `UDPProxy`, `DNSProxy`, `HTTPProxy`: `core/protocol/*.ts` | sockets; pending queries with timers; abort controllers and body controllers | one handler per message type, `closeAll`/`abortAll` | their transport |
| `ProxyTransport`: `core/transport.ts` | `messageQueue`, `connectionState`, `isClosed`, heartbeat and reconnect timers | `assign`, `send`, dispatch, `handleDisconnect`, `close` | the four proxies, `ConnectionManager` by events |
| `ConnectionManager`: `server/manager.ts` | id to transport, `lastActivity` | `register`, `reconnect`, `unregister`, idle cleanup, `close` | transports, the upgrade handler of `server/main.ts` |
| Client loop: `client/main.ts` | `ws`, `reconnectAttempts`, `reconnectTimeout`, `isShuttingDown` | `connect`, `scheduleReconnect`, `cleanup` | `ProxyClient` |
| Local proxies: `client/http.ts`, `client/socks5.ts`, `client/server.ts` | one task per local connection | CONNECT, forwarding, keep-alive, UDP associate | `ProxyClient`, `ProxyDecision` |
| Command channel: `core/command.ts` | the registered commands | text commands and their replies, as text frames of the same WebSocket | both ends |
| Routing: `client/proxy-decision.ts`, `client/geoip.ts`, `utils/lru-cache.ts` | a cache of DNS answers, a cache of places | `shouldProxy`, `isChinaIP`, `get`, `set`, `cleanup` | local proxies |
| Rate limit: `server/middleware.ts`, `utils/rate-limiter.ts` | one token bucket per address | `isAllowed`, refill, eviction, cleanup | the upgrade handler |
| Other utilities: pools, adaptive heartbeat, bjson, auth, metrics, logs | their maps and counters | as named | mostly none |

Everything is single-threaded; steps interleave at every `await`, callback and
timer, and between the two processes. What is hard:

- The two ends learn of a failure at different times; what was sent in between
  is lost. Reconnection gives a fresh transport, while ids, streams and queued
  messages of the old session still exist on the client.
- One promise is settled by whichever comes first of ACK, ERROR, timer,
  disconnect, reaper and `close()`. The promise, its timer, its `pending` entry
  and its stream are four things that have to agree.
- `pipeToWebSocket` and `handleConnect` use, after an `await`, what `close()` or
  the end of the transport may have taken away during it.
- Nothing acknowledges a `TCP_CLOSE`. Either end may drop it (unknown id, closed
  transport, full queue) and the other must still come to rest.

- A DNS timeout cannot stop the lookup, nor an abort the code that awaits the fetch;
  both answer again, or find their entry gone.
- A local connection is read by its handler, by the loop that feeds a request body and
  by a pipe. The loop is meant to be alone and is not: a pipelined request or a WebSocket
  upgrade with a body starts it beside the other two. A tunnel has two pipes that end
  separately.
- `ProxyClient` and the connection loop hear of the same WebSocket and may disagree
  whether it lives: a heartbeat timeout is a disconnect to the first only.

What makes each part correct: streams deliver in order and end for a reason
(`ProxyClient`, `TCPProxy`); every call settles; neither side keeps a resource for
nobody (transport, manager); a transport with a live client is kept, one without
is closed (manager); one reconnection at a time (client loop); both directions of
a local tunnel end (local proxies); caches stay within their bounds (utilities).

`PROJECT.json` lists the components with their status, and all hazards at their
lines with the properties that watch them.

## 2. Modules

| Module | What it is |
|---|---|
| `Wire` | The constants, the messages, and a WebSocket per session as one queue each way, each end with its own `readyState` |
| `ProxyClient` | `core/client.ts`: the pending map, its timers, the queue, the end of the link, and `connectTCP` |
| `Transport` | `core/transport.ts` as its proxies see it: send, receive, disconnect, close |
| `TCPProxy` | `core/protocol/tcp.ts` |
| `Tunnel` | TCP calls: `ProxyClient` and `TCPProxy` joined by `Wire`; fairness; the properties; the refinement mapping to `Streams` |
| `Streams` | The abstract specification: what a caller is promised of a call and of its stream |
| `TunnelInvariant` | The inductive invariants the proofs need, checkable by TLC |
| `TunnelProofs` | Theorems on types, timers and entries, that a call lives in one session, and on the order of delivery to the caller |
| `TunnelNewsProofs` | Theorems on what each end tells the other, and on clean ends |
| `TunnelStreamProofs` | Theorems on the order of delivery to the target, and that the tunnel implements `Streams` |
| `RequestMessages` | The messages of DNS, HTTP and UDP |
| `Requests` | `queryDNS` and `fetchHTTP` on top of `ProxyClient`, and a driver of UDP sockets |
| `DNSProxy`, `HTTPProxy`, `UDPProxy` | `core/protocol/dns.ts`, `http-proxy.ts`, `udp.ts` |
| `Exchanges` | `Requests` and the three proxies joined by `Wire`; a second implementation of `Streams` |
| `MCExchanges`, `MCRegistry` | `Exchanges` and `Registry` with less data, for TLC |
| `ExchangesInvariant` | The inductive invariants of `Exchanges`, checkable by TLC |
| `ExchangesProofs` | Theorems on types and timers, and that the proxies hold what is in progress |
| `ExchangesStreamProofs` | Theorems on who is served, on order in both directions, on ends, and that a fetch implements `Streams` |
| `Registry` | `ConnectionManager`, the upgrade in `server/main.ts`, and the life of its transports: sockets, listeners, timers, queue, reconnection by id |
| `RegistryProofs` | Theorems on the registry, the listeners, the timers and the order of sending |
| `Lifecycle` | The connection loop of `client/main.ts` |
| `LocalServer` | `client/server.ts`, and the route, the connect and the two pipes its handlers share |
| `HttpHandler`, `SocksHandler` | `client/http.ts`, `client/socks5.ts` |
| `ClientProgram` | `Lifecycle`, the state of `ProxyClient` and the local server: what the end of a link, or a heartbeat timeout, does to the streams of local programs |
| `ClientProgramProofs` | Theorems on the loop, and on what the handlers of local connections hold, write and leave |
| `Limits` | The limit on upgrades per address |
| `Routing` | The choice of a route and its two caches |
| `Commands` | The text frames between a transport and its client |
| `Parts` | The last three in one run, each explored by itself |
| `PartsProofs` | Theorems on the limit, on the routes and their caches, and that frames do not multiply |

How they compose:

    Wire - ProxyClient - Requests ------------------.
      \          \                                   Exchanges -> Streams
       Transport  \         DNS-, HTTP-, UDPProxy --'
            \      Tunnel -> Streams
             TCPProxy

    Lifecycle, LocalServer - HttpHandler, SocksHandler : ClientProgram
    Registry                        Limits, Routing, Commands : Parts

`Tunnel` and `Exchanges` do not use `Registry`: the client never names a transport, so
to the tunnel a transport is one that may be closed at any time. Other clients of the
server may name one, which is what `Registry` is about. `ClientProgram` sees of the
tunnel the state of `ProxyClient` and the entry each call has in its pending map: a call
may be answered while its WebSocket is there, a disconnect breaks the streams that have
an entry, and a heartbeat timeout, which leaves the WebSocket open, or the reaper keeps
a later disconnect from doing so. What happens on the link itself is `Tunnel`'s.

How state corresponds to code:

- A *session* is one WebSocket with the `ProxyTransport` made for it in
  `handleOpen` (`server/main.ts:559`). The client opens `args.remote` as it is, so
  it never names an earlier transport (`client/main.ts:95`).
- `pending`, `timer`, `call` and `reader` are the map entry, the `setTimeout` of
  `request()`, the promise of `connectTCP` and the `ReadableStream`. `rcvd` is what
  was enqueued in it.
- `task[s][id]` is where the code of one connection stands on the server:
  `connecting` is the `await` of the race, `reading` the `await` of `conn.read`,
  `holding` between the read's resolution and the send. `abandoned` and `leaked` are
  a connect that lost the race against its timer.
- `home[id]` is a history variable: the session a call was made in. The code does
  not record it; no guard reads it.
- A chunk is its position in its stream, so order, gaps and repetitions show.
- In `Exchanges`, `queries`, `requests`, `bodies` and `sockets` are the maps of the
  proxies; `lookups` the awaited `Deno.resolveDns`; `stage` and `loop` where
  `handleRequest` and `receiveLoop` stand. A request is settled by the same
  `pending` entry as a TCP call, and the body of a response is a stream like that of
  `connectTCP`. A body that exceeds `MAX_RESPONSE_SIZE` is cut at any chunk.
- In `ClientProgram`, `at[c]` is the `await` at which the handler of a local connection
  stands, `up[c]` and `down[c]` its two pipes, `feeding` the connections with a loop that
  feeds a request body (of this request or of one pipelined behind it). `pending[c]` is
  the entry of its call in `ProxyClient`: `made` while `connectionState` was
  `connected`, `late` on the same WebSocket after a heartbeat timeout, `stale` once that
  WebSocket has ended without a disconnect, `reaped` when the reaper took it from an open
  stream. The code keeps one kind of entry; the difference is what can still reach the
  stream. A disconnect breaks whatever has one. `table[c]` holds the sessions of a UDP relay in the order of the map. The bytes of a
  SOCKS5 greeting are counted, because `readExact` loses some of them.
- In `Limits`, `tokens` and `lastRefill` are the fields of a bucket, `lastUsed` that of
  its entry; time is any unit, and `RateNum / RateDen` the tokens it earns. `granted`,
  `fresh`, `lastGrant` and `refused` are history.
- In `Routing` a cache is the sequence of its entries, since a `Map` remembers the order
  in which its keys were set. `made` is when an answer came, and `seen` the order of all
  lookups; both are history.
- In `Commands` there is one queue of text frames per WebSocket and direction, and each
  end answers on the WebSocket it has now.
- In `Registry` the id of a transport is its position in the order of their making.
  `listening` holds which transport has its listeners on which socket; `timers[t]`
  the armed timers, where `stray` is a reconnect timer whose handle has been
  overwritten, so that nothing can clear it; `stale` the entries with an old
  `lastActivity`; `silent` the open sockets whose client is gone. `passed[t]` is what
  was given to `ws.send`.
- In `Lifecycle` a socket is one attempt to connect, and `ws` the variable that all
  callbacks share. The name of a socket is used again once neither it nor its connect
  timer is left, so the loop is not cut off by a bound.

Each action is a whole handler: `Reap` also sends the closes, `NoHandler` the
`TCP_CLOSE` that answers stray data, `CloseTransport` also closes all connections
(whose own messages are dropped because `isClosed` is already set).
`HandleConnect` stops at its first `await`; `ConnectOk`, `ConnectFail` and
`ConnectTimeout` are what follows it. `CloseTransport` of `Exchanges` aborts the fetches
and closes the UDP sockets, and leaves the DNS queries to their timers.

Abstractions: hosts, ports and payloads; the heartbeat messages (a timeout may
happen to either end at any time in a connected session); a call refused at
once (no state changes); the order of
events within one WebSocket failure, where `error` and `close` come in a row and
the second finds nothing to do; `conn.write` takes a chunk whole. A timer may fire at
any time while it is armed, with one exception: the reaper takes entries of more
than 120 s, and a request timer fires after 30 s, so no entry it takes has its timer
armed.

In `Registry` an error event is followed by the close event of the same socket in one
go, so `SocketCloses` runs `handleDisconnect` once or twice; several stray timers are
as good as one, because the first that fires closes for good. `Lifecycle` leaves out
how long the delays are, and `Shutdown` is the end, since `cleanup` exits the process.
What a local program asks for is chosen, not parsed. `ProxyClient` has no operation that
binds a UDP socket, so in `Exchanges` a client of another make drives `UDPProxy`. How
many of the oldest buckets a cleanup of `Limits` takes is left open.

`X_Suffix` definitions are mutations: a plausible bug in `X`, used to see that a
property would notice it, and by nothing else.

## 3. What is checked

| Run | Instance | Shows |
|---|---|---|
| `tunnel_stream` | 1 TCP call, 2 sessions, 2 chunks each way, queue of 1, 1 pending | `TypeOK`; entries and readers agree; downloads and uploads are in order and stay in their session, also when the writer goes on while disconnected; a clean end is complete unless the connection was cut short; the end of a connection is announced to the client and the loss of interest to the server; the tunnel implements `Streams` |
| `tunnel_live` | 2 TCP calls, 1 session, no data, queue of 1, 2 pending, under `FairSpec` | a waiting call has its timer, and, while the link lives, a message or a connect that will answer it; calls settle, readers learn that their connection is gone, abandoned transports close |
| `tunnel_reaper` | 1 TCP call, 1 session, no data | **violated**: the reaper takes the entry of a stream both ends use, and leaves its reader open |
| `tunnel_closed` | 1 TCP call, 1 session, no data | **violated**: a connect in flight while its transport closes leaves a connection in the closed transport |
| `exchanges` | 1 DNS query, HTTP request or UDP socket, 2 sessions, 2 chunks one way or 1 each way (1 in the last session), 2 datagrams, queue of 1, under `MCSpec`, which is `FairSpec` with that bound | `TypeOK`; a waiting call has its timer and something that will answer it; bodies and datagrams arrive in order and without gaps in the session of their call, and a request body that was ended is complete; the maps of the proxies hold what is in progress and nothing else; the end of a UDP socket is announced once; exchanges implement `Streams`; nobody is left hanging |
| `registry` | 3 transports, 3 sockets, limit of 2, 2 messages of the first transport, queue of 2, under `MCSpec`, which is `FairSpec` with that bound | the registry holds exactly the live transports and never more than its limit, although three upgrades may pass the check before any registers; a transport listens to its own socket only, and always has the timer that ends it; what it sends keeps its order over several sockets and through its queue, and is sent once; the place of a client that is gone is given back |
| `registry_stray` | 1 transport, 2 sockets | **violated**: an overwritten reconnect timer closes a transport whose client has come back |
| `registry_cleanup` | 1 transport, 1 socket | **violated**: the cleanup of idle connections closes one that is connected |
| `client` | 3 sockets, 3 attempts, 1 local connection, greetings of up to 2 methods, relay table of 2 for 3 senders, under `ProgramFairSpec` | `ProgramTypeOK`; the loop has exactly one way to go on, and gets connected again or gives up; an open stream of a local program is one the end of the present link will reach, unless it was reaped or opened after a heartbeat timeout; a handler that is over has left nothing open; no error answer gets into a tunnel; what has a timeout does not take for ever |
| `client_socks` | 1 socket, 1 local connection, 1 method | **violated**: a greeting that arrives in one piece loses its methods |
| `lifecycle_timer` | 2 sockets, 2 attempts | **violated**: the connect timer of a failed attempt closes a later connection |
| `parts` | 3 addresses, 2 buckets of 2 tokens, an interval of 2, 4 units of time; 2 hosts, 3 addresses, 1 in China, caches of 1 and 2; 3 sockets | nobody is granted more than buckets and time pay for, nor starved by asking too often; a host is connected to directly only if a fresh answer places it in China; the cache of places keeps what was used last; text frames do not multiply over reconnections |

Bounds. Two sessions are enough for everything that crosses a reconnection: stale
ids, queued messages, an old transport that is still alive. Two chunks show a gap,
a repetition and a swap, and let one chunk be held while another is in flight; a
queue of one overflows with the second message. Two calls share a link, the queue,
the reaper and a disconnect; calls do not share anything else, which for TCP is what
`CallsStayHome` states and proves without bounds. Exchanges share the client's maps in
the same way and are explored one at a time, each kind by itself. `MCExchanges` bounds
their data: two chunks in one direction, or one in each. A call of the last session moves
one, since it meets nothing of the sessions before and no reconnection after it, so that
it does nothing a call of the first session does not do. `MaxCalls` keeps ids below
`RESOURCE_ID_MAX`, so their wrap-around is not modelled.

Three sockets let a client come back twice, once while its previous socket still looks
open, and lose its place to another; three of them may be upgraded for two places before
the first transport is registered, and there is a third transport that could exceed the
limit. A queue of two shows messages out of order. Queues of different transports do not meet,
so in `MCRegistry` only the first transport is given messages.
Three attempts leave two timers of failed ones for the third. Local connections share
nothing but the link and the route, so that one stands for all.

In `parts` a third address finds the buckets full, an interval can be exceeded by half,
so that a fraction of a token is lost, and the bucket of an address can be made twice.
The second host takes the only place for answers, an answer expires within the run, and
the third address takes a place from the one used longest ago. Addresses, hosts and
callers of which no definition tells one from another are symmetric; the run has
invariants only.

Deadlock is not checked: the client may be closed or have exited, a local program may
stop asking, and the bounds may be used up.

Fairness (`FairSpec`): the event loop runs handlers of delivered messages, expired
timers and resumed loops; a connect is bounded by `CONNECT_TIMEOUT`; each end of a
WebSocket notices that the other is gone. Nothing is asked of the caller, of the
target, of the network, of the reaper or of the reconnection. A connection closed
under its pipe wakes the pipe's pending read, hence the fairness of `PipeEnd` for
connections that are gone, and of no other.

In `Registry` only timers are fair, and the heartbeat timer only while the client is
out of reach: heartbeats put it off. In `Lifecycle` timers are, and the close of a
socket that is closing; that an attempt succeeds or fails by itself is not assumed,
the connect timer sees to that.

`Exchanges` has one condition for all steps the event loops and the timers must take:
the system does not stop for good while one of them is possible. That is less than
fairness to each, and enough, because each call is made once and no such step can be
repeated for ever. A lookup and a response body may take for ever there, as no timer
watches them. In `ClientProgram` a decision is made (its DNS query has a timeout), a
connect ends one way or another (`CONNECT_TIMEOUT` and `DEFAULT_TIMEOUT`, or the system,
for a direct one), a fetch through the tunnel does (its request timer), a pipe notices the
end of either side, and the keep-alive timer expires. A direct fetch has no timeout
(`client/http.ts:474`), and it may wait for ever, as may a SOCKS5 handshake, a relay, the
body of a response, and a write, which fails only when somebody has something to say.
`NothingHangs` speaks of what has a timeout and of tunnels both of whose ends are gone;
for the second it needs no write and no end of the link.

`EndReachesReader` and `ReleaseIsAnnounced` speak of sessions the client has not
declared dead by its heartbeat timeout. In one it has declared dead they do not
hold: the WebSocket stays open, and when it closes `handleDisconnect` returns at
once (`core/client.ts:114`), although the timeout says it is "closing connection"
(`core/client.ts:696`). `ClientProgram` has the same of the streams of local programs:
those opened before the timeout are broken by it, those opened after it outlive their
WebSocket (their entry is `late`, then `stale`). `StreamsHaveLinks` says that there are
no others, but for the reaped ones: every other open stream belongs to a link the client
believes in.

Nor is the loop that feeds a request body alone with its connection, as
`client/http.ts:187` says: both ways in which it gets company are in `HttpHandler`
(`MayFeed`), and no property claims that it is alone. A closed transport keeps its DNS
queries (`MapsAreClean`). These are hazards of `PROJECT.json`.

## 4. What is proved

Assumed: `WireAssumption`, the bounds are natural numbers, at least one call and
one session (`RegistryAssumption`: at least one place; `LifecycleAssumption`: at least
one socket and one attempt; `CommandsAssumption`: at least one socket;
`LocalAssumption`, `SocksAssumption`: at least one local connection, one
authentication method and one place in the table of a relay; `RoutingAssumption`: the
addresses in China are addresses, and both caches hold something;
`LimitsAssumption`: capacity, interval and rate are positive, and the rate is at least a
token per interval, as the 15 per 10 s of `server/main.ts:455` are with an interval of
1 s).

- `TypesAreCorrect`: `Spec => []TypeOK`. Inductive as it stands, with the bounds on the
  queue (`FirstOfIsBounded`) and on the pending map (`FewerPending`).
- `TimersAreRight`, `EntriesAreOpen`: `Spec => []WaitingIsTimed`, `Spec =>
  []EntryHasOpenReader`. Both are inductive relative to `TypeOK`, and proved by one
  induction (`CallsAreKept`).
- `CallsStayHome`: `Spec => []HomeInv`. A request is on its way at most once, only in
  its session, and before the server has heard of it; so the server works for a call
  in one session, and everything said about it is said there. The parts need one
  another: `WorkIsAtHome` holds because `RequestsAreFresh`, which holds because ids
  are fresh.
- `DownloadsAreInOrder`: `Spec => []DownloadInOrder`. The invariant (`ChunksInv`) has
  to speak of what is in flight: what a reader got is a prefix of what the transport
  sent; while the entry is pending, the chunks in flight continue it in order and
  without gaps, and reach the last one sent as long as the link is whole (once it is
  not, a suffix may be lost, and nothing is sent after the loss). It is inductive relative to
  `TypeOK`, `HomeInv` (or two sessions could write to one reader) and
  `EntryHasOpenReader` (or a chunk could be taken for a closed reader). `WholeOnlyEnds`
  is the reason reconnection does no harm: a session never comes back.
- `CallsAreServed`, `ClosesAreAnnounced`, `ReleasesAreAnnounced`: `Spec =>
  []WaitingIsServed`, `[]CloseIsAnnounced`, `[]ReleaseIsAnnounced`, by one induction
  (`NewsInv`). That a close is announced has to be said of an ACK still on its way as
  well (`AckedIsAnnounced`), since the connection may end before the client knows of it.
  A message that is taken must not be the one that was needed: an ERROR or a TCP_CLOSE
  on its way agrees with how far the server got (`NewsAreTrue`), and so does a caller
  who believes to be connected (`CallersAreRight`). That a message is sent at all needs
  `OpenEnds`: an open end belongs to a transport or a client that is not closed.
- `CleanEndsAreComplete`: `Spec => []CleanEndIsComplete`. Where the target has ended, no
  chunk comes after the TCP_CLOSE, and what is in flight before it reaches the last
  chunk produced (`CloseComesLast`). That it does when the TCP_CLOSE is sent is
  `ChunksInv`, which is why a pipe must not end while it holds a chunk.
- `UploadsAreInOrder`: `Spec => []UploadInOrder`. `UploadsInv` is `ChunksInv` with the
  target as the reader. What has no counterpart is the queue, which carries chunks into
  a session their call does not live in: no entry is ever there (`WorkIsAtHome`), so
  they are dropped (`WritesAreAtHome`). A connection starts with nothing on its way,
  because no one writes before there is a stream (`NothingBeforeTheStream`).
- `TunnelImplementsStreams`: `Spec => ImplementsStreams`. Each action is a step of
  `Streams` or invisible to it; the disjunct is named at its step of the proof. Beside
  the invariants above it needs that no chunk comes before the ACK of its connection
  (`AckComesFirst`), or something would be delivered to a caller who has no stream yet,
  and that an entry is never that of a failed call (`CallsHaveStreams`).
- `RegistryTypes`, and `RegistryAgrees`, `ListenersAgree`, `TransportsAreTimed`:
  `Spec => []RegistryIsExact`, `[]ListensToItsSocket`, `[]EveryTransportIsTimed`, by one
  induction on their conjunction with `SocketsInUse` (a registered transport has a
  socket that has been open, any other none). They need each other: an old socket is
  harmless because no one listens to it, a heartbeat timer expires only for a
  registered transport because closed ones have none, and closing one transport does
  not close the socket of another because no socket serves two.
- `SendsAreInOrder`: `Spec => []SentInOrder`, with the invariant that the messages passed
  and queued are all earlier than the next one made (`OrderInv`).
- `LoopGoesOn`: `Spec => []OneWayOn`, inductive with the types and with the fact that
  nothing exists before `main()` has called `connect()`.

- `LimitKept`: `LimitsSpec => []LimitIsKept`. The limit alone says nothing of what a
  bucket still holds. The invariant is an account per address (`AccountsBalance`): what
  was granted and what is left were paid for by full buckets and by the time up to the
  last refill, or up to now without a bucket. That an address is refused only within an
  interval of its last grant needs that an empty bucket was emptied after it was
  refilled (`EmptiedSince`), and that a refill that is due adds a token (`EarnedIsEarned`,
  the only use of the assumption on the rate).
- `CommandsSteady`: `CommandsSpec => []FramesDoNotMultiply`. Inductive together with: each
  end hears the socket it answers on and no other (`HearsItsOwn`), and nothing is on its
  way where no socket has been (`SilentBefore`), so that the greeting on a new socket is
  the only frame between the two.
- `RoutesAreJustified`, `PlacesAreTheLatest`: `RoutingSpec => []DirectIsJustified`,
  `[]HoldsTheLatest`, by one induction (`RoutingInv`). Each answer expires `DNS_CACHE_TTL`
  after it was given (`Dated`), so one that is still there is fresh; the cache of places
  is the end of the list of all uses, whose addresses differ (`IsTheLatest`). The lemmas
  say what a lookup from the cache and one from the database do to that list
  (`FromCacheKeeps`, `FromDatabaseKeeps`). `Routing` moves entries by their place in the
  sequence, and `Check` makes its lookups one after the other without recursion, since
  an answer of the model has one address or two.
- `ProgramTypes`, `TunnelsHaveLinks`, `HandlersLeaveNothing`: `ProgramSpec =>
  []ProgramTypeOK`, `[]StreamsHaveLinks`, `[]OverLeavesNothing`, by one induction on
  `ProgramInv`. An open stream has an entry, unless that was reaped (`OpenHasEntry`);
  `connectionState` is `connected` only while the loop has an open WebSocket
  (`BelievesRightly`), and an entry is `made` only while it is (`MadeIsBelieved`), because
  each way of becoming disconnected breaks all streams with an entry. Because the loop has
  at most one live WebSocket (`LoopInv` of `ClientProgramProofs`), a timer left of an
  earlier attempt cannot replace the link under a stream. There is no target before the
  route is known (`TargetComesLast`). There are pipes only where both connections are, and a pipe from
  the target is over only when the target is (`PipesComeLast`), so a handler that waits
  for both pipes leaves no target behind.
- `TunnelsAreClean`: `ProgramSpec => TunnelIsClean`, an action property: action by action,
  the handlers tell the program nothing (`told`) once there is a pipe. It needs
  `ProgramInv` for where a handler stands when there is one.

For queries, fetches and UDP sockets (`Exchanges`):

- `Types`, `Timed`: `Spec => []TypeOK`, `[]WaitingIsTimed`. What may be said about an id
  depends on its kind (`KindInv`): a query is never answered by a chunk, a socket has no
  entry. Without that the type of a message would say nothing of what it may settle.
- `CleanMaps`: `Spec => []MapsAreClean`, by induction on `HomeInv`. As for TCP, the work,
  the answers and the beginning of an exchange are in its session; it begins once, before
  the server has heard of it and before anything else is said (`BeginningsAreFresh`), or a
  second request would find the maps of the first. Of a closed transport it says that
  requests and sockets are gone. Its queries stay until they end, although
  `core/transport.ts:341` says "Close all proxies": `DNSProxy.abortAll` has no caller.
- `UploadsInOrder`, `UploadsAreComplete`: `Spec => []UploadInOrder`,
  `[]UploadEndIsComplete`, by induction on `UploadsAreGood`. Each fetch is treated by
  itself: an action concerns it, and then its part of the invariant is shown for that
  action, or takes things from it only, and then its part still holds (`UploadFading`).
  That an ended body is complete needs that its end is sent after all chunks, travels
  after them (`ChunksFirst`), and finds none missing (`Reaches`).
- `CallersAreServed`, `ResponsesInOrder`, `SocketEndsOnce`: `Spec => []WaitingIsServed`,
  `[]ResponseInOrder`, `[]SocketEndIsAnnounced`, by induction on `EveryoneIsServed`, one
  formula per kind (`DnsGood`, `HttpGood`, `UdpGood`). A response comes once and before
  its chunks (`ResponseFirst`), an ERROR only from a fetch that failed, and what a caller
  believes of the server is so; the end of a socket is on its way once, and only after the
  socket is gone.
- `ExchangesImplementStreams`: `Spec => ImplementsStreams`. What the server and the link
  lose does not show; each step of a fetch is named with the step of `Streams` it is; steps
  of queries and sockets are invisible, because `KindInv` keeps them from the entries of
  fetches.

Every safety property, action property and refinement a passing run checks is stated by
one of these theorems; the invariants of `TunnelInvariant` and `ExchangesInvariant` were
also found true by TLC on the instances of `tunnel_stream` and `exchanges`. Only
model-checked is liveness, which needs fairness and `ENABLED` and is beyond the prover:
`CallSettles`, `EndReachesReader`, `TransportCloses`, `PlaceIsGivenBack`,
`NobodyIsLeftHanging`, `Recovers`, `NothingHangs`. Where they rest on a property that is
proved, it is the one that says that somebody still has to answer (`WaitingIsServed`,
`CloseIsAnnounced`, `EveryTransportIsTimed`, `OneWayOn`). The violated runs are
counterexamples on one instance, which is all they need to be.

## 5. How it can go on

- `Tunnel` and `Registry` are proved by themselves. That what happens to a transport
  without a name is what `Transport` allows is argued in section 2, and could be stated
  as a refinement.
- `Streams` is what the tunnel is shown to implement; that its own promises (order, a
  reason for every end) follow from its steps alone is seen by reading it, and could be
  proved of it once and carried over to both implementations.
- The same arguments for a step that leaves an exchange alone appear in both
  proofs of `Exchanges`; more of them can become lemmas about `Wire`.

## 6. Not modelled

- `utils/connection-pool.ts`, `utils/object-pool.ts`, `utils/adaptive-heartbeat.ts`: no
  module of the program imports them, so there is no caller whose behaviour they could be
  checked against.
- `utils/bjson.ts` and the byte layout of frames: recursion over data without an order of
  events that could go wrong.
- The HTTP API of `server/main.ts`, authentication, logging, metrics, configuration and
  the web interface: input and output around the tunnel.
- Parsing of HTTP and SOCKS5 requests, the patterns of private addresses, the GeoIP
  database: what they decide is chosen freely.
- `ConnectionManager.close()`, after which the server exits; `handleLocalRequest` of
  `client/http.ts`, which the parser never lets through; operations of the caches and of
  the buckets that have no caller.
