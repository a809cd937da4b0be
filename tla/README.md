# Verification of http2_server

TLA+ modules for the forwarding proxy in `src/` (C++, Boost.Asio, Boost.Beast,
nghttp2), the TLC runs that model-check them on small instances, and theorems
checked by TLAPS. `PROJECT.json` lists the runs, which lines of the code each
definition stands for, the mutants that show each property can fail, and the
hazards the properties are for. Paths below are relative to the repository.

## The system

The process (`src/main.cpp`) listens on two ports. Backends register a rule
(id, host, port, path pattern) over either port; any other request is forwarded
to the backend whose pattern begins its path.

| component | source | state | operations | meets the others through |
|---|---|---|---|---|
| Server | `core/server.cpp` | acceptor, TLS context | accept, re-arm | makes Sessions |
| process | `main.cpp` | the pool of threads, the signal handler | run, stop, join | runs every handler |
| Session (HTTP/2) | `transport/session.cpp` | nghttp2 session, socket, `streams_data_` | read handler, nghttp2 callbacks, send_response | calls `request_cb_` with a *sender* |
| RequestHandler, routing of `main()` | `transport/request_handler.cpp`, `main.cpp` | route table, filled once | handle_request | called by Session, calls ProxyRequestHandler |
| ProxyRequestHandler, ForwardingHandler | `transport/proxy_handler.cpp` | the HttpClient | registration, forward_request | registry; answers through the sender |
| BackendRegistry | `transport/proxy_handler.cpp` | `backends_`, a mutex | register, unregister, find | singleton shared by both front ends |
| HttpClient | `transport/http_client.cpp` | one resolver; a socket per call | send_request and four handlers | callback to the caller |
| Http1ProxyServer, Http1ProxySession | `transport/http1_proxy.cpp` | one request per connection | chain of completion handlers | registry, active requests |
| ActiveRequest(Manager) | `transport/active_request.cpp` | table id -> request, atomic counter, mutex | create, complete, cleanup | singleton used by the HTTP/1.1 sessions |
| Http2Client | `transport/http2_client.cpp` | one socket, one nghttp2 session, `streams_`, for all its requests | send_request, its handlers and callbacks | used by ForwardingClient |
| ForwardingClient | `examples/forwarding_client.cpp` | the tunnel | start, stop | registers over HTTP/1.1, HTTP/2 or both |
| ProxyClient | `transport/proxy_client.cpp` | - | register, unregister | HttpClient; in no build target |
| Logger | `utils/logger.h` | level, a mutex | log | everywhere, the signal handler included |

What is hard: the handlers of all connections run on a pool of `THREADS` threads
and interleave; a session is a chain of callbacks, each with error paths that
must answer once and leave nothing behind; requests are in flight while the
registry changes; peers fall silent, and nothing has a timer; an HTTP/2 request
comes in pieces that nghttp2 and the 8192-byte read buffer cut as they like; an
answer may come when its session is gone; a thread may block in a write, or be
interrupted by a signal inside a lock; the HTTP/2 client keeps one socket and one
entry for all its requests. What makes each component correct:

- *registry*: one backend serves a path, and changing another does not divert it;
  the table is what clients asked for, all or nothing per registration;
- *active requests*: ids are unique, and the table is exact;
- *front ends*: every request gets at most one reply, the one it should get, and
  comes to an end; nothing leaks;
- *HTTP/2 session*: no piece of a body is lost or doubled, what is dispatched is
  the request, stream data lives as long as the stream;
- *process*: a session is read by one thread at a time, a mutex is never held
  across a write, queued handlers run, and a signal ends the process;
- *clients*: a callback is called once and told the truth, and a user who believes
  it finds the registry as expected.

## The modules

| module | models | composed of |
|---|---|---|
| `ProxyRequests` | rules, paths, requests, bodies, replies (constants only) | |
| `BackendRegistry` | `backends_`, with the iteration order of the unordered_map in `before` | `ProxyRequests` |
| `ActiveRequestManager` | the counter, the objects' ids and states, the table; its operations | |
| `ActiveRequestLifecycle` | threads using the manager, cleanup included | `ActiveRequestManager` |
| `Exchange` | abstract: an exchange opens once, gets at most one answer, ends | |
| `Http1Proxy` | the HTTP/1.1 server and its sessions | `BackendRegistry`, `ActiveRequestManager`; implements `Exchange` |
| `HttpClient` | the calls of the HTTP/1.1 client, one step per handler | |
| `ProxyHandler` | routing, registration and forwarding behind an HTTP/2 dispatch | `BackendRegistry`, `HttpClient`; implements `Exchange` |
| `ProxyServer` | what `main()` starts: the HTTP/1.1 sessions and the HTTP/2 dispatches over one registry, interleaved | `ProxyHandler`, `Http1Proxy` (an instance of its proofs) |
| `Http2Session` | one HTTP/2 connection and its streams | |
| `Http2Client` | the HTTP/2 client: one step per handler and callback, its shared members, the answers of the server | |
| `Tunnel` | ForwardingClient over either protocol or both, ProxyClient, and a server that carries out what reaches it | `BackendRegistry`, `HttpClient`, `Http2Client` |
| `ServerProcess` | the threads, the scheduler's queue, the mutexes, the accept loop, session handlers with their blocking writes, the signal | |
| `BackendRegistryProofs`, `ActiveRequestLifecycleProofs`, `Http1ProxyProofs`, `ProxyServerProofs`, `Http2SessionProofs`, `Http2ClientProofs`, `TunnelProofs`, `ServerProcessProofs` | theorems about the module they are named for, `ProxyServerProofs` also about `ProxyHandler` | |
| `MC...` | the values of the constants for TLC | |

### State and steps

A method that holds a mutex for its whole body is one step.
`create_request` draws its id before it locks, so it is two
(`GenerateRequestId`, `InsertRequest`). A completion handler, up to the next
asynchronous operation it starts, is one step: its session is the only user of
what it touches, except for the registry and the table, which it uses at most
once each under their locks. The last handler of an HTTP/1.1 session is two steps
(`Report`, `CompleteSession`): it reports `Failed` or `Completed`, and
`complete_request` then reports `Completed` over it under the lock of the table. `pc`
of `Http1Proxy` and `stage` of `HttpClient` name the pending operation; `ending` is
between those two steps.

Abstractions:

- a path or a pattern is a sequence of tokens, so `path.find(pattern) == 0` is
  `IsPrefix`; a host and port are one address; a backend's reply is its address;
- a body is what `json::parse` and the field reads make of it: a whole rule, an
  object with only a `backend_id`, or text that is not JSON;
- the clock of `cleanup_expired_requests` is gone: any entry may be expired;
- in `Http2Session` bodies are counted in pieces. nghttp2 is external and
  modelled from its use: it calls `on_data_chunk_recv_cb` once per piece with the
  flags of the frame, not at all for an empty frame, closes a stream that both
  sides ended, and drops replies to streams that are closed or that the server has
  ended. A stream whose first reply waits for the client's window is neither: the
  HEADERS of a second reply go out on it, and end it if that reply has no body
  (`heads` counts them);
- in `Http2Client` frames have no bytes: an answer is a status, a body and a close,
  and a request whose body `send_http2_request` has cut is one that is reset;
- peers are the environment. An operation may complete, fail, or hang for ever,
  except resolving and connecting, which give up by themselves.

`Http2Client` names a socket and a connection by the call that made it; `socket_`
and `streams_` are the object's own members, which every call shares. `via` is the
socket a call has connected, `wire` the connection a socket has, `carries` the
request that a connection has brought the server, `answer` and `progress` what has
come back. `overlapped` and `lost` are history. Its client runs on one io thread,
as that of ForwardingClient does, and a host has one address.

`Tunnel` numbers the operations of a ForwardingClient; operation k is call k of the
Http2Client, of the HttpClient, or of both, as `protocol` says. `served` is what the
server has carried out. A request that has reached the server is carried out later,
also when its client has been told of an error or is dead: a client that is killed
is one that takes no more steps. An HTTP/2 request may be served in two pieces,
which is finding 5 seen from the client; its window never holds a reply that short back.

`ServerProcess` sees a handler as what it does to the threads: `pc` of a thread says
which mutex it waits for or holds (`logging`, `registering`, `reporting`) or that it
writes; `owner` says who holds each mutex. An operation is `armed`, then `ready`,
then the `task` of a thread. `send_cb` does not return while the session's client is
`deaf`: it reads nothing and the buffers in between are full. The handlers of the
HTTP/1.1 front end write asynchronously and block nobody, so they are not there. The
scheduler of Asio is external: a first-in, first-out queue and a mutex of its own.

`ProxyServer` shares `backends` and `before` between the two front ends and nothing
else: the table of active requests is used by the HTTP/1.1 sessions only, the
HttpClient by the HTTP/2 side only (an HTTP/1.1 session resolves and connects by
itself). A step of either is a step of its own module; the variables that both
modules call `request` and `rule` are `http1Request` and `captured` for the
sessions. `Offered` may come in on either port.

`ActiveRequestLifecycle` is about the manager's interface: creations that overlap,
and the cleanup, which the server as it is does not do (it has one accept loop, and
calls no cleanup). `Http1Proxy` has only the calls the server makes.

## The runs

| run | bounds | shows |
|---|---|---|
| `registry` | 3 backends, patterns `/`, `/a`, `/a/b` | the table and its order stay consistent (`RegistryTypeOK`); removing or re-registering another backend never diverts a path that a backend serves (`RoutingIsSticky`). Inserting a new one may, since a rehash can reorder overlapping patterns |
| `lifecycle` | 3 requests | `IdsUnique`, `TableIsExact` under every interleaving of creation, report, completion and cleanup |
| `http1` | 3 sessions, 2 backends, 8 requests | the table of active requests is exact (`TrackedWhileOpen`); the registry is what was asked for (`RegistryExplained`); a reply belongs to its request (`ReplyExplained`); states only advance, and a `Failed` is overwritten by `complete_request` only, as it takes the request out of the table (`StateOnlyAdvances`); each connection implements `Exchange`; every request ends unless a peer is silent for ever (`RequestsEnd`) |
| `http1_timeout` | 2 sessions | finding: no timeout |
| `proxy_handler` | 3 dispatches, 2 backends, 11 requests | one answer per dispatch (`AnswersBalance`), registry and forwarding explained, `Exchange` implemented, forwarded dispatches answered (`ForwardedIsAnswered`) |
| `proxy_server_405` | 2 dispatches and 1 session over one registry | findings: 404 in place of 405, on either port |
| `http2_session` | 2 streams, bodies of 3 pieces, replies of 2 | stream data lives as long as its stream (`StreamDataLive`), bodies are accounted for (`BodyAccounted`), the last dispatch has the whole body (`LastDispatchComplete`), a dispatched stream is never left without a sender, a reply or an end to come (`NoDispatchForgotten`), a request that is dispatched whole gets one reply (`OneReplyPerWholeRequest`), dispatched streams close (`DispatchedStreamsClose`) |
| `http2_session_ended`, `_partial`, `_sender` | 1 stream | findings: see below |
| `tunnel` | 2 operations of the tunnel with 2 ids, 1 call of ProxyClient | no callback twice (`CalledBackAtMostOnce`); a call that none overlaps gets its own answer (`SoloResponseIsOwn`); a success that is told is true (`SuccessIsTrue`); a user who waits for each success finds the registry as the last one says (`OrderlyMeansDone`); while a call waits, `streams_`, `socket_` and a read are there to call it back (`CallbackNotForgotten`), unless another overlapped it or its connection broke; a call is called back unless another overlapped it or its connection broke (`CallsAreAnswered`) |
| `server` | 2 threads, 2 sessions, 1 forward | one reader per session (`OneReaderPerSession`); the mutexes never stop all threads (`PoolNeverStuck`); a queued handler runs unless every thread is blocked by a deaf client (`HandlersRun`); a signal ends the process unless it interrupted a thread inside a lock it needs, or a thread is blocked (`ShutdownCompletes`) |

Why the bounds are enough: the interactions go through one shared object at a
time. Three sessions are one that registers, one that removes or moves, and one
that is forwarded meanwhile; two rules suffice for overlap, three for an order
that matters after a removal. Three pieces are a frame cut in two with another
before or after it; two reply pieces are a reply that is cut. Two streams are
enough for data to be mixed up. Two operations of a tunnel are a start and a stop,
or a start over a start, with any amount of the first left over when the second
begins; more add nothing to what they can meet, since `streams_` and `socket_` hold
one call's data at a time (and `TunnelProofs` has no bound). Two threads and two
sessions are what it takes for two threads to be in one session, for both to be
blocked, and for one to be blocked while the other goes on. No counter needs a bound in a guard but `sent`,
which is bounded by `MaxBody`; a session draws one id and reads one request.

`CHECK_DEADLOCK FALSE` is set where a run ends: each session, dispatch or stream
is used once, and when all are done, or hang, nothing is left to do.

Some runs leave out steps that need not be interleaved, in the specification of
their MC module. `InOrder` of `http1` and `server` lets interchangeable sessions be
born in one order and the signal come to one thread: what `SYMMETRY` does where
liveness is not checked. In `server` only the first session forwards, and over TLS
it is alone; the handlers of a second would be copies of the first's. `Reduced` of
`tunnel` lets the handlers of a HttpClient come first as long as the server has
nothing to serve for that call, since nobody else sees its stage; leaves out a read
that fails after the answer is complete, which changes only `lost`, when the callback
was called; lets the application's call be made beside an HTTP/1.1 tunnel only; and
tries a start over a start with one protocol at a time.

`SYMMETRY` is used only in runs without liveness, for sessions and requests,
which nothing orders.

### Fairness

`io_context::run` runs every handler whose operation has completed, so each
session's next handler, and each pending call's, is weakly fair
(`Http1Proxy!Fairness`, `ProxyHandler!FairSpec`) unless its peer is silent, in
which case the operation never completes. Nothing makes a client connect or send.
`Http2Session!FairSpec` assumes that a forwarded request comes to its end, which
is what `ForwardedIsAnswered` says of `ProxyHandler` with a backend that is not
silent, and that a broken socket is noticed by the reader.
`Tunnel!Fairness`: the io_context of the client runs its handlers, a read that has
something to give completes, and the server serves what has reached it (when it may
not is what `ServerProcess` is about). `ServerProcess!Fairness`: the operating system
runs a thread that can go on, whatever it waits for next; and the signal handler is
not refused for ever a mutex that is free again and again (strong fairness: the other
threads go on taking it). No operation has to complete: peers owe nothing.

### Findings

1. `http1_timeout`: README.md:157 promises 502 on a timeout; no operation has one.
2. `proxy_server_405`: README.md:159 promises 405; on the HTTP/2 port
   `/proxy/register` with another method is answered 404 by the route table
   (main.cpp:76, request_handler.cpp:80).
3. `proxy_server_405`, on the HTTP/1.1 port: there `handle_request` knows no other
   method of `/proxy/register` and forwards it like any request (http1_proxy.cpp:50),
   so it is answered 404, 502, or by a backend. The property asks for a 405 on one port
   at least, and the run has both clients answered without. `ReplyExplained` describes
   the replies the code gives and does not ask for the 405.
4. `http2_session_ended`: a request that ends with an empty DATA frame or with
   trailers is never dispatched (session.cpp:141, 195).
5. `http2_session_partial`: a last DATA frame that is read in pieces is dispatched
   once per piece with an incomplete body. The client gets the reply to the incomplete
   request; if its window holds the body of that one back, the HEADERS of the later
   replies go out on the stream as well. `OneReplyPerWholeRequest` says that this is
   the only way to more than one reply.
6. `http2_session_sender`: the sender holds a plain pointer to a session that may
   have been destroyed (session.cpp:152, 203).

## The theorems

All for any number of sessions, streams, threads, calls, backends, patterns and
requests, and bodies of any length. They rest on the ASSUMEs of the modules and on
nothing else: the constants are what they are said to be (`PathsAssumption`,
`OfferedAssumption`, `BoundsAssumption`), the null values are not values
(`NoCallAssumption`, `NobodyAssumption`), and a tunnel's id is not the one that the
application uses (`TunnelAssumption`). Every safety property and every refinement
that a passing run checks is proved. Liveness is left to TLC.

| module | theorem | property |
|---|---|---|
| `BackendRegistryProofs` | `RegistryTypeCorrect`, `RoutingNeverDiverts` | `RegistryTypeOK`, `RoutingIsSticky` |
| `ActiveRequestLifecycleProofs` | `LifecycleTypeCorrect`, `IdsNeverShared`, `TableNeverLies` | `LifecycleTypeOK`, `IdsUnique`, `TableIsExact` |
| `Http1ProxyProofs` | `TypeCorrect`, `TrackingIsExact`, `StatesAdvance`, `ImplementsExchange`, `RegistryIsExplained`, `RepliesAreExplained` | `TypeOK`, `TrackedWhileOpen`, `StateOnlyAdvances`, `ConnectionIsExchange`, `RegistryExplained`, `ReplyExplained` |
| | `UsesRegistry`, `SessionsNeverDivert`, `SessionsUseManager` | implements `RegistrySpec`, so has `RoutingIsSticky`; implements `LifecycleSpec` |
| `ProxyServerProofs`, of `ProxyHandler` | `TypeCorrect`, `AnswersAlwaysBalance`, `ImplementsExchange`, `RegistryIsExplained`, `ForwardingIsExplained` | `TypeOK`, `AnswersBalance`, `DispatchIsExchange`, `RegistryExplained`, `ForwardingExplained` |
| | `UsesRegistry`, `DispatchesNeverDivert` | implements `RegistrySpec`, so has `RoutingIsSticky` |
| `ProxyServerProofs`, of `ProxyServer` | `ServerUsesRegistry`, `ServerRoutesAsRegistry` | implements `RegistrySpec` with both ports open, so has `RoutingIsSticky` |
| | `DispatchesBesideSessions`, `SessionsBesideDispatches` | `AnswersBalance`, `DispatchIsExchange`; `TrackedWhileOpen`, `StateOnlyAdvances`, `ConnectionIsExchange` of the sessions |
| | `ServerRegistryIsExplained`, `ServerForwardingIsExplained`, `ServerRepliesAreExplained` | `ServerRegistryExplained`, `ServerForwardingExplained`, `ServerReplyExplained`: the properties above, by what the clients of both ports asked for |
| | `ServerPortsRouteAlike` | `PortsRouteAlike` |
| `Http2SessionProofs` | `TypeCorrect`, `StreamDataIsLive`, `BodyIsAccounted`, `LastDispatchIsComplete`, `DispatchesAreAttended`, `WholeRequestsGetOneReply` | `TypeOK`, `StreamDataLive`, `BodyAccounted`, `LastDispatchComplete`, `NoDispatchForgotten`, `OneReplyPerWholeRequest` |
| `Http2ClientProofs` | `TypeCorrect`, `OneCallBack`, `SoloIsOwn`, `NobodyIsForgotten` | `Http2TypeOK` (part of `TypeOK` of `Tunnel`), `CalledBackAtMostOnce`, `SoloResponseIsOwn`, `CallbackNotForgotten` |
| `TunnelProofs` | `TunnelTypeCorrect`, `SuccessesAreTrue`, `OrderlyUsersAreServed`, `TunnelsAreReached` | `TypeOK`, `SuccessIsTrue`, `OrderlyMeansDone`, `TunnelDecides` |
| | `TunnelUsesHttp2Client`, `TunnelCallbacks`, `Http1CallsAreExchanges` | implements `Http2Spec`, so has the properties of `Http2Client`; the calls of HttpClient implement `Exchange` |
| | `TunnelUsesRegistry`, `TunnelsNeverDivert` | implements `RegistrySpec`, so has `RoutingIsSticky` |
| `ServerProcessProofs` | `TypeCorrect`, `SessionsAreSerial`, `PoolIsNeverStuck`, `PoolIsServed`, `SelfDeadlockIsForever` | `TypeOK`, `OneReaderPerSession`, `PoolNeverStuck`, `QueueHasServer` and `ShutdownHasServer`, `SelfDeadlockStays` |

The arguments, and the inductive invariants they need:

- *registry*: an operation that inserts nothing keeps the order of the rules it
  leaves, so the first match stays first. `OrderInv` says that the order is total,
  and that every set of keys has a first: an order comes from a sequence of all the
  keys, positions in it are naturals, and naturals are well-founded. So the backends
  that match a path have a first. That is a lemma about the model of the loop in
  `find_backend`, not a result about the code; `ServerPortsRouteAlike` and
  `TunnelsAreReached` use it.
- *users of the registry*: a step of either front end, or of the server in `Tunnel`,
  is a call of one method with an id and a rule of the right kind, or leaves
  `backends_` alone. So each of the three specifications implements `RegistrySpec`,
  and what was proved of the registry once holds in all of them.
- *active requests*: neither `IdsUnique` nor `TableIsExact` is inductive alone. The
  invariant adds that an id that was drawn is below the counter, so the next one is
  new, and that the owner of an entry has that id and is tracked, so that an
  insertion replaces nothing and a completion or a cleanup takes out only its own.
- *HTTP/1.1*: `Inv` is `TypeOK`, the same two facts for sessions (`IdsInv`,
  `TableInv`), and `ChainInv`: a session before its read has no request, one that
  waits for a backend has a rule, one that replies has a reply. `ChainInv` is what
  the null check of `forward_to_backend` is for. `StateInv` ties the reported state
  to the pending operation, so a report can only go forward, until `complete_request`
  reports `Completed` over whatever the last handler did. With `OnceInv` (nothing
  is received before the end) every step maps to one of `Exchange` or to a stutter.
  `ReplyExplained` is proved in two parts. `ShapeInv` is what a session sees to
  itself: its reply fits its request and the rule it captured. `RuleInv` is what it
  owes to the registry: that rule was registered for the path, even if it is removed
  meanwhile. `SessionsUseManager` maps a session to a thread of
  `ActiveRequestLifecycle`, where no cleanup is ever run; one step of the model inserts
  the request and reports `Parsing`, so that report is mapped as still to come.
- *forwarding behind HTTP/2*: a dispatch has no answer before it is made and while
  an operation is pending for it, and one reply otherwise; a pending one goes to an
  address. `DispatchOutcome` is the case analysis of the routing: every path through
  it answers once or starts a forward. A request never changes once it was
  dispatched, so what explained the registry or a forward goes on explaining it.
  `ForwardingExplained` comes in the same two parts, `ShapeInv` and `TargetInv`.
- *both front ends*: `RegistryExplained`, `ForwardingExplained` and `ReplyExplained`
  of one front end are FALSE with the other beside it, since what is found in the
  table may come from the other port. What each module proves of its own is therefore
  split in what a step does to the table, whatever was in it (`RegistryEffect`), and
  in invariants that do not speak of what is in it. `OthersMayRegister`, once for each
  front end, says that those survive any change of the table that leaves it a table of
  rules. So `ServerInv`, the two invariants side by side, is inductive; a step of
  one side is a stutter for what the other promises; and the explanations are proved
  anew, over the clients of both ports, from the two `RegistryEffect`s. The lemmas
  `SameLookup` and `SameChange` identify the two names of each registry operation.
- *the ports agree*: `PortsRouteAlike` is README.md:99 as the code keeps it. A path
  goes to one address at a time, because one backend serves it; a request is routed in
  the step that takes it in, by `find_backend` on either port. It does not say that two
  requests for one path get the same backend, whatever is registered between them. And
  it is about paths that both ports take for a backend's: `/test` is answered by the
  proxy itself over HTTP/2 and forwarded over HTTP/1.1; a longer path that begins with
  `/proxy/register` is kept for registration over HTTP/2 and forwarded over HTTP/1.1;
  and `/proxy/register` itself with another method is answered 404 over HTTP/2 and
  forwarded over HTTP/1.1.
- *HTTP/2 session*: `StreamInv` says of one stream how its state, its entry, the
  pieces sent and the bodies dispatched belong together, `FrameInv` that a frame that
  is partly received belongs to an open stream of a session that is read. What was
  dispatched is never more than what is collected, and an open stream was dispatched
  only inside its last frame: hence a later dispatch has more, and the last has all.
  For the replies, `Answered` counts: each dispatch is good for one, which its sender
  still owes or whose HEADERS are out, and no dispatch had more of the body than was
  sent. So two HEADERS mean two dispatches, of which the first had less than the second
  and was not whole. `NoDispatchForgotten` is
  the safety core of `DispatchedStreamsClose`: each action either leaves the sender,
  the waiting reply or the failure where it is, or puts another of them in its place,
  so in no state has a dispatched stream nobody left to close it.
- *HTTP/2 client*: no member is owned by a call, so the invariant says when it can be
  trusted. `EntryInv`: the callback in `streams_` is one that is still awaited.
  `SoloInv`: while a call that none overlapped waits, `socket_` is its own and nobody
  else waits. `WiresInv`: its sockets and connections are nobody else's. `OwnInv`:
  so what is collected for it is its own. `CallbackNotForgotten`, the safety core of
  `CallsAreAnswered`, becomes inductive with `NewInv` (no socket is on a connection
  that is not there yet) and `ViaInv` (a call that none overlapped connects its own
  socket).
- *tunnel*: `TruthInv` follows a status 200 from the server's answer through
  `streams_` to the callback: wherever it is, its request was carried out. With
  `SoloResponseIsOwn` that is the caller's own. `OrderlyInv`: a user who waits for
  each success overlaps no calls, so every operation before the last was carried out
  on all its ports; only the last has requests left, and they ask for one thing, so
  the registry is what the last operation found or what it asks for. `BegunInv`
  bounds what can still be in the hands of the server. `RulesInv`: these clients
  register one rule, so with the lookup being a function such a user also knows what
  the proxy does with a path (`TunnelsAreReached`). Every step of the tunnel is one of
  `Http2Client` or leaves its variables alone, which carries its theorems over.
- *process*: `TypeOK` has the scopes of the locks and of the handlers. `ChainInv`
  says that the handshake or the read of a session is in one place only, armed,
  queued at one position, or run by one thread; every handler passes it on or drops
  it. That is all that keeps a session from being read twice at once. For
  `PoolNeverStuck` the mutexes are put in order: who holds the logger or the scheduler
  waits for nothing, who holds the registry waits for the logger at most, and nobody
  holds any of them while he writes to a client. So a thread that waits leads to one
  that can go on, or to one that a signal interrupted, whose handler goes on or waits
  for that very thread; `SignalShape` says where the signal is. `PoolIsServed` reads
  from it the safety cores of `HandlersRun` and `ShutdownCompletes`, and
  `SelfDeadlockIsForever` that the one bad case is final: nobody but its owner gives a
  mutex back.

Only model-checked:

- liveness under fairness (`RequestsEnd`, `ForwardedIsAnswered`,
  `DispatchedStreamsClose`, `CallsAreAnswered`, `HandlersRun`, `ShutdownCompletes`),
  which is out of the prover's reach. What the theorems give is the safety part of
  it: somebody is always there to take the next step;
- the findings.

## Not modelled, and the plan

Not modelled:

- what two threads do to one nghttp2 session at the same time (a sender called by a
  backend's completion while the session is read: undefined behaviour inside the
  library; `ServerProcess` shows that the two threads can be there), and other data
  races inside library objects (the resolver that all calls of HttpClient share);
- the TLS context and ALPN, environment variables, command line parsing, output of
  the Logger, and the formatting of headers and JSON (configuration and wording; a
  `--proxy-port` that forwarding_main reads and does not use is among them);
- exceptions that leave a handler and end the process, and the destruction of static
  objects after `main()` has returned;
- `stop_tunnel` before any `start_tunnel`, which logs the id of a null pointer before
  it asks whether there is a tunnel (forwarding_main does not call it so), ids of two
  tunnels that collide by chance, and a lease for the registration of a client that was killed, which the code has
  not: such a registration stays;
- the answers of the server to HTTP/2 requests that fail (500, 404): `Tunnel` has the
  registration requests only.

Left to do:

1. A passing run of `ProxyServer`. What it says is proved, and its parts are
   model-checked each for itself (`http1`, `proxy_handler`), but the only run that
   interleaves them is for the findings about the 405, so the liveness of one front
   end beside the other is argued only: no step of one waits
   for the other, since both leave `backends_` after each operation.
2. `Http2Session` under `ProxyHandler` in one module, in place of the sender that
   replies anything (`SomeReply`); with it
   the completeness of replies from the backend to the stream.
