# TLA+ verification of the ACP TypeScript SDK

This directory holds TLA+ modules that model the SDK's own protocol machinery,
TLC configurations that check them on small instances, and TLAPS proofs of the
most important results for every size of instance. Paths such as
`src/jsonrpc.ts` are relative to the root of the repository. `PROJECT.json`
lists components, runs, theorems and hazards, and maps every definition to the
lines it translates.

    tlc -config RpcConnection.cfg MCRpcConnection.tla     # a run
    tlapm RpcConnection_proof.tla                         # a proof

Contents: 1 the system, 2 what is hard about it, 3 modules and runs, 4 fairness,
5 proofs, 6 what disagrees with the documentation, 7 what is not modelled and
the plan.

## 1. The system

The SDK connects an editor (client) to an agent. Both ends exchange JSON-RPC
messages over a duplex stream of messages. Applications work with typed
requests and sessions on top. Underneath, a stream is either newline-delimited
JSON over stdio, or a remote transport: Streamable HTTP (POST requests carry the
client's messages, GET requests are event streams that carry the agent's) or
one WebSocket.

    application API      src/acp.ts, src/v2/acp.ts
          |
    protocol router      src/protocol-router.ts     picks v1 or v2 by initialize
          |
    Connection           src/jsonrpc.ts             calls, dispatch, batches
          |
    a stream of messages
          +-- stdio              src/stream.ts, src/line-buffer.ts
          +-- HTTP client        src/http-stream.ts, src/cookie-store.ts
          +-- WebSocket client   src/ws-stream.ts
          +-- server             src/server.ts, src/node-adapter.ts
                  +-- ConnectionRegistry, ConnectionState   src/connection.ts
                  |       +-- OutboundMailbox, createOutboundChannel
                  +-- GET responses                         src/server-sse.ts
                  +-- WebSocketServerSession                src/ws-server.ts

Everything runs on one event loop per process. Code between two `await`s is
atomic, so an action of a model is such a stretch of code. What interleaves are
the continuations: handlers, writes, reads, timers, the socket's events and
whatever the other process does.

| Component | State | Operations | What makes it correct |
| --- | --- | --- | --- |
| `Connection`: calls (`jsonrpc.ts` 997-1272, 1489-1555) | pending responses, id counter, cancel listeners, incoming requests, write chain, `aborted` | send, cancel, answer, write, read, close | every call settles once, with its own answer; cancellations reach their request and nothing else |
| `Connection`: dispatch (952-970, 1347-1487) | dynamic handlers, retry queue, registry of requests | offer a message to handlers in turn, retry, add and dispose handlers, answer | nothing is lost, doubled or answered too early; the registry is exact |
| `Connection`: batches (1023-1087, 1274-1345) | what is left of each batch, collected responses | take a batch apart, collect, reply | one complete reply, or none when none is wanted |
| `OutboundMailbox` (`connection.ts` 139-290, 1040-1110) | queue, active lease, finished, aborted | push, acquire, receive, release, finish, abort | first in, first out over any number of receivers; nobody sleeps through a message |
| `ConnectionState` (`connection.ts` 292-931, `server.ts` 223-335, 567-646) | streams, byte and stream counts, routes, inbound chain, router, shutdown | route output, attach and leave streams, forward input, wait for room, shut down | limits hold, counts are exact, backpressure ends, responses go to the right stream |
| `ConnectionRegistry` and initialize (`connection.ts` 934-1025, `server.ts` 336-420) | registered and pending connections | create, register, remove, discard, close all | no connection stays that nobody can reach |
| `createOutboundChannel` (`connection.ts` 1117-1222) | queued writes, ended, failed | write, end, abort | what was written before the end is routed |
| SSE body and Node adapter (`server-sse.ts`, `node-adapter.ts`) | lease, timer, cancelled; a chunk being written | pull, keep alive, cancel; write, wait for drain | the response ends, the lease goes to the next request, little is lost |
| `WebSocketServerSession` (`ws-server.ts`) | frames that wait, connection, pump, `isClosed` | handle frames in turn, initialize, forward, pump, close | buffers are bounded, a closed session leaves nothing |
| HTTP client stream (`http-stream.ts`) | connection id, session streams, readiness, pending requests | initialize, post, open streams, close | a request waits for the stream its response comes on |
| WebSocket client stream (`ws-stream.ts`) | socket state, closed | send when open, receive, close | sends settle whatever the socket does |
| Protocol router (`protocol-router.ts`) | selected version, buffered messages, closed | select, forward, start handlers, close | handlers start once, `closed` resolves |
| v1 sessions (`acp.ts` 348-422, 548-629, 775-935) | update queues, routes | attach, prompt, read, dispose | updates are neither missed nor misattributed |
| v2 initialization and sessions (`v2/acp.ts` 444-667, 1522-2009) | phase, waiters; queue, cursors, prompts | initialize, wait; prompt, read, abort | calls wait for initialization; readers see each update after their start once |
| Newline-delimited stream (`stream.ts`, `line-buffer.ts`) | incomplete line, cancelled | read a chunk, split, parse, answer, write | the messages are those of the lines, however they are cut into chunks |
| Pure helpers (`protocol.ts`, predicates in `jsonrpc.ts` and `server.ts`) | none | classify messages | they compute what their definitions say |

How they interact: the server connects an agent to a pair of streams that
`ConnectionState` owns. Its router takes the agent's messages from the channel
and pushes them to mailboxes; event streams or the WebSocket pump drain those
under a lease. POST requests and frames go through the connection's inbound
chain. Waiting for room couples the two directions: a request is held back while
output waits, and the router pauses, until a reader takes something or a timer
gives up. Shutdown may begin at any of these parts and has to reach all others.

## 2. What is hard about it

`PROJECT.json` lists the hazards, each at its line. They are of these kinds:

* a promise that settles from several places (response, close, cancellation,
  failed write) and maps that must be in step with it;
* a snapshot that is out of date when it is acted upon: the dispatch loop's
  handlers, the retry queue, an id that was reused, a lease that was released;
* waiting that depends on somebody else's waiting: the router, requests and
  clients; the handler, the pump and the socket; a batch and its slowest entry;
* limits kept by increments and decrements in different callbacks;
* shutdown that meets work in any state, and is begun more than once.

Tests exercise these in a few orders each; the models in all orders.

## 3. Modules and runs

The modules and what they compose: `SseResponse` extends `OutboundMailbox`,
`Outbound` puts `OutboundChannel` beside it, the two legs of an agent's message,
`NdJsonStream` extends `LineBuffer`, both modules of sessions extend `ArrayFilter`
(`Array.prototype.filter`, which the queues of both are cleared with),
`RpcConnection` refines `RpcCalls`; the
server's modules `HttpConnection`, `WsServerSession` and `AcpServer` see the same
connection from three sides (its output, a socket, the registry), and see the
outbound channel and the mailboxes as queues, which `OutboundChannel` and
`OutboundMailbox` justify. Every module has a type invariant `TypeOK`, or names
its values at its variables, and the proofs establish it.

Ten runs pass and two are expected to fail (section 6). Three of those that pass
check several modules at once, each of which knows nothing of the others:
`WebSocketEnds` has a variable `end` that says which of `WsServerSession` and
`WsStream` takes the steps, `MCClientStreams` a variable `transport` for
`HttpStream` and `NdJsonStream`, and `MCApplications` a variable `part` for
`ProtocolRouter`, `ActiveSession`, `InitializationV2` and `ActiveSessionV2`. Such a
run reaches the states of each module, with the others at their start, and its
properties are those of the modules by name (`V2` is added where both modules of
sessions have one). The fairness is that of each module, restated for the choice it
belongs to where another part could take a step as well. `RpcMessages` puts
`RpcDispatch` and `RpcBatch` side by side, what arrives being a call or a batch;
their runs are separate.

Where one run asks about more than one instance, `Bounded` in the MC module
restricts a larger one to what these instances have between them: two requests of
one side or one of each, and so on. It never stops a step that the fairness of the
specification is about, as the comment at each says why, so liveness is that of
the module.

In all models a message, an id, a session or a handler is a value of a small
set, and a message or frame counts as one unit toward a byte limit. The limits'
arithmetic is thus that of equal sizes. Logging and wording are left out.
Definitions whose comment begins with "Faulty:" are not part of a model. Each is
a form that the definition after it could take by a plausible mistake, and
`PROJECT.json` names the property that fails with it: so no property holds
merely by the shape of its model.

### RpcConnection, RpcCalls - calls between two connections

`RpcConnection` has two `Connection`s on one stream, each caller and callee.
Variables have the names of the fields. `promise` is the state of the promise
that `sendRequest` returned. `writeQueue` and `writing` are the promise chain
`writeQueue`: its unsettled links, and whether the first is not begun, handed to
the stream, or on the wire with its continuation outstanding. `wire` is the
stream. Actions: `SendRequest` (`prepareRequest` and `sendRequest`, also with a
signal that is aborted already), `CancelRequest`, `Respond`, `StartWrite`,
`LandWrite`, `FinishWrite` (with `finishRequest` of a response),
`FailWrite` (the stream rejects: the chain is poisoned, the connection closes),
`Receive` and `Close`. A handler may use its responder at any time, or never.

`RpcCalls` is the abstract specification: a call is issued, answered at most
once, returns at most once with that answer, and closing rejects what is
pending, in one step. There are no messages in it.

* `rpc_connection`: two requests, both of the client or one of each, all
  interleavings of everything above. `PendingIsTracked`: no promise hangs.
  `PeersAgree` joins three statements about the two ends: "unknown request"
  cannot be reached between two SDK peers (`ResponsesAreExpected`); the registry
  that cancellation works through has a request from receipt to the settled
  write of its response (`RegisteredUntilWritten`); nobody is told to stop by
  somebody else's cancellation (`AbortsAreRequested`). `AnswersAndCancelsArrive`
  is about liveness, and `ImplementsCalls` is the refinement.

Two requests of one peer are what it takes to confuse ids and to have writes
queue behind each other; a third party does not exist. Ids are not reused by
this SDK (that case is in `RpcDispatch`).

### RpcDispatch - handlers, retries, the registry

One connection. A task is a run of `processIncomingMessage`, with what is left
of its snapshot of handlers. Handlers claim, decline (with or without a retry)
or throw; meanwhile handlers are added and disposed, requests are answered,
cancelled and finished, and the connection closes. `response` follows a response
from the responder to the wire to `finishRequest`.

* `rpc_dispatch`: a static handler and a request and a notification with two
  dynamic handlers, or two requests of one id with one. `NothingDropped`: a message
  is in one place at a time, a request that nobody answered is somewhere, and "method not found" comes last
  (`NotFoundIsLastResort`). `DispatchEnds`: retries do not go round in circles.
  `RegistryIsExact`: the peer can cancel the second request of an id although the
  first is being finished late. Two is enough, as an id has one entry, which only
  the request that has it and its predecessor compete for.
* `rpc_dispatch_retry`: expected to fail, see section 6.

### RpcBatch - batches

`sendBatch` at the caller and `receiveBatch` at the callee, with the dispatch of
`RpcDispatch` reduced to "a request is answered once, a notification is processed
at some time". Members are taken one by one, and may be answered before the next
is looked at. `RpcMessages` has both modules; its `BatchesSpec` is that of a
connection on which only batches arrive.

* `rpc_batch`: three batches at once: two requests around a notification, one
  with a malformed member, one that wants no reply. `RepliedWhenComplete`: the
  reply is sent once, when it is complete, and then it is sent. `BatchReturns`. With
  these three each kind comes last in some batch and in some order.

### OutboundMailbox

The queue with its lease. `reader` says whether `receive` of a lease waits for
the lease's promise or has been woken; `leases`, whether a lease is held.
`taken` and `accepted` are history.

It is checked where it is used, in `SseResponse`, and proved for any number of
leases and messages: `InOrderOnceEach`, `NoLostWakeup`.

### HttpConnection

`ConnectionState` of an initialized HTTP connection together with the POST, GET
and DELETE handlers. `outbound` and `channel` stand for `createOutboundChannel`,
`queue` and `receivers` for the mailboxes (`OutboundMailbox`), `router` for what
`runRouter` awaits. `post` says how far each POST request is, from
`waitForOutboundCapacity` to the write to the agent. The agent sends requests
and notifications to any stream, answers requests, stops or fails.

* `http_connection`: a limit of one unattended session and of two messages,
  with two sessions and three messages of the agent without requests, with one
  session, three messages and one POST, or with one session, two messages and two
  POSTs, for the session and for the connection.
  `OutputIsBounded` (with the counts being exact), `NoMissedProgress`,
  `InOrderPerStream` (with responses on the stream of their request),
  `WaitingEnds`, `AgentGoneIsNoticed`. Three messages reach and pass the limit of
  two, and two sessions that of one; what two POSTs may do to each other needs no
  second session.

The bound on the agent's messages also bounds how often a waiter can be woken in
vain and start to wait again: that a POST waits forever because others take all
room cannot be seen with it.

### WsServerSession

`WebSocketServerSession` from the accepted upgrade on. `messageChain` are the
frames that wait, `handler` is what the handling of the current frame awaits,
`pump` what the pump awaits, `unsent` is `bufferedAmount`. The connection is
`registry`, `shutdown`, `queue` (its `allOutbound`), `outputEnded` and
`finishedRouting`. Any send may fail, the socket may close at any time, the agent
may answer, fail, stop.

* `web_socket`, the server's end: four frames of any kinds, a limit of two, two messages of
  the agent. `BuffersAreBounded`, `NothingLeftBehind`, `SessionsEnd` (a client that
  does not read is not waited for, either). With four frames one waits, one is handled, one
  reaches the limit and one is refused. The bound on `unsent` is the limit and
  two, not the limit: the handler and the pump each look before the other sends,
  and the answer to initialize is sent without a look. `NothingLeftBehind` does not say
  that the connection has shut down: one whose agent ended its output is forgotten by
  the registry when its router is done (`trackConnectionClose`), and neither a closing
  session nor `AcpServer.close` shuts it down after that, so its agent's input is not
  ended. The agent had ended its side itself.

  For the same reason `SessionsEnd` promises less of the handler than of the session.
  A write that has not begun when the router is done is refused (`TakesWrites`). One
  that the agent has by then is ended by the agent's reading or giving up its input, or by
  shutdown (`AgentReads`, `WriteFails`, `WriteAborted`), and shutdown does not come any
  more: the session closes, but a write to an agent that ended its output and neither
  reads nor cancels stays pending, with the frames behind it (`src/connection.ts`
  635-645, `src/ws-server.ts` 603-604). So `SessionsEnd` says that the session closes, that
  its lease is released, that its handler comes to rest if the connection has shut
  down or no write is with the agent, and that no wait for room or for the socket lasts.

### AcpServer

`AcpServer` with `ConnectionRegistry`: both maps, `closed` of each connection
(`tracked` until it has resolved: `trackConnectionClose` acts once), shutdown, the
router, the agent, how far the initial write and read are (`initialize`), and what
asked for the connection, a request (`status`, `signalAborted`) or an upgrade
(`session`). Rejecting an upgrade and closing a session do the same and are one
action; what makes a session close is in `WsServerSession`. DELETE may name any
connection the registry has. `Close` may come at any time and again.

* `acp_server`: one connection of each kind. `LiveConnectionsAreHeld`,
  `InitializeIsAnswered`, `TheEndIsFinal`. Connections meet in no action but
  `Close`, which treats each alike, so one of each kind shows what many would; the
  theorems are for any number. A connection of an initialize that arrives after
  `Close` is not closed: the server has no state for that, and the documentation
  speaks of active connections.

### OutboundChannel

Both streams of `createOutboundChannel`. `sink` are writes that the writable
stream keeps, `writer` the one that waits for `resumeWriter`, `queue` what the
router has not read, `reader` how far its `read()` is (`Pull` is the stream's
call of `pull()`, a microtask later). `EndTimer` is the `setTimeout` of `end()`,
which runs only when no microtask is left (`NoMicrotasks`). The run is of `Outbound`,
whose `ChannelSpec` is that of the channel with the mailbox at its start.

* `outbound_channel`: four messages, against writes of several at once, invalid
  messages, `close`, `abort`, `end()`, a cancelling router. `WritesThenTheEnd`:
  the router gets what was written in order; a channel that finishes without an
  error has let all of it through, also what `end()` found queued; `onEnd` runs
  once, and not before. `WritersGoOn`. Two writes queue behind one that waits, and
  a fourth comes after: more of them wait in the same place.

### SseResponse - GET responses on a mailbox

`createSseBodySource` with its lease (the variables and operations of
`OutboundMailbox`) and `writeNodeResponse`. `receiving` is `deliver()`: a pending
`receive()` or its result; `http` is how far the loop of `writeNodeResponse` is,
`chunk` what it writes, `res` what the client sees. Clients read slowly, stop
reading, or leave, also before the response listens for that.

* `sse_response`: three responses, one after the other, three messages.
  `InOrderOnceEach` and `NoLostWakeup` of the mailbox. `OneMessageAtRisk`: what a
  client was sent is in order, and a response loses one message at most, the one
  that it held when the client left or the stream stopped. `LeasesComeBack`: the
  next GET request may have the mailbox. A client that left before the response
  registered its listener is noticed only by the keep-alive timer, so the last
  property needs that timer. A lease that was released may still have a receive
  waiting when the next holder's does; a third shows that the second is not
  special.

### HttpStream - the client over HTTP

`HttpStreamTransport`. `write` says what the write under way awaits, `message`
what it writes. An event stream is none, opening or open: `sessionSseReady` and
`knownSessions` follow from that. `teardown` is `close()` or `errorReadable()`
with its DELETE, `cookies` whether the stream's own store has the server's
cookie. `learned` and `deletes` are history. The server answers, fails or stays
silent; it may end any event stream.

* `client_streams`: two sessions and three requests. `NothingIsLeft`: however the
  stream ends, the connection that the server named is deleted, and its cookie
  does not stay. `WritesGoOn`: a write does not wait for a stream that is gone,
  nor after the stream has closed. With two sessions one stream's end meets
  the other's request; three requests make one pending in each and one on its way.
* `http_stream_reopen`: expected to fail, see section 6.

An initialize that the server refuses after `close()`, with a cookie, leaves that
cookie in the store: the server names no connection then, and `NothingIsLeft`
speaks of named ones only. Nor does it say that a late DELETE has the cookie: one
that is sent after `close()` while the body of the initialize response was read
has none, for `close()` had no id to delete by and cleared the store at once
(`src/http-stream.ts` 201, 511).

### WsStream - the client over a WebSocket

`WebSocketStreamTransport`. `sendQueue` is the chain of sends, the user's (one at a
time, as the writable stream has it) and error replies; `sender` is what the
first of them awaits. The socket opens, closes or fails at any time; there are
sockets without `readyState`.

* `web_socket`, the client's end: four sends. `SentInOrder`: sends go out in order,
  and none is taken for sent after the stream has closed. `SendsSettle`: no send waits for a socket
  that nobody waits for any more. One send of the user and any number of replies
  may queue: four make each the first, the last, and between others.

### ProtocolRouter

`AgentProtocolRouter`. `pc` is what `route` awaits, `failed` whether it has thrown;
`routed` is the stream that the agent reads, `lifecycle` what the agent's
connection offers (`closed`, `startConnectHandlers`), `replies` what was written in
answer. The first item is of one of three kinds, batched or not, with a version
and with params that convert or do not.

* `applications`: every set of agents, versions around 1, 2 and 65535, three
  answers. `RoutedAsAsked`: the highest agent that suits has the connection, the
  client is turned away only when none does, connect handlers start once, and a
  batched initialize is answered with a batch, and nothing else is.
  `ClosedResolves`: `closed` resolves on every path, and route keeps no reader.

### LineBuffer, NdJsonStream

`LineBuffer` has the operators of `line-buffer.ts`: bytes are those of JSON, others,
carriage returns and newlines. `NdJsonStream` is the loop of `ndJsonStream` with
them: `loop` is what it awaits or does, `writes` the chain `outputWrite`.

* `client_streams`: five bytes of input in chunks of every size, a limit of two
  bytes. `MessagesAreTheLines` compares with the definition "split at newlines",
  which is written with the set of the newlines' places and not as a recursion
  (`LinesOf`, `RestOf`, `MessagesOf`, `Allowed`): nothing of the buffer is in it.
  Five bytes make a line at the limit with its return and newline and a line
  behind it, one over the limit, and blank ones.

### ActiveSession - sessions of v1

`attachSession`, `ActiveSession`, `AsyncQueue` and `SessionUpdateRouter`. `wire` is
what the agent has sent; the connection handles one message after another, and
`reactions` are the prompts whose promise reacts in the microtasks between two
messages. `sessions` has each queue: values, readers that wait, `failed`.
`seen` and `due` are history: what readers got, and what they should get.

* `applications`: two sessions of one id or two, two prompts, an update, one
  reader. `InOrderOfTheWire`: nothing that the agent sent for a session, from its
  response on, is missed, misattributed or out of order, stops included.
  `NoReaderWaits` for what is there, or for a session that is over. Sessions meet
  only in the router's set for an id, where two show what more would.

`readText()` takes what is in the queue up to the first stop. `prompt()` drops only
errors of earlier turns, so that stop may be of a turn which nobody has read
(`src/acp.ts` 886); the order of the wire is all that can be said of it.

### InitializationV2

`InitializationState`, the guards in both directions and the calls of the contexts.
`jobs` is the microtask queue; `waiting` what waits for the barrier. Messages of
the peer and calls of the user pass, wait or are refused.

* `applications`: two messages and two calls, for either role.
  `PassesInitialized`: nothing passes a connection that is not initialized, and
  those that waited keep their order. `WaitersSettle`: whatever waits passes or is
  refused. What comes in the two or three microtasks after the end of initialize
  finds the status "initialized" and overtakes those that wait: the order is one
  of those that waited only.

### ActiveSessionV2

A session of v2 with the microtasks between its response and its queue (`Adopt`,
`Attach`), and between an update and its router (`Route`, behind the guard), one by
one. An idle update ends a turn; prompts may overlap; `readText` has a cursor.

* `applications`: two prompts, two updates, two readers. `InOrderOfTheWireV2`:
  the session is attached before its first update is routed, and nothing is missed.
  `TextIsOfOneTurn`: `readText` returns nothing of before its prompt, and not at all
  when another prompt was active with it. `NoReaderWaitsV2` also for the news that
  its prompt overlaps. One session, as sessions meet only in the router (above).

An idle update ends whichever prompt awaits completion when it is routed, also one
that the agent sent before it had the prompt (`src/v2/acp.ts` 2817). The text of a
turn may therefore be empty, and `TextIsOfOneTurn` does not say it is complete.

## 4. Fairness

The event loop runs every continuation that is ready, so the continuations of
the SDK are weakly fair: writes and reads of a stream that accepts them, the
router, the pump, the handling of frames, timers. Applications, agents and
clients are not, with one exception each time it is needed and said so:

| Specification | Fair | Not fair |
| --- | --- | --- |
| `RpcConnection!LiveSpec` | `Write`, `Receive` of each peer | sending, cancelling, answering, failing, closing |
| `RpcDispatch!LiveSpec` | a handler's promise settles | adding, disposing, responding, cancelling, closing |
| `RpcBatch!LiveSpec` | taking a batch apart, the write of the reply, its receipt; a notification's handler settles | answering, closing |
| `HttpConnection!LiveSpec` | router, inbound writes, woken POSTs, the stall timer, unregistering, the end of a finished stream, the end of output once the agent's connection closed | reading by clients, reading and writing by the agent |
| `AcpServer!LiveSpec` | continuations of the server, and the end of output once the agent's connection closed, for each connection | agents, clients, settling an upgrade, closing |
| `OutboundChannel!Fairness`, in `Outbound!ChannelSpec` | handing over a write, closing and aborting the sink, the router's `read` and its `pull` | writing, closing, aborting, the timer of `end()`, a router that cancels |
| `SseResponse!SseLiveSpec` | reading the body, delivering, writing, and the keep-alive timer | clients that read, drain or leave, the connection that pushes, finishes and aborts |
| `HttpStream!LiveSpec` | posting, a DELETE that is answered or fails, and fetches that fail once aborted | the server's other answers, event streams, the user |
| `WsStream!LiveSpec` | sends that may begin, finish or fail, and the end of the writable stream | the socket, the user |
| `ProtocolRouter!LiveSpec` | the steps of `route`, the agent reading its stream | clients, agents that write, cancel or close, the output that fails |
| `InitializationV2!LiveSpec` | microtasks, the handler of initialize returning, its response being written or failing, the peer's answer | messages and calls, closing |
| `WsServerSession!LiveSpec` | handler, pump, router's end, stall timer, and the failing answer to an initialize whose connection shut down | reading by the client, the agent (answering, reading or giving up a write), the socket |

`OutboundMailbox`, the sessions and `NdJsonStream` are checked for safety only: what
they wait for is the agent's or the user's to do, and `NoReaderWaits` and
`NoLostWakeup` say as invariants that nobody waits for what is there. Timers and
socket events run between microtasks, never among them; where that matters a
guard says so (`NoMicrotasks`). Deadlock checking is off in every
run: each of these systems may stop, having nothing left to do.

## 5. Proofs

TLAPS proves the following for every value of the constants that meets the
modules' `ASSUME`s, so for any number of requests, leases, messages and frames.

`RpcConnection_proof`: `TypeCorrect`, `NoRequestHangs` (`PendingIsTracked`),
`AnswersAreTheCallees` (`AnswersAreAuthentic`: a promise that settled by a
response has the result with which the callee's responder was used) and
`Refinement` (`ImplementsCalls`). The properties are not inductive: whether a
received response is authentic depends on messages that are under way, so the
invariant `IInv` speaks of `InFlight`, the wire followed by the unwritten part of
the write chain. `Flow` says that a request is in flight at most once and only
before its receipt, and that a response in flight carries what its responder was
used with; `IdsAreIssuedInOrder` that ids from `nextRequestId` on are unused on
both sides. Lemmas on `FlowOK` (prefix, tail, concatenation) carry it through
each step; the refinement then maps each action to one of `RpcCalls` or to a
stutter.

`EndsAgree` (`PeersAgree`), in the same module, builds on `IInv`. That a
response finds its request pending is not inductive either: a request that is
still under way, or whose responder is open, will lead to one. `Agreement` says of
all three, as `Unanswered`, that the caller has their ids pending while it is open,
that no two responses in flight have one id, and that a cancellation in flight was
asked for; `Registry` that the registry holds the open responders and the
responses in the write chain, each there once. `IInv` separates the stages: what is
in flight as a request has no responder, what is in flight as a response has a
used one.

`NoAnswerIsLost`, on top of both, is the safety part of `AnswersAndCancelsArrive`:
while both ends are open, a request that is pending is in flight, open at its
callee, or answered by a response in flight, and a cancellation that was sent has
stopped its request, came too late, or is in flight. For that a cancellation must
never overtake its request (`CancelsBehind`), or the callee would ignore it.

`RpcDispatch_proof`: `TypeCorrect`, `EveryRequestKept` (`NothingDropped`) and
`RegistryKept` (`RegistryIsExact`). `OnePlace` says that a message is running,
queued or claimed, in one way and once (so `DispatchesShorten`: a run only gets
shorter and is not begun anew, the safety part of `DispatchEnds`); `RestIsLeft`,
that a static handler was offered the message of a run or is ahead in it, so that
"method not found" comes last; `NoneLost`, that a request which arrived is in one of
these places or has a response. For the registry, `ResponsesFit` and `EntriesFit` say that a
response belongs to a request that arrived and an entry to a request of its id.
`BatchesReplied` (`RepliedWhenComplete`), in the same module, is about `RpcBatch`,
of which `RpcMessages` has the instance `Batch`; it rests on `MembersAssumption`, that
batches are sequences of members, at least one in each. `Accounted` gives the counters
their meaning: what the loop has not gone through, is open, or is being processed, and
what has been collected, once each. `BatchTypeCorrect` adds that the counters stay
within the batch, and that those of a batch nobody has looked at are zero
(`NothingCounted`). `BatchesCanReturn` is the safety part of `BatchReturns`: a caller
is told what its callee answered, and when everything is answered only the processing of a
notification, or the reply that is under way, is before its return; `ReplyFits` relates
the two ends for it.

`HttpConnection_proof`: `TypeCorrect`, `BufferedWithinLimits` (`OutputIsBounded`),
`ProgressIsNoticed` (`NoMissedProgress`), `StreamsKeepOrder` (`InOrderPerStream`).
`Counted` says what the counters count, as finite sets: the places of `Waiting`
messages and the sessions without a receiver; that the router does not read
without room bounds what a message may add. `Ordered` relates what waits in the
channel to what was routed, `RoutesKept` says that a forwarded request which is not
answered yet has its route, and that no two answers are under way for one
request. The four parts need each other's types, and nothing else of each other.
`NothingIsHeldUp` is the safety part of `AgentGoneIsNoticed`: once the agent has gone,
the registry is told or the router goes on, requests that wait are given up by their
timer, those under way are refused or fail from the first of the write chain on,
which holds exactly them (`ChainFits`), and streams with nothing left are ended.

`Outbound_proof`: of the mailbox, `TypeCorrect`, `FifoAcrossLeases` (`InOrderOnceEach`),
`NoWakeupIsLost` (`NoLostWakeup`), `AccountingIsExact` and `SingleHolder`. Here
the conjunction of the properties, with "an aborted mailbox is finished", is
inductive. For the responses of `SseResponse` on a mailbox, in the same module:
`ResponsesCostOneEach` (`OneMessageAtRisk`) and `MailboxUnderResponses`, that the
mailbox keeps its promises although the bodies abort and release it in one step.
That what is written is in order rests on `OneIsLive`: at most one body may still
write, that of the holder or the one which held the mailbox when it was
aborted. `ReadersFit` says that no `receive` is under way while a message waits to
be written, so a body has one at most, and `NewestIsHeld` that it is the newest
taken. That few are lost counts the leases that may have cost one (`AtRisk`), a set
which each step changes by one lease at most (`RiskOfOne`). `LeasesAreReleased`, the
safety part of `LeasesComeBack`, rests on `ResponseFits`: how body, reader and socket of
a response fit, in particular that an open body which is read has a `receive()` under
way, and that no response waits for a socket that has closed.

Of the channel, in the same module: `ChannelTypeCorrect` and `NoWriteIsLost`
(`WritesThenTheEnd`). It needs `Conserved`, that a message is with the writer, in the
queue or taken; `SinkInOrder`; `ChannelReaderFits`, a reader that waits has nothing to
read; and `EndsFit`, how the ends of both streams go together: without it, that a
channel which closes has let everything through would not follow. `WritersCanGoOn` is
the safety part of `WritersGoOn`: a write waits only for a router that has yet to ask
(`WaitsForTheRouter`).

`WsServerSession_proof`: `TypeCorrect`, `ClientCannotOverfill`
(`BuffersAreBounded`), `ClosedSessionsAreGone` (`NothingLeftBehind`). That a closed
session's connection has shut down, or its router is done, rests on
`ForgottenWhenDone`: the registry forgets a connection only for one of these
reasons, so `discard` shuts down what it finds and may miss only what is over. The
bound on `unsent` needs `Unlooked`, the number of messages that may still be sent without
another look at the socket: `unsent + Unlooked` stays within the limit and two
while the session is open, and a closed one sends nothing. `SessionsCanEnd` is the
safety part of `SessionsEnd`: whatever has begun to end waits for the pump, the router,
the handler or the socket's timer, and that one can take a step; the handler of a closed
session can, unless the agent has a write of it and there was no shutdown, and that
session begins no other write (`NoWriteBegins`, an action property). `InitializeFits` and
`ConnectionFits` say how initialize, lease and connection go together, and
`RoomIsMissed` that a frame waits for room only while a message is queued.

The client's end is in the same module, `Client` of `WebSocketEnds`, for any number of
sends: `ClientTypeCorrect` and `SendsKeepOrder` (`SentInOrder`), by `QueueInOrder`
(what is queued was queued in order, behind what was sent) and `SenderHasASend`; and
`SendsCanSettle`, the safety part of `SendsSettle`: a send waits for an opening only
while that may come or is told off (`WaitsForTheSocket`).

`AcpServer_proof`: `TypeCorrect` and `NoConnectionLeaks`
(`LiveConnectionsAreHeld`). It needs `Begun`: nothing of a connection comes before
its creation, and its router starts when initialize is done with, so a router that
starts is that of a connection which was held before. What the registry knows it
watches (`WhatIsKnownIsWatched`), so the end of a connection does reach it; what it has
forgotten, or never learned of, it does not learn of again (`ForgottenForGood`), least
of all the connection of a session that has closed (`SessionsEndForGood`). With
`TheEndReachesAll` (`CanEnd`: a request that waits has an initialize that may still end,
and a connection without its agent has a router, or has shut down) these are
the safety parts of `TheEndIsFinal` and `InitializeIsAnswered`.

`ClientStreams_proof` is about both streams of the run `client_streams`.

* Lines: `LinesTypeCorrect` and `LinesBecomeMessages` (`MessagesAreTheLines`), for any
  input, any chunks and any limit. `InTheMiddle` says that the lines up to some
  newline are done with, and that the bytes behind it are those in the buffer, the
  chunk, or both; `AtTheEnd` and `AtAnError` that all lines are, or those before the
  one that was too long; `LoopFits` and `AnswersFit` what the loop awaits in each. The
  lemmas are about the reference: the lines of a sequence that grows by bytes without
  a newline, or by one, and the messages of the lines when there is one more. Both
  count (the i-th newline is the one with i - 1 before it), so they rest on
  lemmas on cardinality.
* HTTP: `HttpTypeCorrect`; `WritesWaitForOpening`, that a write waits for a stream only
  while that is opening, the safety part of `WritesGoOn`; and `NothingIsLeftBehind`,
  that a connection the server has named is deleted, and its cookie gone for good,
  when the teardown is done and no write is under way: the safety part of `NothingIsLeft`.
  `WriteFits` says what a write under way means for the connection's id,
  `DeletedWhenOver` which of the two ends has sent the DELETE, the teardown or a write
  that was late, and `NoCookieAfter` when the cookie may come back.

`Applications_proof` is about the four modules of the run `applications`, and of its
own specification: `PartsAreThere` shows that the run's specification implies that
of each part, and `ApplicationsAreSafe` that all seven of the run's invariants hold
of it.

* The router: `TypeCorrect` and `RoutesAsAsked` (`RoutedAsAsked`), for any versions
  and any number of answers. `AttachedOnce` says that an agent, once there, is the
  one that was selected, `RefusedOnce` that an error is written only when none
  was, `FramedOnce` that a v1 agent's writer knows whether it has framed.
  `ClosedOnlyWhenOver` is the safety part of `ClosedResolves`: `closed` has resolved when
  the connection is over, not before, and then nobody holds the reader.
* Sessions of v1: `SessionTypeCorrect`, `SessionKeepsOrder` (`InOrderOfTheWire`) and
  `ReadersAreServed` (`NoReaderWaits`), for any number of sessions, prompts,
  updates and readers. `QueueOK` is the property of one queue with what is under way:
  what readers got, what is queued, and the stop of a prompt whose promise has still
  to react (`Pending`) are together what is due, or the beginning of it when the
  queue has failed. `Named` says that messages and reactions are about prompts and
  sessions that exist.
* Initialization of v2: `InitializationTypeCorrect` and `NothingPassesBefore`
  (`PassesInitialized`), for any number of items on either side. That those who waited
  pass in their order is about microtasks that overtake each other: `JobsInOrder`
  compares two of them by the step they are at (`Rank`), for the one behind is as
  far as the one before it and later, or a step further and earlier. `Stages` says
  what there is in each phase, and `Arrived` that what is on its way has come
  already. `WaitersCanSettle` (`NoWaiterIsLost`) is the safety part of `WaitersSettle`:
  what had to wait has passed, was refused, is a microtask that does either, or waits
  for an exchange that is under way (`BarrierEnds`).
* A session of v2: `SessionV2TypeCorrect`, `SessionV2KeepsOrder`
  (`InOrderOfTheWireV2`), `TextsAreOfOneTurn` (`TextIsOfOneTurn`) and
  `ReadersAreServedV2` (`NoReaderWaitsV2`), for any number of prompts, updates and
  readers. That the session is attached before the first update reaches the
  router is `Awaits`, on the queue of microtasks: while the session is being
  attached, no update is ahead of the microtask that does it. `Order` adds up what
  readers got, what is queued and what is between guard and router. For
  `readText`, `EntryFits` relates each entry to the cursors: its sequence number is
  below that of every prompt begun after it, and a stop has ended those begun before.
  So what `readText` goes on with (`JobFits`) is not of before its prompt, and it
  returns for a prompt that is over (`TextsFit`), which nothing can overlap any more.

The sessions use lemmas on `Filter` (its type, an element at either end,
concatenation, a sequence it leaves as it is). It is a recursive function, so the
lemmas need induction; there being no induction principle that takes an
operator, `KeepsExists` argues by the least counterexample, with `NatMin`
from the well-foundedness of the naturals.

The last step of each is temporal: from the initial condition, the step and the
consequence.

So every safety invariant that a passing run checks is a theorem, for every value of
the constants. Only checked by TLC, on the instances of section 3: the properties with
`~>`, which are all the temporal ones but the refinement `ImplementsCalls`. Fairness and
`ENABLED` are out of the prover's reach. Each of them has a part that is about safety:
nothing waits for someone who will not come. That part is proved, with the guards of
those who are waited for written out, and what is left to TLC is that fair steps
which can be taken lead to the end.

| Checked by TLC | Its safety part, proved |
| --- | --- |
| `AnswersAndCancelsArrive` | `RpcConnection_proof!NoAnswerIsLost` |
| `DispatchEnds`, `BatchReturns` | `RpcDispatch_proof!DispatchesShorten`, `BatchesCanReturn` |
| `WaitingEnds`, `AgentGoneIsNoticed` | `HttpConnection_proof!ProgressIsNoticed`, `NothingIsHeldUp` |
| `InitializeIsAnswered`, `TheEndIsFinal` | `AcpServer_proof!TheEndReachesAll`, `ForgottenForGood` |
| `WritersGoOn`, `LeasesComeBack` | `Outbound_proof!WritersCanGoOn`, `LeasesAreReleased` |
| `SessionsEnd`, `SendsSettle` | `WsServerSession_proof!SessionsCanEnd`, `SendsCanSettle` |
| `WritesGoOn`, `NothingIsLeft` | `ClientStreams_proof!WritesWaitForOpening`, `NothingIsLeftBehind` |
| `WaitersSettle`, `ClosedResolves` | `Applications_proof!WaitersCanSettle`, `ClosedOnlyWhenOver` |

The two expected violations of section 6 are found by TLC, and nothing is proved of
them.

## 6. Disagreements with documentation and tests

Each has a run that is expected to fail, and TLC's trace shows how it comes
about. `PROJECT.json` quotes the lines.

* `rpc_dispatch_retry`, `RetriedAfterHandlerAdded`. A handler may decline a
  message and ask for a retry, "after" a handler is added, as the comment on
  `addDynamicHandler` has it. The message enters `retryQueue` only when its run
  has gone through its snapshot of handlers (`src/jsonrpc.ts` 1409). A handler
  that is added in between, while a later handler of the run is still deciding,
  is neither in the snapshot nor finds the message in the queue: the message
  stays there, unanswered, until yet another handler is added.
* `http_stream_reopen`, `ResponsesHaveAStream`. A session's stream that ends
  between the look at its readiness and the noting of the pending request, one
  microtask later, raises no error, and the request is posted with no stream to
  bring its response (`src/http-stream.ts` 225, 234, 439). Tests say that one or
  the other happens. This is a matter of one microtask, but needs only that the
  end of a stream is handled before it.

## 7. Not modelled, and what is left

Of the modelled components: batches whose requests are cancelled, empty ones, and
those that mix calls and responses; a batch given to a client's HTTP stream, which rejects
that write; a shutdown without an error, whose aborted mailboxes end a pending
`receive()` where `SseResponse` lets it reject, so that the body closes instead of
ending with an error (`src/connection.ts` 236-241); `clientResponseRoutes` of an HTTP connection
and permission to answer by it; a disabled mailbox; what rewriting the params of
initialize yields; headers; sizes of messages other than one unit; `console`
output; growing of `MessageBuffer`'s array.

Not modelled at all:

* the generated schemas, types, validators and guards, which are more than half of
  the lines of the repository, the scripts that generate them, examples and test
  support: they have no state and no control of their own;
* most of `acp.ts` and `v2/acp.ts`: tables of methods, typed overloads that register
  a handler or forward a call to `Connection`, which `RpcConnection` and
  `RpcDispatch` have;
* predicates and routing of one message (`isResponseBatch`, `needsReply`,
  `determineRoute`, `protocol.ts`): the models begin with the kinds they tell apart;
* the parser of event streams (`parseSseStream`): `HttpStream` sees its messages;
* reading request bodies and headers in `node-adapter.ts`: input and output of Node.

The share of all lines that the map covers is therefore small, and would not grow
by modelling more of what can go wrong: the code that has state across callbacks is
`jsonrpc.ts`, `connection.ts`, `server.ts`, `ws-server.ts`, `server-sse.ts`, the three
client streams, `protocol-router.ts` and the session and initialization parts of the
two APIs, and each has its module.

Next, in this order:

1. `clientResponseRoutes` in `HttpConnection`, with POSTed responses.
2. Cancellation inside batches: `RpcBatch` on top of `RpcConnection`'s registry.
3. `parseSseStream` over bounded inputs, as `NdJsonStream` does for lines.
4. `HttpStream` and `HttpConnection` on one network, as an implementation of a pair
   of FIFO channels while no session stream ends.
