# Pushpin in TLA+

Pushpin is a reverse proxy that holds HTTP requests and WebSocket connections open
and sends them items which publishers send it. This directory holds TLA+ models
of the parts of Pushpin whose correctness depends on order, timing or failure, TLC
configurations that check them, and TLAPS proofs.

Paths below are relative to the repository; the C++ and Rust sources are under
`src/`.

## 1. Inventory

Four processes make up the system. `connmgr` (Rust) has the clients' sockets and
speaks ZHTTP, a protocol of messages over ZeroMQ, to the `proxy` (C++), which speaks
ZHTTP to `connmgr` again to reach the origin server. When an origin server's response
asks for a hold, the proxy hands the request over to the `handler` (C++), which keeps it
and answers it. A WebSocket connection stays with the proxy, which tells the handler of
it over a control protocol. The `runner` starts the others. `proxy` and `handler` are event
loops: handlers of events run one at a time and to their end, so concurrency is between
processes, and between one handler and the timers, callbacks and messages that come
after it. `connmgr` has several threads, each an executor of tasks that are interleaved
at their awaits and may be cancelled at each of them.

| Component | State | Operations | Hard behaviour |
|---|---|---|---|
| Sequencer (`handler/sequencer.cpp`, `publishlastids.cpp`) | last id per channel (bounded, LRU), pending items in two indexes, id cache, expire timer | addItem, sendItem's loop, clear, expiry | publishes out of order, lost or twice; eviction; a loop over a list that the loop changes |
| Rate limiter (`handler/ratelimiter.cpp`) | buckets of weighted actions with debt, round-robin position, timer | addAction, setup, processBatch, timeout | a timer that starts and stops itself; actions added between passes; weights above the batch |
| HTTP session (`handler/httpsession.cpp`) | hold state, instruct, channels with prev-ids, publish queue, running filters, next-link request, timers | some twenty event handlers | lost publishes, updates that race publishes, filters that answer later, client credit, failing next links, retries |
| Update manager (`handler/httpsessionupdatemanager.cpp`) | buckets of sessions by timeout and URI, index by session | registerSession, unregisterSession, timeout | sessions held by pointer in two indexes, one timer for many |
| WebSocket session (`handler/wssession.cpp`) | channels, pending requests, delayed message, publish queue, filters | publish, acknowledgements, delayed sends, expiry | filters that answer later; a session removed meanwhile |
| WebSocket control protocol (`proxy/wscontrolsession.cpp`, `wscontrolmanager.cpp`, `wsproxysession.cpp`, `handler/handlerengine.cpp`) | a session on each side, pending items and requests, queues between them | announce, subscribe, GRIP messages, sends, acknowledgements, keep-alives, cancel | two sockets without a common order, loss, restart of the handler, timeouts on both sides |
| Handler engine (`handler/handlerengine.cpp`) | sessions by id and channel, shared subscriptions, deferred work | accept, inspect, publish, control commands | work that waits for answers while sessions go |
| Statistics (`core/statsmanager.cpp`) | counts, subscriptions with linger time | add, remove, refresh | unsubscribing late races subscribing again |
| ZHTTP in C++ (`core/zhttprequest.cpp`, `zhttpmanager.cpp`, `zwebsocket.cpp`) | credits, sequence numbers, buffers, timers | read, write, pause, resume, expire | flow control, handoff between processes |
| Proxy sessions (`proxy/proxysession.cpp`, `requestsession.cpp`) | request and accept state | inspect, proxy, accept, retry | the handoff and its failure |
| WebSocket over HTTP, SockJS (`proxy/websocketoverhttp.cpp`, `sockjssession.cpp`) | events in and out, a request at a time | requests, retries | repeated requests, offsets |
| Connections (`connmgr/connection.rs`, `websocket.rs`, `track.rs`) | per connection: HTTP or WebSocket protocol, buffers, credits both ways, sequence numbers, the peer's address | read, send, credit, handoff, redirect, close, cancel | every await is a select over sockets, packets, timers and cancellation; a session's packets meet its successor |
| Server workers (`connmgr/server.rs`, `batch.rs`) | table of connections by key, channel pools, batches | accept, send, keep-alive scan, cancel batches, stop | keys and channels used again, tasks that wait for one another over bounded channels |
| Client workers (`connmgr/client.rs`, `pool.rs`) | sessions by id, pool of origin connections | route, start, finish, stop | ids used again, replies that are late or twice |
| Socket managers (`connmgr/zhttpsocket.rs`) | handles, their lists, sessions by id | register, pass on, clean up | handles that go while the manager waits for another |
| Listener, resolver, TLS (`connmgr/listener.rs`, `resolver.rs`, `tls.rs`) | positions, slots, registrations, cached certificates | accept, resolve, handshake, read, write | flags and events of two threads, slots used again, one socket edge for four operations |
| HTTP/1 (`core/http1/`) | state of a request and a response, buffers | headers, bodies, chunks | messages cut anywhere, early responses, use of a connection again |
| Rust runtime (`core/executor.rs`, `reactor.rs`, `channel.rs`, `timer.rs`, `list.rs`, `buffer.rs`, `eventloop.rs`, ...) | tasks, wakers, registrations, queues | poll, wake, send, expire | lost wakeups, fairness of turns, slots used again |
| ZeroMQ in Rust (`core/zmq.rs`) | last events, applied specs | send, receive, apply specs | a descriptor that signals once, specs that fail half way |
| Filters, instructs, formats, routes, runner, API tools | none that outlives a call | parse, format | - |

`PROJECT.json` lists each of them with what is modelled, and under `hazards` the places
that are hard to test with the properties that cover them.

How the modelled parts interact. In the handler a published item enters the *sequencer*,
which puts it in order by channel and signals it to the *engine*; the engine adds a
publish action per subscribed session to the *rate limiter*; executing it calls `publish`
of an *HTTP session* or a *WebSocket session*. An HTTP session that notices a gap, or was
quiet for too long by the *update manager*, fetches the origin's next link, through the
rate limiter if it may wait. A WebSocket session sends what it publishes over the
*control protocol* to the proxy, which writes it to the client.

In `connmgr` the *listener* gives an accepted socket to a *server worker*, whose
connection reads *HTTP/1* (over *TLS* or not) and sends *ZHTTP packets* through its
worker's tasks and the *client socket manager* to the proxy. The proxy's own requests come
back through the *server socket manager* to a *client worker*, whose connection asks the
*resolver*, connects to the origin server and relays. All of it are tasks of the
*runtime*: an executor per thread, woken by its reactor.

## 2. Modules

| Module | Models | Extends |
|---|---|---|
| `Sequencer` | `Sequencer` with `PublishLastIds` (LRU table), and the engine's subscribe, unsubscribe and recover | |
| `RateLimiter` | `RateLimiter` and `core/timer.cpp` | |
| `HttpSession` | `HttpSession` with its client, origin, limiter and update manager as environment | |
| `UpdateManager` | `HttpSessionUpdateManager` | |
| `UpdatePolls` | abstract: what sessions rely on the update manager for | |
| `WsSession` | `WsSession` and the engine's treatment of control items | |
| `WsControlSession` | `WsControlSession` and the `wsControl_*` side of `WsProxySession` | `WsSession` |
| `WsControl` | both sides, their queues, losses and restarts | `WsControlSession` |
| `ZhttpLink` | packets, sequence numbers, credits and addresses of `connection.rs` | |
| `ServerStream`, `ClientStream` | `server_stream_connection`, `client_stream_connection` and what they await | `ZhttpLink` |
| `StreamPair` | both, with the handler between them, which relays, hands off and loses packets | both |
| `WsStream` | `stream_websocket` of both sides over `websocket.rs` | |
| `WsDeflate` | compression, masking and framing of `websocket.rs` | |
| `WsHandshake` | the upgrade over both hops | |
| `ReqMode` | req mode of both sides, redirects, `pool.rs` | |
| `ZhttpPacket` | `zhttppacket.rs`: writing, `parse_ids` and `parse`, over the writer and the parser of `tnetstring.rs` | |
| `ServerWorker` | the tasks of `Worker` in `server.rs`, `batch.rs`, the handles it uses | |
| `MCServerWorker` | two instances for TLC: a worker that runs and stops, and one that only sends keep-alives and has more keys than they come to | `ServerWorker` |
| `ClientWorker` | the workers of `client.rs` behind the `ServerSocketManager` | |
| `SocketManager` | `ClientSocketManager` of `zhttpsocket.rs` | |
| `Listener` | `listener.rs` over rendezvous channels | |
| `Resolver` | `resolver.rs` | |
| `TlsStream`, `IdentityCache` | `AsyncTlsStream` with its waker; the cache of certificates (`tls.rs`) | |
| `Http1` | `http1/protocol.rs`, `client.rs`, `server.rs` | |
| `Runtime` | `executor.rs`, `reactor.rs`, `task.rs`, `time.rs`, events | |
| `LocalChannel`, `SyncChannel` | the two kinds of channel of `channel.rs`, with `select.rs` | |
| `TimerWheel`, `SlabList`, `EventLoop`, `RingBuffer` | `timer.rs`; `list.rs` and `memorypool.rs`; `eventloop.rs`; `buffer.rs` and `counter.rs` | |
| `ZmqSocket`, `ZmqSpecs` | `AsyncZmqSocket`; `apply_specs` (`zmq.rs`) | |
| `SequencerProofs`, `RateLimiterProofs`, `UpdateManagerProofs`, `HttpSessionProofs`, `WsControlProofs`, `ClientWorkerProofs`, `ServerWorkerProofs` | theorems | the component, `TLAPS` |
| `Services` | the services that stand alone and are proved about | instances of `Listener`, `SocketManager`, `IdentityCache`, `Resolver`, `SyncChannel`, `LocalChannel`, `EventLoop`, `ZmqSocket` |
| `ServicesProofs` | theorems about them | `Services`, `TLAPS` |
| `MCParts` | the other parts that stand alone | instances of them |
| `MCHttpSession` | three instances of the HTTP session | |

**Sequencer.** One action per operation. `addItem` is three actions by its early
returns: an item in the id cache, one that is not sequenced (no id, no subscription or
`noSeq`), and a sequenced one. The loops of `sendItem` and `expireTimer_timeout` signal
an item per round; a round is a step and no other action is enabled until the loop ends
(`Idle`). `ready` is the item signalled by a step. Pending items are records with the
time they were put aside, the two indexes sets of them. `ForgetLastId` stands for the
sessions' own removal of a channel's last id.

**RateLimiter.** Actions are their weights. A pass is `Timeout`, then a round per step
(`Execute`, `PayDebt`), then `EndPass` with `setup()`. The `Timer` is modelled as the
code has it: a repeating timer starts itself again before it signals, and `setInterval`
only stores the interval. `lead` (what was executed above the batch size) and `since`
are history.

**HttpSession.** The session is a record, the methods are operators from records to
records, and a handler is one step, with everything it calls. Exception:
`processPublishQueue` is a loop whose rounds are steps. The origin has a log of items per
channel; a publish of an item may be lost. A next link answers from its query's last ids
up to the log's end. `has` is history: what the client was given. `misuse`, `skipped` and
`assertion` record a response used out of order, an item out of order, and a failed
assertion; `early` that the client's credit started a next link that was waiting for its
retry. Keep-alives are modelled in idle mode. Left out: formatting, JSON-P,
statistics, the retry packet, and the limit on subscriptions.

**UpdateManager.** Time is in ticks, and a bucket's timer has the ticks left in `due`;
`Tick` waits for due timers. `quiet` and `deferredAgain` are history. `UpdatePolls` says
that only registered sessions are polled and a poll ends the registration.

**WsSession, WsControlSession, WsControl.** Operators from records to records for each
side; `WsControl` has the variables. An announcement goes by `toInit`, which any handler
reads, all else by `toHandler` and `toProxy`, each in order (ZeroMQ keeps the order of a
pair of sockets and no order between pairs). Any item at the head of a queue may be
lost and the handler may restart without its sessions, `LossMax` times. An item that
the session publishes passes the rate limiter (`limiter`) and the session's queue, where
filters may take their time. A frame queued behind a message of the origin server is
kept as the code keeps it, and the proxy ends where its assertion fails.
`requests`, `refused` and `gaveUp` are history. One connection stands for all: sessions
share only the sockets and the engine's maps, which are keyed by connection.

**ServerStream, ClientStream, StreamPair.** A connection is a record whose `pc` names the
await it is in; each arm of a select at that await is an action. Bodies are counts of
bytes, buffers have `BufSize` of them, and credits are what the code counts. The handler
is external: it relays packets in order, may hand either side off (a new address; what
was sent before must have been flushed) and may lose packets. A client connection exists
per session, a server connection serves one request after the other with a new session
id.

**WsStream.** The loop of `stream_websocket` is the same on both sides, so actions have the
side as parameter. A frame is a kind, a length and whether it is final; a send in progress
keeps the arguments it was started with, since the code's future does. A read finds any
part of a data frame, but all of a control frame; a frame that may not follow what came
before ends the connection. `script` is what is left to happen in a behaviour, and `slips`
is history: which of the known errors of section 3 a side has met. **WsDeflate** has
the bytes: what deflate puts out for a datum, masks as the set of positions a byte was
XORed with, the frames' headers, and a receiver's ring buffer, which wraps; `broken` is
history, that the decoder gave an error or was told of the end of a message too early.
**WsHandshake** has the extension headers as tokens, because what may go wrong is how they
are taken apart; the origin may answer an offer that was not made, with what the client
connection cannot keep, or twice. **ReqMode** has what lies on an idle or used origin
connection, and when it came. **ZhttpPacket** has numbers in the widths of their fields
(`Size`, scaled down), which a peer may exceed and the code cuts.

**ServerWorker, ClientWorker, SocketManager.** A task's awaits are values of its `pc`;
channels are bounded sequences. Tasks of one worker run one at a time up to their next
await; managers and handlers are other threads. Sequence numbers count modulo `SeqLimit`.
`ServerWorker` sees of a connection what the worker sees (it sends, receives, pauses and
ends), `ClientWorker` has the routing of later packets by session id.

**Runtime, LocalChannel, SyncChannel, ZmqSocket, TlsStream.** The same question, whether
anybody sleeps on what has happened, at five levels. An edge of a descriptor is reported
once; readiness, wakers, budgets and notices are as the code keeps them; kernel, library
and other threads act between any two calls. In `Runtime` a task awaits both directions of
a socket, one of them, or a channel and a timer; `dropped` is history, of the wakers that
an edge of the other direction has taken.

**Http1.** Tokens instead of bytes: a header is two (so it can be cut), the line with a
chunk's size two, content one each. Both ends read and write through bounded buffers, cut
anywhere. `slips` is history: which of the known errors of section 3 the connection has met.

**Listener.** The connection's place in the rotated list of sockets, `cts` flags and
events of two threads, the loop over the senders one turn per step. **IdentityCache.**
The times and the contents of the two files of a name are read one after the other;
whoever installs certificates acts in between. **Resolver.** A step is what is done
under one lock.

## 3. What TLC checks

`Services` and `MCParts` hold parts that do not interact within them: the variable `part`
says which part a behaviour is of. In `MCParts` the parts share `v1, v2, ...` as their
variables; in `Services` they keep the names of their modules, for the proofs.
Each property says of which part it speaks. `MCHttpSession` has three instances of one
module in the same way, `MCServerWorker` two.

| Run | Bounds | Shows |
|---|---|---|
| `stream_pair` | 1 request, bodies of 0 and 2 in buffers of 1, a handoff or a lost packet, a redirect, a buffer that grows | `RequestArrives`: bodies arrive whole, within their credits; `RequestsEnd`: every request ends |
| `ws_stream` | a message in three frames, the last one empty, a ping, a ping between two frames; two messages of one peer, one of each, or one and a handoff or the loss of a peer; buffers of 2, closes with a status from either peer | `MessagesInOrder`: whole, in order and once, but for the two slips of section 3; `NoFailure` (no assertion, no overrun of credits); `CloseCompletes`, unless a control frame was split |
| `server_worker` | 2 req and 1 stream connection, 2 accepted and 2 ids each, channels of 1, sequence numbers modulo 2; and, without a stop, 3 accepted, 2 batches of 1 key: the third key is not scanned | `OwnResources`, `SeqInOrder`, `CancelsSent`, `StopCompletes`; `KeepAlivesReach`: the handler of a connection whose key is scanned hears of it again and again |
| `client_worker` | 2 workers, 1 id of each kind used twice, channels of 1, 1 stop | `SessionsFound`: packets of a session reach the worker that has it, and only its own connection; `WorkersProgress`: requests are served and a stop completes |
| `services` | 2 sockets and 2 workers with room for 1 connection; 3 handles, of which 2 fit; 2 certificates, replaced twice; 2 resolver threads for 1 slot; channels of 0, 1 and 2; 2 slots and 3 registrations; a high-water mark of 1 | `HandlesServed`, `QueriesAnswered`, `SignalsKept`: each service serves those it is for, whoever else comes, goes or is slow |
| `parts` | see the instances in `MCParts` | `NoLostWakeup` (executor, reactor, TLS stream), `TimersOnTime`, `ContentKept`, `BodiesWhole`, `SpecsMatch`, `AnswersOwn`, `PacketsRead`, `CompressedIntact`, `HopsAgree`. The instances reach the errors of section 3 marked "excepted": the property excepts what these alone explain |
| `sequencer` | 2 channels, chains, rivals for an id and items without ids; table of 1, 2 pending per channel, wait and cache of 1 tick | a pending item leaves only by being signalled or with the subscription, gaps are passed only after the wait, every pending item leaves |
| `http_stream` | a stream: 1 channel, 2 items, queue of 1, 1 retry, filters that answer later; holds on 2 channels that change; a stream that goes on for ever | one well formed response with the items in order, waits that end, subscriptions that match the channels and assertions that hold, but after an early request; the client catches up |
| `rate_limiter` | 2 keys, weights 0, 1, 3 and 5, high water mark 6, 4 actions | no action without a timer, the rate is kept in the long run, everything is executed |
| `update_manager` | 3 sessions, 2 buckets | quiet sessions are polled within two timeouts, active ones no sooner than one, `UpdatePolls` is implemented |
| `ws_control` | 1 implicit and 1 other channel, any of 9 control messages, 2 publishes, 1 loss or restart, 1 frame or keep-alive | a cancel only after a loss, `HandlerKeeps`: acknowledged subscriptions are applied, the index names no session that is gone and the queue is served; `BothEnd`: neither side outlives the other |
| `http1_split` | 1 request in chunks, cut behind the line with a chunk's size | violation, finding 1 |

Why the bounds are enough to be interesting: a body of two bytes needs a second credit in
a buffer of one; two connections under one key, or one id used twice, are what it takes
for a leftover to meet a successor; channels of one are full after one message; a timer
wheel of two wheels with four slots has every kind of boundary; two channels make a
bounded table of one evict; two pending items, one for an id another waits for, fill the
limits; a weight of 5 exceeds the batch of 2 by more than one pass; one loss can hit
every item of a protocol, in every state of both sides. TLC visits all states within them.

Deadlock is checked in `stream_pair`, `ws_stream`, `server_worker`, `sequencer` and
`update_manager`, where something always remains to be done or the end is a step of its
own. In the other runs sessions, connections and queues come to an end.

### Fairness

- `Sequencer`: loops run on; the timer, while active, fires again and again (strong,
  because loops disable it) and time passes.
- `RateLimiter`: the event loop fires timers that are due and a pass runs to its end.
- `HttpSession`: what the event loop runs is run, timers fire, the origin answers
  requests at last, filters answer (strong, because queue processing disables and enables
  them), and a client that stays connected reads. Nothing makes publishes arrive.
- `WsControl`: items that are not lost are received, sessions are refreshed, and expired
  ones whose connection is gone are removed. Neither clients, nor origin servers, nor
  requests' timers are fair.
- `StreamPair`: a task that is ready is polled (that readiness wakes it is the subject of
  `parts`), the session timer of a side fires when its peer is gone or a packet was lost
  (a peer that lives sends keep-alives), an origin server answers in the end, and the
  handler ends the handoffs it starts. Timers for inactivity, clients and losses are not
  fair: that a request ends must not depend on them.
- `WsStream`: the same, and a peer answers a close, and an error of the protocol, with a
  close. That a peer disappears after the closes of both is possible and not fair.
- `ServerWorker`: the executor polls every task that can go on, timers expire, a
  connection sees its cancellation, and the manager goes on. Nobody has to stop the
  worker, and clients and handlers owe nothing.
- `ClientWorker`: likewise, and a connection does not last for ever.

That the C++ event loop runs handlers one at a time is assumed; what it runs on is
`EventLoop`.

### Findings

1. `http1_split`: a line with a chunk's size that arrives by itself is consumed by the
   server's protocol and left in the buffer, and is then decoded again as content
   (`core/http1/server.rs:270`).

The following were met while modelling and have no run of their own. Those marked with a
property are violations that TLC shows, with the constants given. Those marked "excepted"
happen in the passing runs: a history variable records them, and the property excepts the
connections, messages or tasks on which they happened and nothing else, so that it says
that the code has no other error of the kind. Without the exception TLC shows the error.

| Where | What | Shown by |
|---|---|---|
| `core/http1/protocol.rs:1142, 1520` | the socket takes all content of the last chunk and then refuses the closing chunk: nothing is reported as written, so the content is sent again, behind the terminator | `BodiesWhole`, excepted: `"req"` and `"resp"` of `Http1!slips` |
| `core/http1/protocol.rs:970` | an HTTP/1.0 request with keep-alive is answered as persistent, without a length | `BodiesWhole`, excepted: `"unframed"` |
| `connmgr/websocket.rs:781` | a compressed frame across the wrap of the ring buffer is garbled: the end of the input is told while the second part is still to come | `CompressedIntact`, excepted: `"early"` of `WsDeflate!broken` |
| `connmgr/websocket.rs:1202` | an empty final fragment behind a partly written frame that was not final is never sent, so the message does not end and the next one is an error of the protocol | `MessagesInOrder`, excepted: `"unsent"` of `WsStream!slips` |
| `connmgr/connection.rs:2632` | a control frame with more payload than there are credits goes on as several packets, each a whole one; what is left of it is read only when as many bytes as the whole payload are in the buffer again (`websocket.rs:1446`), so the rest of a close is never read | `MessagesInOrder`, `CloseCompletes`, excepted: `"split"` |
| `connmgr/server.rs:796` | the keep-alive scan covers `KEEP_ALIVE_BATCHES` times its batch of keys, which may be fewer than the keys that req and stream connections share: a stream connection with a high key gets no keep-alive | `KeepAlivesReach`, excepted: keys that are not `Scanned` |
| `connmgr/connection.rs:5350` | a `permessage-deflate` answer that the client connection cannot keep is passed over, and the connection opened without compression, which the origin uses | `HopsAgree`, excepted: answers with a smaller client window |
| `connmgr/connection.rs:4323` | a connection from the pool is looked at once, when it is taken; what the origin sends unasked after that is taken for the response | `AnswersOwn`, excepted: replies that came `"used"` |
| `connmgr/connection.rs:3690` | headers of the origin's 101 response that the proxy is to see are dropped (`proxy/wsproxysession.cpp:837` expects them) | `WsHandshake!GripPassed` |
| `core/reactor.rs:789` | a waker is taken by readiness it has no interest in; a task that awaits one direction of a socket only may sleep on, as `ResponseHeader::send` and `handle_expect` do (`http1/server.rs:293-329, 498-558`) | `NoLostWakeup`, excepted: wakers in `Runtime!dropped` |
| `core/channel.rs:610` | a sender that comes again and again can take the room another was told of | `LocalChannel!NoStarvation` |
| `core/zmq.rs:316` | a malformed message returns early, without the events being read again | `ZmqSocket!NoLostSignal`, `Malformed = TRUE` |
| `core/zmq.rs:449` | a spec that differs in its mode only is kept as it was | `ZmqSpecs!ModesApplied` |
| `handler/httpsession.cpp:1188` | the client's credit during the wait for a retry starts the next link at once and leaves the retry timer active; the second request's answer reaches an `assert(0)`. `SubscriptionsAlwaysKept` proves that no other way leads to a failed assertion of the session | `HttpSession!NoAssertionFails`, queue of 2 |
| `handler/httpsession.cpp:738` | the session may end while filters run, which clears the publish queue; when they finish, an item is taken from an empty queue | `HttpSession!FiltersResumeQueue`, queue of 2 |
| `handler/ratelimiter.cpp:120` | "After the first pass, switch to batch interval" takes effect one pass late, since a repeating timer has been restarted by then | `RateLimiter!PassesAreSpaced` |
| `proxy/wsproxysession.cpp:667` | frames in `queuedInFrames` are never removed; a delayed message that came during a fragmented one is sent again after every following message, and its second copy fails the assertion in `sendEventWritten()` | `WsControl!WritesArePending` |

Seen in the code, of consequence for whoever changes it:

- Connections: when a handoff's flush completes the body the phase is left without
  `handoffProceed` (`connection.rs:2293`); any packet during an error response turns the
  error into `BadMessage` (`connection.rs:1307`); an early response is noticed at the next
  send only (`http1/client.rs:239`); in req mode an error reply is skipped, so the request
  waits for its timeout.
- WebSockets: a control frame between the fragments of a message, which RFC 6455 allows, ends
  the connection (`websocket.rs:1365`).
- Workers: packets that are queued when a worker's handle task ends are dropped; a request for a
  session that exists is dropped silently; "Select the nth ready node, else the latest
  ready node" (`zhttpsocket.rs:994`) is said of a loop that takes the latest ready handle up
  to the one whose turn it is, else the first one after it; sending to a handle that is gone marks it invalid,
  and its queued messages go with it (`zhttpsocket.rs:646`).
- Listener: a lasting accept error is retried without a yield (`listener.rs:126`), so the
  stop is not seen; workers are stopped before listeners.
- Certificates: files that keep an older modification time when they replace others are
  never noticed (`tls.rs:225`).
- Runner: `service.rs` says that it waits until any service fails, and then joins all of
  them, without stopping the others.
- Handler and proxy: an action heavier than the high water mark leaves an empty bucket
  (the theorem `BucketsAlwaysHaveWork` names the condition `Fits` for that reason); a failed
  next link leaves its instruct in place; an item for a channel that a WebSocket session
  has left makes an entry that counts towards its limit; a dropped send acknowledges the
  first send that waits, not itself; a hint with an id moves a session's prev-id on.

## 4. What is proved

With TLAPS, for every value of the constants that the named assumptions allow.

**`SequencerProofs`** (`SequencerAssumption`, `LastIdsMaxAssumption`). The inductive
invariant `Inv` joins the types, the agreement of the indexes, the timer, the
subscriptions, finiteness of the pending sets and `ChainInv`: within the loop of
`sendItem` only the loop's own channel may have an item waiting for the last id, and the
loop is at that id. Without `ChainInv` nothing would say that the loop ends only when
the chain does. Lemmas say what the table operations, `Pend`, `Unpend` and `Signal` do to
the indexes; then there is a step per action. From `Inv` follow `TypeCorrect`,
`IndexesAlwaysAgree`, `PendingAlwaysHasTimer`, `ChainsAreFollowed`, `OnlySubscribed`, and
the action properties `PendingIsNeverLost` and `GapsAreWaitedFor`.

**`RateLimiterProofs`** (`RateLimiterAssumption`, `NoneAssumption`). `Inv` joins the types,
`WorkHasTimer`, that a pass runs on an active timer, and that it is at a bucket that exists;
a round's lemma says what it leaves of bucket and pass. `BucketsAlwaysHaveWork` needs `Fits`:
no single action is heavier than the high water mark. `RateIsAlwaysKept` is about the sum of
the buckets' debts. Its inductive part is `ExcessIsOwed`: during a pass, what has been
executed beyond the rate, with this pass's work counted up to its batch, is at most that sum.
The sum is the community modules' fold over a finite set; `SumExists`, by induction over the
size of the set, shows that the recursive function the fold chooses exists, and `SumChange`
what changing one bucket's debt does to it. Induction is an instance of the library's
well-foundedness of `<`, for a set of numbers in place of a predicate (`Induction`).

**`UpdateManagerProofs`**. `IInv` joins the types, the indexes and `TimesAddUp`, which
relates how long a session has been quiet to what is left of its bucket's timer; from it
follow `QuietIsAlwaysPolled` and `ResetIsAlwaysHonoured`. `PollsAreImplemented` is the
refinement of `UpdatePolls`: its initial state and a step per action.

**`HttpSessionProofs`** (`HttpSessionAssumption`). The state is one record and the code's
methods are operators on it, so the inductive invariant is a predicate `SessionInv` of a
session, and there is a lemma per method: in which condition it takes a session and in
which it leaves it. `Steady`, `Between`, `Sending`, `Proxied` and `Closed` are those
conditions; they are weaker than the invariant, since a handler breaks it half way.
`ResponseFits` and `HoldFits` relate the response and the kind of hold to the state (a
response hold has written nothing, so it never lacks credit); `QueueFits` says that
filters run on the queue's first item and only while the queue is sent, so an update
cannot overtake them; `IdsFit` that the session's prev-ids are what the client has and
that a request names them, without which the next link's response could repeat or skip an
item; `RequestsFit` that a request or a retry outside of its state comes from an early
start. From `SessionInv` follow `ResponsesAlwaysInOrder`, `WaitsAreAlwaysWoken`,
`SubscriptionsAlwaysKept` and `TypeCorrect`.

**`WsControlProofs`** (`WsControlAssumption`). `Inv` joins the types, what each side keeps
(`HandlerOK`, `SessionOK`, `ProxyOK`), what may be in the pipes (`PipeOK`), the numbers not
used yet (`FreshOK`), and `Quiet`, `SettledDone` and `NoCancel`. The argument of
`HandlerAlwaysKeeps`: items for the handler wait in one pipe until the announcement is
answered; an acknowledgement is emitted only in the step that applies its request; and
what removes a subscription later has a later number. `CancelsAreJustified`: as long as
nothing was lost there is no item whose receiver does not know the session.

**`ClientWorkerProofs`** (`ClientWorkerAssumption`). `Inv` says of every request in which
place it is (`OnePlace`), of every worker that its tables name its own live connections
(`TableAgrees`, `SessionReachable`, `IdsApart`), and of every pipe that what it holds is
still addressed rightly. The argument of `SessionsAlwaysFound`: a packet follows an
acknowledgement, so its session is routed, and a routed session is found by its id; ids
stay apart because connections that are done are removed before requests are taken, and
the tables admit no second use.

**`ServerWorkerProofs`** (`ServerWorkerAssumption`). `Inv` joins the types (`Shape`), the
registry of connections (`VacantKeys`, `ChannelsApart`, `Admitted`, `IdsOwn`,
`ChannelIsOwn`), `DoneOnce`, `TasksInOrder` and `BatchKept`: the batch has keys of live
connections only, while the worker runs exactly those that say so, and none while the
keep-alives task waits. The last part is needed because `bkey` is a position: it means
nothing any more once the batch is cleared. `BatchAddGives`, `BatchRemoveGives` and
`TakeGroupGives` say what `Batch` does; the loop that fills a batch is a fold, and
`AddExists` and `AddKeysSteps` take it step by step by induction over its length, so that
`AddKeysGives` can carry an invariant along it. `Kept*` are frame lemmas for what a task
leaves alone, and there is a lemma per action. That an accept finds a key (`RoomToAccept`)
is a counting argument: the other mode has at most its share of the connections.
`OwnResourcesAlways` follows.

`Numbered` adds what `SeqInOrder` needs, because the queue of packets stands between the
two sides that count: `Numbers(out, n, a, b)` says there is a numbering of the queue that
leads session `n` from `a` to `b`, one step per packet that names it, and `InOrder` that
for a session its handler expects it leads from the handler's number to the connection's.
`NumbersAppend` and `NumbersTail` push one packet and take one off; `NextBatchMessageSends`
says that a packet for a group names each of its connections once with the number it is
at. Around it, `NumbersApart` and `NumbersNew` (no connection shares its number, nobody
has heard of a number not given out) and `IdlesNew` keep sessions from mixing, and a
session whose packets were dropped is no longer expected. `AlwaysInSequence` follows.

`Stopping` adds what `CancelsSent` needs: both handles end after their connections and
before the cancels (`AllEnded`, `HandlesEnded`), so that no connection moves any more; a
round of the loop begins with an empty batch (`Emptied`); and the cancel of a session with
a known handler is still to come, in the batch, on its way or there (`Cancelled`). `Known`
excludes a session that no handler has heard of, which no cancel would end. The argument
that the loop leaves out nobody: a batch that is filled from empty has no more addresses
than keys (`Fills`), so `Batch::add` refuses a key only when it is full
(`BatchAddTakes`), and the loop stops before the key that would be refused
(`FillTakesAll`, by induction over the keys). `CancelsAlwaysSent` follows.

**`ServicesProofs`** (`ServicesAssumption`: bounds are numbers, `None` is not a value of the
data, there is a socket, a worker, a thread). Each section is about the `Spec` of one
service, for all sizes that its `...Sizes` admits. The last section shows by a lemma per
service that a behaviour of `Services` with that `part` is a behaviour of the service.

- *Listener* (`ListenerInv`). That a connection is never dropped needs more than what
  `ConnectionsPlaced` says of connections: when one was accepted some sender is writable
  (`SenderLeft`), and it is still among the `WorkerCount - tries` senders that the loop has
  not tried, which is counted by `Ahead`, the distance in the order of turns. `TurnNears`
  gives the bound of `TurnsTaken`: how often a writable sender was passed over and its
  distance add up to less than the number of workers.
- *SocketManager* (`ManagerInv`). `GivenSoFar` is `HandlesServed` in the middle of a send:
  a handle still in `todo` has all but the last packet. `ListsSound` says a handle is in
  its list once, and that what `cleanup` removes is dropped. `cleanup` and the loop over
  the handles are filters of a sequence; `KeptExists` and the lemmas after it take them
  step by step, by induction over the length. `HandlesAlwaysServed` is about this and the
  listener.
- *IdentityCache* (`CacheInv`). `LoadedIsOld` compares times: a file that was not written
  after the time of what was loaded has the content that was loaded; `ReadIsOld` says
  the same of a load in progress, whose two files are read one after the other. `Finds`
  carries along the list of candidates why earlier names were passed over.
  `ServedIsCurrent` follows: a certificate that nobody touched during the handshake is
  served as it is in the files.
- *Resolver* (`ResolverInv`). Slots are used again, so an answer could go to the wrong
  query. `SlotSound` and `ThreadSound` tie a slot's flag to the thread that fetches for it,
  both ways; a thread whose flag was invalidated writes nothing. `QuerySound` has the host
  and the answer of a query's own slot, `SlotsApart` that no two queries share one,
  `PoolFits` that the registrations suffice, and `Awake` that a queue with work has a
  thread that is not waiting. `QueriesAlwaysAnswered` is about this and the cache.
- *SyncChannel* (`SyncInv`). `OneTurn`: there is one token between the clear-to-send flag,
  the sender, the value and the receiver; `SenderTold` and `ReceiverTold`: whoever rests
  with something to do has an event on its way.
- *LocalChannel* (`LocalInv`). The list of waiting senders is the difficulty: a notice that
  is dropped must go to the next. `RoomTold` counts: while anybody waits, the values queued
  and the senders that were told of room and have still to act are at least `Bound`.
- *EventLoop* (`LoopInv`). Callbacks register and deregister while they run. `OwnCallback`
  says where the callback of a slot is, `Listed` that the list of activated slots and the
  flags agree, `Numbered` that no registration has two slots.
- *ZmqSocket* (`SocketInv`). Four layers may disagree on what there is: the pipe, the
  commands about it, the descriptor's edge and the events the code keeps. `PipesKnown` and
  `EventsKnown` relate each to the next, `FuturesWait` says what a future that sleeps has
  left behind. `Services` has `Malformed <- FALSE`, which excludes messages that cannot
  be parsed: with them the statement is false (section 3).

`SignalsAlwaysKept` is about the last four.

The `TypeCorrect` theorems, `IndexesAlwaysAgree`, `PendingAlwaysHasTimer`,
`ChainsAreFollowed` and `OnlySubscribed` are proved for every value of the constants and
not checked by a run of their own.

Only model-checked: all liveness (`PendingLeaves`, `WorkGetsDone`, `CatchesUpAll`,
`BothEnd`, `RequestsEnd`, `CloseCompletes`, `StopCompletes`, `KeepAlivesReach`,
`WorkersProgress`), which the prover does not do; `Runtime`, `WsStream` and `TlsStream`,
which poll futures, count frames or advance a handshake by folds over sequences (an
induction in every step); `StreamPair`, `ReqMode`, `TimerWheel`, `SlabList`, `RingBuffer`,
`ZmqSpecs` and `Http1`, whose inductive invariants are not written yet; and `ZhttpPacket`,
`WsDeflate` and `WsHandshake`, whose functions are recursive or are checked against a
reference over bounded inputs.

## 5. Plan

1. Done: sequencer, rate limiter, HTTP session, update manager, WebSocket control; the
   connection manager's connections, workers, managers, listener, resolver and TLS; HTTP/1;
   the Rust runtime and ZeroMQ.
2. Proofs, in the order of what they add: `StreamPair` (`RequestArrives`: credits and bytes
   under way add up), `ReqMode` (`AnswersOwn`), `SlabList` (`ContentKept`: the links as a
   permutation).
3. `Accept`: the proxy session's handoff to the handler, with retry.
4. `WebSocketOverHttp`: events by request and response, content offsets and retries,
   implementing an ordered stream of frames.
5. `Subscriptions`: the engine's shared subscriptions with linger time.

### Not modelled

- The C++ ends of ZHTTP, the proxy's accept, WebSocket over HTTP, SockJS and shared
  subscriptions: still to do (above).
- The syntax of HTTP headers, of URLs, JSON, JWT, routes and configuration files; message
  filters, publish formats and JSON patches: functions of their input without state.
- Wrappers of sockets and files (`core/net.rs`, `io.rs`, `fs.rs`), logging, metrics,
  command lines, the API server and the publish tool: I/O.
- The runner and the Mongrel2 adapter.

## 6. Running

    tlc -workers 2 -config Sequencer.cfg Sequencer
    tlapm SequencerProofs.tla

`PROJECT.json` pairs each configuration with its module and lists, for each property of
a passing run, a mutated definition that makes TLC find it violated. The mutated
definitions stand right before the definitions they change.
