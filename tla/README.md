# Vortex-Net in TLA+

Vortex-Net is a C++ network library in the reactor style (one event loop per thread, epoll,
non-blocking sockets) with an HTTP server, a layer-4 proxy with health checks and a layer-7
gateway built on it. This directory holds TLA+ modules translated from its source, the TLC
configurations that check them on small instances, and proofs that TLAPS checks.
`PROJECT.json` maps every definition to the lines it stands for.

## 1. Inventory

| part | state | operations | correct when |
|---|---|---|---|
| `EventLoop` | `quit_`, `callingPendingFunctors_`, `pendingFunctors_` under `mutex_`, the eventfd | `loop`, `quit`, `runInLoop`, `queueInLoop`, `wakeup`, `doPendingFunctors` | a functor accepted runs once, in order, on the loop's thread, and does not sleep in the queue; a quit ends the loop |
| `EventLoopThread` | `loop_` under `mutex_`, `thread_` | constructor, `startLoop`, `threadFunc`, destructor | `startLoop` returns a live loop; the object outlives its thread; the destructor returns |
| `EventLoopThreadPool` | `loops_`, `next_` | `start`, `getNextLoop` | round robin |
| `TimerQueue` | `timers_`, `activeTimers_`, `cancelingTimers_`, the timerfd | `addTimer`, `cancel`, `handleRead` | a timer runs once per period, never early, never after a cancel; the timerfd is armed for the earliest |
| `Channel`, `EPollPoller` | `events_`, `index_`, `tie_`; the epoll set | `update`, `remove`, `handleEvent` | the three views of a registration agree; no event reaches a removed channel |
| `TcpConnection` | `state_`, the two buffers, its channel | `send`, `shutdown`, `forceClose`, `handleRead`, `handleWrite`, `handleClose`, `connectEstablished`, `connectDestroyed` | bytes in order, FIN last, one end reported, no functor after death |
| `TcpServer`, `Acceptor` | `connections_` | `newConnection`, `removeConnection`, destructor | every connection is established and destroyed on its own loop |
| `Connector`, `TcpClient` | `state_`, `connect_`, `retryDelayMs_`, `channel_`; `conn_` | `start`, `stop`, `restart`, `retry`; `connect`, `disconnect`, `stop` | one attempt at a time, no descriptor lost, none after `stop` |
| `Buffer` | `readerIndex_`, `writerIndex_`, a vector | `append`, `retrieve`, `readFd` | a byte queue |
| `Selector`, `ServerNode` | the node list and the hash ring (copy on write), `current_weight_`, `is_alive_` and two counters | `addNode`, `removeNode`, `getNextServer`, `updateStatus` | shares follow the weights; dead nodes are avoided |
| `HealthChecker`, `CheckerTask` | `has_determined_`, `is_probing_`, a timer, a `TcpClient` | `start`, `onConnection`, `onTimeout`, `onError` | one verdict per probe |
| L4 `LB_Server`, `RemoteClient` | a backend client in the connection's context, `pendingBuffer_` | `onConnection`, `onMessage`, `sendToBackend` | bytes are relayed in order both ways; an end is passed on |
| `HttpParser`, `HttpServer` | `state_`, `got_all_`, `content_length_`, `body_bytes_read_` | `parseRequest`, `parseResponse`, `consumeBody`, `reset`, `dispatch` | requests are framed as sent whatever the reads |
| L7 `LB_Server`, `RemoteClient`, `ConnectionPool`, `HttpContext` | the parser, `client_`, `is_busy_`, `idle_map_` | `onMessage`, `borrowConnection`, `returnConnection` | a response goes to the client that asked; a pooled connection is clean |
| `TokenBucket` | `config_` and `state_`, two 64-bit atomics | `tryAcquire`, `update` | the rate is kept and no allowance is lost, without locks |
| `ApiKeyAuthenticator` | a key set, copy on write | `load`, `addKey`, `removeKey`, `authenticate` | an answer follows one version of the set |

How the parts interact. Everything a connection does happens in functors and event callbacks
of one `EventLoop`; other threads reach it through `queueInLoop` and the eventfd only. The
base loop accepts and hands a `TcpConnection` to an I/O loop with a functor
(`connectEstablished`); the end comes back through `closeCallback_` to the base loop, which
erases it from the map and sends `connectDestroyed` to the I/O loop. Timers are a channel of
the loop. The proxies are callbacks of a `TcpServer` that own a `TcpClient` per backend
connection.

What is hard here: functors of many threads against the three phases of a loop; `quit` and
destruction against a loop that is about to block; two-step reads and writes of `state_`
from other threads; several callbacks in one event, the first of which may close the
connection; short writes; peers that close or reset at any point; timers cancelled from their
own callbacks; compare-and-swap loops on a clock that wraps; the retry and timeout races of
the outgoing side; a buffer whose bytes move under its indices; node lists read without a lock
while they are replaced; proxies that hold bytes for a backend that is not there yet, and
connections that are handed from one client to the next. `PROJECT.json` lists each with its line.

## 2. Modules

| module | models | built on |
|---|---|---|
| `TaskQueue` | what a loop promises: accepted functors run in order, each once | |
| `EventLoop` | the loop, its callbacks and other threads | implements `TaskQueue` |
| `EventLoopThread` | owner and loop thread around the loop | EXTENDS `EventLoop` |
| `EventLoopProofs` | theorems about `EventLoop` and `EventLoopThread` | EXTENDS `EventLoopThread`, `SequenceTheorems`, `TLAPS` |
| `TimerQueue` | timers, timerfd, cancellation | |
| `TokenBucket` | `tryAcquire` and `update`, load by load | |
| `TcpConnection` | one connection, its channel, its loop, another thread, its peer | |
| `TcpServer` | accept, map, removal and destructor around the connection | EXTENDS `TcpConnection` |
| `TcpServerProofs` | theorems about `TcpConnection` in that life | EXTENDS `TcpServer`, `SequenceTheorems`, `TLAPS` |
| `HttpParser` | the parser's state and its steps, as operators | |
| `HttpServer` | one HTTP connection: reads cut anywhere, dispatch, the client | EXTENDS `HttpParser` |
| `HttpServerProofs` | theorems about `HttpServer` | EXTENDS `HttpServer`, `SequenceTheorems`, `WellFoundedInduction`, `TLAPS` |
| `Connector` | attempts to connect, as operators over its state | |
| `HealthCheck` | one `CheckerTask` with its `TcpClient`, its node and its loop | EXTENDS `Connector` |
| `HealthCheckProofs` | theorems about `HealthCheck` | EXTENDS `HealthCheck`, `SequenceTheorems`, `TLAPS` |
| `ByteQueue` | what a `Buffer` promises: a queue of bytes | |
| `Buffer` | the vector and its two indices | implements `ByteQueue` |
| `LibraryProofs` | theorems about `TimerQueue` and `Buffer` | EXTENDS both, `SequenceTheorems`, `TLAPS` |
| `Selector` | both choices of a node, the copy-on-write list and ring, the nodes' health | |
| `ProxyProofs` | theorems about `TokenBucket` and `Selector` | EXTENDS both, `SequenceTheorems`, `FiniteSetTheorems`, `WellFoundedInduction`, `TLAPS` |
| `L4Proxy` | one client of the layer-4 proxy, its `RemoteClient`, `TcpClient` and `Connector` | EXTENDS `Connector` |
| `L4ProxyProofs` | theorems about `L4Proxy` | EXTENDS `L4Proxy`, `SequenceTheorems`, `TLAPS` |
| `HttpContext` | the gateway's parser and the client bound to it, as operators | |
| `Gateway` | clients, `LB_Server`, `RemoteClient`s, the pool and the backends of the layer-7 gateway | EXTENDS `HttpContext` |
| `GatewayProofs` | theorems about `Gateway` | EXTENDS `Gateway`, `SequenceTheorems`, `WellFoundedInduction`, `TLAPS` |
| `MC*` | model values and operators for the configurations | |

**EventLoop.** `phase` is the position of the loop thread in `loop()` and
`doPendingFunctors()`; `pending` and `running` are `pendingFunctors_` and the swapped vector;
`current` is the callback in progress; `wakeupFd` says the eventfd is readable; `pc[t]` is a
thread between its push (or its store of `quit_`) and its `wakeup()`. A push is one action
because it happens under `mutex_`; the wakeup is another. A callback may call `queueInLoop`,
`runInLoop` and `quit`, from events and from functors. The 10 s poll timeout is a spurious
return of `Poll` with nothing. `QueuedFunctorsRun` leans on it, for functors queued by functors
only: `NoLostWakeup` shows that the others never do.

**EventLoopThread.** The owner's steps (`start`, the wait on the condition, `quit` and `join`
of the destructor) and `threadFunc`'s (publish, `loop()`, clear) interleave with the loop's
own and with a user thread. `loopPtr` is `loop_`.

**TimerQueue.** A clock advances by unit ticks; `armed` and `readable` are the timerfd.
`handleRead` is split as the code is: the batch is taken, each callback runs (and may add and
cancel), then survivors are re-inserted and the timerfd is rearmed. `heap` is the set of
timers not yet deleted.

**TokenBucket.** `state` and `config` are the two atomics. Every load and every
compare-and-swap is an action, the clock moves between any two, and a weak exchange may fail
for no reason. Times are milliseconds modulo `Modulus`, standing for 2^32. Four variables are
history: what was granted, whether a full bucket or an update gave anything up, how often the
configuration changed, and `misled`. `tryAcquire` loads `config_` once and may retry after an
`update`; what it then stores was settled at the rate before. A requester is misled until it has
loaded the state again: the clock of the bucket has passed the time that it would itself have
settled at another rate.

**TcpConnection, TcpServer.** `state` is `state_`, `events` and `index` the channel's
interest and its place in the poller, `output` is `outputBuffer_`, `queue` and `todo` the
loop's pending and swapped functors, `pc` the thread between its test of `state_`, its
assignment and its push. A message is one unit that a write takes or does not take: a
write of several messages in the buffer may take any prefix. `callback` says which callback of the
user is running; inside, the user may send, shut down and force the close. The poller reports
what is registered: `Ready` lists the conditions (`in`, `out`, `err`, `hup`) that hold, and
`Dispatch` runs the handlers in the order of `handleEventWithGuard`. `wire` and `fin` are what
the kernel accepted. The peer sends, closes and resets at any time.

**HttpParser, HttpServer.** A request is a head and a body of units; the client pipelines or
waits, and a read stores any prefix of what is on the way. `buffer` is `inputBuffer_`; the
parser keeps what `HttpParser.h:53-67` keeps. What `phr_parse_request` answers (whole,
partial, malformed) is decided by what the buffer holds; the bytes of a head are not spelled out.
`MessageHead` is `onMessage` with whatever it calls: one request at most per read.

**Connector, HealthCheck.** `Connector`'s operators are the member functions, each with the
queue that the caller leaves; `HealthCheck` gives them a loop. An iteration is `Poll`, the
batch of due timers and the channel's events in either order, then the functors queued by
then; functors queued by functors wait for the next. A channel is named by its descriptor, and `socket()` gives the
lowest free one, so that reuse happens. Timers ring in the order of their deadlines, which
puts a probe's 2 s timeout before the pacing timer's next start. `Punctual` says that the loop
is never a second late: a timeout and the next start are then not in one iteration.

**Buffer.** `b` has the three fields of the class; the member functions are operators on it, and
an action is one call of a user. `Readable(b)` is what a caller of `peek()` sees and is the
refinement mapping to `ByteQueue`. `readFd` fills the vector and appends the rest, which may
grow it or move it to the front in the middle of a read. `FailingBufferSpec` adds a `readv` that
returns -1.

**Selector.** `group` and `ring` are the two shared pointers. A reader takes one under the mutex
and reads on without it; `shared` and `sharedRing` say that what it holds is still the selector's
own, so that a write in place would change it under the reader. `addNode` and `removeNode` are
one action each, under the mutex; the choice by weight takes a step per node it visits, twice, as
`isAlive()` is asked twice, and nodes die and return (`Flip`) between any two. `tally` counts the
picks while nothing changes. A node's places on the ring are a constant, and so is the hash.

**L4Proxy.** `Connector`'s operators again, with `Retrying = TRUE`, `restart` and the retry timers.
One client, its `RemoteClient` and what comes of it: `client` and `conn` are the states of the two
connections, `pending` is `pendingBuffer_`, `restartTimers` and `retryTimers` the timers that hold
the connector. An iteration is `Poll`, the handlers of what was ready in any order, then the
functors queued by then (`stopInLoop` and `connectDestroyed`). The connections below are
those of `TcpServer`: units come in order and the end after them. `FreeConnector` is the death of
the `TcpClient` with its last reference.

**HttpContext, Gateway.** `Plan` gives what each client asks. `context` is a client's
`HttpContext`, one parser for its request and the answer to it; `link`, `addr`, `bound`, `busy`,
`pending` are a `RemoteClient`'s connection, node, `clientConn_`, `is_busy_` and `pendingBuffer_`;
`idle` is `idle_map_`. `Target` is the routing with the middlewares' verdict (`"refused"`). A
`RemoteClient` is made, borrowed, returned, closed for want of room, or dies with its client's
context and leaves an orphan connection (`Orphaned`). The environment: a client waits for its
answer before it asks again; a backend answers a request when it has all of it, or ends; heads
and the zero chunk of a chunked answer come whole. `stranded` are the clients that were given a
connection which cannot come up: three findings are about them.

## 3. Runs

| run | shows |
|---|---|
| `event_loop` | no wakeup and no quit is lost, the loop implements the abstract queue, queued functors run, a quit ends the loop |
| `loop_thread` | `startLoop` and the destructor return; neither thread keeps a pointer to what the other destroyed |
| `timer_queue` | sets and timerfd agree, no timer early, waiting timers run |
| `token_bucket` | rate kept, nothing lost, no refusal by a bucket that could serve, updates and what they mislead apart |
| `tcp_server` | a connection's life, with another thread, short writes and a peer that closes or resets |
| `http_server` | requests reach the user whole and in order, a body takes its own bytes, a waiting client is answered |
| `health_check` | one verdict per probe, no connection that nobody asked for, rows before flips, probes end |
| `buffer` | the indices stay in order and the buffer is a queue of bytes |
| `selector` | readers see frozen lists, the ring is the list's, only affected keys move, each is picked by its weight, nobody is starved |
| `l4_proxy` | both streams are kept, one endeavour at a time, none for a client that has gone, ends are passed on, what was put off is sent |
| `gateway` | answers go to who asked, requests stay whole, a connection is lent or idle and clean, every request is settled |
| `gateway_split_request` | a body that comes after its request was refused finds no `RemoteClient` (`L7/LB_Server.h:104`) |

Some properties are conjunctions of named parts; each part is stated with its own comment.

* `tcp_server`: `StreamInOrder` (what the kernel accepted is in order and without gap, and FIN comes
  after it unless the connection was closed with bytes waiting), `EventsAsWanted` (until it is closed
  a connection is read from, and waiting bytes have EPOLLOUT set; a closed one waits for nothing),
  `DownOnce`, and for liveness `ClosesComplete` and `PeerEndNoticed`. `late` counts the stores of
  `kDisconnecting` over `kDisconnected` by another thread (`TcpConnection.cc:160, 178`). They make
  `handleClose` run again, which is two findings. `DownOnce` holds with them: the user is told
  whenever the state becomes `kDisconnected`, and at most `1 + 2 * late` times, once more when the
  server is gone. `ClosedAreSilent`, in `EventsAsWanted`, says that nothing but such a store or the
  server's end puts a closed connection back into the epoll set.
* `health_check`: `AttemptsAreWanted` (an attempt has a channel with an open descriptor and a probe
  that waits for it), `OneVerdictPerProbe` (timeout, error and connection race, in one iteration and
  across iterations), `FlipsNeedARow`, and `ProbesEnd` (a silent backend's probe is ended by its
  timer).
* `l4_proxy`: `StreamsKept` (units handed on, put off and on the way are what the client sent; what
  the client got is the beginning of what one backend connection said), `OneEndeavour` (a
  connection, an attempt or a timer, one in all), `NoConnectionForNobody`, and for liveness
  `EndsArePassedOn` and `PutOffIsSent`.
* `gateway`: `AnswersInOrder`, `RequestsWhole` (what a backend reads is one whole request after the
  other, none of them given to two backends), `LentOrIdle` (a connection is held by the client it is
  bound to, or lies in its pool once, clean; the pool keeps its limit), and for liveness
  `RequestsSettled`.

### Findings

`PROJECT.json` lists them with the lines of the source that say otherwise. Those that are stated in
a module can be seen with TLC. A configuration of their own have:

| configuration (module) | property | what TLC finds |
|---|---|---|
| `MCEventLoopBlocks.cfg` (`MCEventLoop`) | `NeverBlocksWithFunctors` | a functor queued by a functor waits for the poll timeout (`EventLoop.cc:103` has the test inverted) |
| `MCQuitLost.cfg` (`MCEventLoopThread`) | `QuitIsHeard` | a quit before `loop()` is erased (`EventLoop.cc:66`) and the destructor hangs |
| `MCTimerCancel.cfg` (`MCTimerQueue`) | `CancelIsDeferred` | cancelling an expired timer from a callback deletes it in use (`TimerQueue.cc:151`) |
| `MCTcpDangling.cfg` (`MCTcpServer`) | `NoDanglingFunctor` | a queued `shutdownInLoop` outlives its connection (`TcpConnection.cc:179`) |
| `MCTcpDownTwice.cfg` (`MCTcpServer`) | `DownAtMostOnce` | a store of `state_` that comes after `handleClose` lets it run again (`TcpConnection.cc:160`) |
| `MCTcpBackInSet.cfg` (`MCTcpServer`) | `DisconnectedHasLeft` | the second `handleClose` adds the closed channel to the epoll set (`TcpConnection.cc:269`, `EPollPoller.cc:55`) |
| `MCHttpSticky.cfg` (`MCHttpServer`) | `NoRequestLeftBehind` | a request that arrives with the end of another is left in the buffer (`HttpServer.h:98`) |
| `MCBufferReadFails.cfg` (`MCBuffer`) | `IndicesOK` | a failing `readv` shrinks the vector below its indices (`Buffer.cc:19`) |
| `MCGatewaySplit.cfg` (`MCGateway`) | `BodyHasClient` | the run above |

To see the others, give the property to a configuration as an INVARIANT or PROPERTY:
`HeadersAsSent` (`MCHttpServer.cfg`), `NoDescriptorLost` and `RegisteredIsOpen`
(`MCHealthCheck.cfg`), `DestroyedAfterDispatch` and `StopsOwnAttempt` (the same with
`Punctual = FALSE`, where `AttemptsAreWanted` and `ProbesEnd` fail too and the other invariants
still hold), `RateIsTheConfigured` (`MCTokenBucket.cfg` with `Start <- LlmStart` and no updates: at
the gateway's 2048 tokens per second the timestamp stands still while tokens are produced). The
findings of the selector and the proxies that have no property of their own name the action that
is the case: `PickNobody`, `Route`, `BackendDown` with `HandleWriteConnects`, `gaveUp`, `stranded`,
`Orphaned`. The rest are outside of what the modules let happen (several I/O loops under the
layer-4 proxy, a client refused for want of a backend, answers before the end of a request, chunks
cut anywhere, bodies that end with the connection) and were found by reading.

### Bounds, and why they are enough

* `event_loop`: three functors and two threads. Three is one running, one swapped out and
  one pending; two threads are one between push and wakeup while another drains the eventfd.
  The proofs remove the bound for the invariants.
* `loop_thread`: the owner and one other thread, two functors.
* `timer_queue`: two one-shot timers and a repeating one, time up to 4, all cancels but the
  one that the violation run is about (`AnyCancel = FALSE` restricts cancels to timers that are
  waiting, and excludes those of the batch being handled).
* `token_bucket`: two requesters, one update, time up to 5, rates at which the rounding is
  exact. One of the two new configurations is slower than the first (125 and 500 tokens a
  second), so that a requester that still works with the first one stores a settlement that
  another cannot know of; with two rates that settle alike in five milliseconds this never happens.
* `tcp_server`: one connection, two messages, one other thread that sends and makes one call of
  `shutdown` or `forceClose` in all (`MaxCloses = 1`). `MCTcpTwoClosers.cfg` (3.3 million states, no
  run) checks the invariants with one message, two such threads and two such calls, and the
  theorems have no bound on threads and calls; the liveness properties were checked with one thread
  and two calls as well. A connection shares nothing with another but the server's map and the loop's queue;
  two messages are enough for one to overtake another and for a write to be partial.
* `http_server`: three requests with a body, two without and one that is no HTTP; heads and bodies of
  several units, so that a read can end inside each.
* `health_check`: six probes, the least that kill a node (two failures), revive it (three
  successes) and leave one to spare, six descriptors (one leaks per timeout). Every outcome
  of `connect` and of the socket is possible at every probe.
* `buffer`: a vector of four bytes that grows to eight at most, two bytes kept free in front,
  an extra buffer of two, two values of a byte. Every combination of a full, half empty and moved
  vector with a read that ends in either part happens; the proofs remove the bounds.
* `selector`: two nodes listed at first or none, weights 2 and 1, a third node of weight 1, five points
  on the ring, one node that comes or goes and then nodes that die and return without limit. With a panic threshold of 40 % two
  dead nodes of three are panic and one is not.
* `l4_proxy`: three units of the client, two of each backend, three connections, five descriptors:
  one connection that ends, one after it, and one to which nothing is sent; units before, between
  and after them. The number of retries has no bound.
* `gateway`: two clients with five requests, four `RemoteClient`s, a pool of one, and one peer that
  closes at a time of its choice (`MaxEnds`); refusals and failures of `connect` have no bound.
  Four is one for each request that is let in, so that none lacks one. With `MaxEnds = 2` and a plan of
  three requests the properties hold as well; that takes several minutes and is no run.

### Fairness

Weak fairness on the loop's own steps (a thread in `loop()` keeps running, callbacks return, and
`epoll_wait` returns, after `kPollTimeMs` at the latest), on a thread between a push and its wakeup (straight-line
code), on the clock and the timerfd, and on the peer's kernel draining its window
where a property is about output that must get out. Strong fairness is used twice: for
the swap of the functors of a connection's loop, because a connection whose descriptor is always ready makes the
model alternate between handlers and the swap as the code does, and for the probe's timer, which rings in
one of many iterations: the timerfd stays readable until it is read. `L4Proxy` has it for its timers
in the same way, and for the acceptance of an attempt: a backend that is tried again and again
accepts in the end, which is an assumption about the backend, not the code, and the reason
why `PutOffIsSent` is about `gaveUp` and the bound, too. `Gateway` assumes that backends decide
on connections and answer, or end; `Selector` that a choice begun goes on. Users, peers and the owner are under no
obligation to call anything.

## 4. Proofs

Each theorem is for every value of the constants, under the assumptions of its module and the
hypotheses named here. What is proved and how:

### `EventLoopProofs` (any functors and threads)

* `TypeCorrect`, `ControlCorrect`: `[]TypeOK`, and `[]ControlOK`, the relation of `phase`,
  `calling` and `current`.
* `WakeupsAreNotLost`, `QuitsAreNotLost`: `[]NoLostWakeup`, `[]NoLostQuit`. The two are not
  inductive: they speak of the loop in `poll`, and what makes them true happened in earlier
  phases. The strengthening `WakeInv` says of every functor in `pending` and of a set `quit_` why
  the loop will not sleep on it: the eventfd is readable, or a thread is still on its way to
  `wakeup()`, or the loop is in a phase that ends in a swap or a test before the next poll.
* `LoopImplementsTaskQueue`: `Spec => ImplementsTaskQueue`, step by step. The abstract queue is
  `running \o pending`; a swap is a stutter because `running` is empty then
  (`CalledInFunctorsOnly`), and a push accepts a functor the queue has not seen
  (`NewOnesAreNowhere`).
* `ThreadRunsEventLoop`: `ThreadSpec => Spec`: a loop with its owner and its thread is a loop, so
  that the theorems above hold there too.
* `NeitherThreadDangles`: `ThreadSpec => []NothingDangles`. `LifeInv` ties the owner's position to
  the thread's: nobody sets `quit_` before the destructor, and the owner passes `join` only after
  `threadFunc` has ended.

The only assumption is that functor names avoid the four reserved words (`FunctorsAssumption`).

### `LibraryProofs`, `TimerQueue` (any timers, delays and intervals)

* `NoCallbackIsEarly`: `Spec => NeverEarly`, whatever is added and cancelled, from inside or
  outside the batch. `PlaceInv`: a timer is on its way in a functor, waiting, or in the batch,
  never in two places, and none is filed for an earlier time than its own.
* `TimerfdIsArmed`: `[]TimerfdArmed`: a new timer that is not the earliest, and the rearming at
  the end of `handleRead`, leave the timerfd set for no later than any timer that waits
  (`RingsInTime`).
* `TimersAreFiled`: `ASSUME ~AnyCancel PROVE Spec => []TimersFiled`. `FiledInv` adds that timers
  on their way exist and are not active. The hypothesis excludes what the finding about
  `TimerQueue.cc:151` is: without it a cancel deletes a timer of the batch, and the sets disagree.

### `ProxyProofs`, `TokenBucket` (any number of requesters and updates, any capacities)

Up to the wrap of the 32-bit clock (`MaxTime < Modulus`). A rate is `Exact` if a whole number of
tokens takes a whole number of milliseconds: so do the rates that divide 1000 and those that 1000
divides (`DivisorsAreExact`).

* `TimestampsAreNotAhead`: the timestamp, also that of a state about to be stored, is not ahead of
  the clock (`TimeInv`). All that follows needs it, as the elapsed time is taken modulo `Modulus`.
* `ExactRatesLimit`: if all rates are exact, `[]RateLimited`; `ImLimiterLimits` is the gateway's
  `im_limiter_`. `PaidFor(R)` says that what was granted, with what is in the bucket, was paid for
  by the initial tokens and the time up to the timestamp at `R` per second. It holds of the state
  that a requester is about to store as well; a successful compare-and-swap replaces what it was
  computed from.
* `SlowRatesAtMostDouble`: with any rates up to 1000 a second, at most twice the highest is
  granted. It is the same invariant with twice the rate: the time of a token is rounded down,
  never below half of it. For rates above 1000 nothing of the kind is true (the finding about
  `TokenBucket.cc:41`).
* `FractionsAreKept`: if the constructor's rate is exact, `[]NothingLost`, by `Accounted`.
* `NoneIsRefusedInVain`: if all rates are exact, `Spec => RefusedOnlyWhenShort`. `NoRicher` orders
  states by what they would hold at any later time; `WorthInv` says that what a requester has
  loaded is worth no less than what the bucket now holds, unless its configuration was replaced or
  it is misled. Both hypotheses are needed: an inexact settlement makes tokens out of no time,
  which a requester that loaded before it does not see, and TLC refutes the property at such
  rates, as it does without `misled`.

### `TcpServerProofs` (any messages, any threads, any number of calls)

* `TheStreamIsInOrder`, `TheEpollSetAgrees`, `DownIsToldOnce`: `[]StreamInOrder`,
  `[]EventsAsWanted`, `[]DownOnce`. One strengthening, `ServerInv`, serves all three. `Life`:
  until `connectEstablished` runs, nothing but the loop's queue changes (`Unborn`), and it runs
  once. `Reported`: what `epoll_wait` reported of a channel that can be closed is handled before
  the user's callbacks, so that the second handler of an event finds a channel that is still
  registered. `Registered` and `Watched` relate `state_` to interest and index. `Reports` bounds the
  number of reports in each state by the number of late stores; it takes into account whether the
  channel is in the epoll set, as a closed one that is there can bring one report more.
  `Undestroyed`: while the server is there, `connectDestroyed` is queued for closed connections only,
  so that without a late store no half closed one is removed.

### `HttpServerProofs` (any messages, any cuts)

* `RequestsReachTheUser`: `Spec => []RequestsAsSent`: for any number of messages, of any lengths,
  well formed or not, and any way to cut the stream into reads. That the calls are those sent is not
  inductive: whether the next call is right depends on what lies in the buffer and on how much of
  it the parser has taken. `ServedInv` adds three parts. `ParserOK`: between requests the parser is as
  `reset()` leaves it; inside of one it is the next one's, with its lengths, and has in hand the
  beginning of its body. `Follow`: what waits in `inputBuffer_` and in the kernel, read in one, goes
  on where the parser stopped and ends with the last byte sent. `Dropped`: once a message is no
  request, what waits is of this message only, as the client sends nothing after it.

  The lemmas follow the code: what a prefix of such a stream looks like to `phr_parse_request`
  (`VerdictFacts`), what a read does to it, and what consuming a head, a part of a body or its end
  leaves. The bytes are never flattened: the stream is given by each byte's successor (`After`).

### `HealthCheckProofs` (any number of probes and descriptors, any standards)

* `ProbesAreJudgedOnce`: `[]OneVerdictPerProbe`, for both values of `Punctual`. `VerdictInv` adds
  that verdicts are about probes already started and that the last probe has none while
  `has_determined_` is FALSE; an action that judges (`JudgeOnce`) found it FALSE and sets it, and
  only `start` clears it, for a new probe (`NotJudging`).
* `NodesFlipAfterARow`: `Spec => FlipsNeedARow`, for both values of `Punctual`. `RowInv`: the list
  of verdicts ends with as many failures, and with as many successes, as the node's counters say.
* `AttemptsHaveTheirProbe`: `ASSUME Punctual PROVE Spec => []AttemptsAreWanted`. `WantedInv` adds
  that a channel belongs to the probe under way or is about to be stopped and that an error waits
  without a channel (`LeftNothing`), and that functors run once the channel's events are handled
  (`Dispatch`). The hypothesis is needed: on a loop that is a second late the timeout and the next
  start fall in one iteration (`StopsOwnAttempt`).

### `LibraryProofs`, `Buffer` (vectors of any size, any bytes)

Any sizes of the free space and of the extra buffer, as long as sums of sizes do not wrap
(`BufferAssumption`).

* `IndicesCorrect`: `Spec => []IndicesOK`, which is inductive as it stands.
* `QueueImplemented`: `Spec => ImplementsByteQueue`, the refinement to the byte queue.

There is one lemma per member function (`MakeSpaceFacts`, `WriteFacts`, `AppendFacts`,
`ReadFdFacts`, `RetrieveFacts`): it keeps the indices ordered, and what is readable afterwards is
what was readable before and what was added, or without what was taken. `CopyFacts` and
`ReadableFacts` are about the sequences below, and `StepFacts` puts one step together.

### `ProxyProofs`, `Selector` (any finite set of nodes, any weights, places and keys)

* `TheRingMatches`: `[]RingMatchesGroup`, through what `addNode` and `removeNode` do to list and
  ring (`RingGrows`, `RingShrinks`, `WithoutFacts`).
* `SnapshotsStayAsTaken`: `Spec => SnapshotsFrozen`, and `OtherKeysStay`: `Spec =>
  OnlyAffectedKeysMove`. A key goes to the first place at or after its hash, or to the first of
  all (`Near`); a newcomer's places can only take keys (`NewcomerTakes`), and removal is the same
  step backwards.
* `TheBooksBalance`: `[]WeightsBalance`. `BooksInv`: what the pick under way has given out is the
  sum of `current_weight_`, whatever lists are changed and whichever nodes die between two visits.
* `EachGetsItsShare`: `ASSUME EachOnce PROVE Spec => []PickedByWeight`. `ShareInv` says, while
  nobody touches the nodes: the pick has given its weight to the nodes it has visited
  (`GivenToSeen`); `current_weight_` of a node is what it is owed, `picks * weight - its picks *
  all weights` (`WeightIsOwed`); and no node is ahead by a pick (`WithinShare`). What is owed adds
  up to one round, so the node with the most is owed something, which keeps it within its share
  (`OwedIsNotAhead`); when a window is full all are even (`WindowFills`). `EachOnce`, that a
  server is not listed twice, is what `main` and the proxies do with their lists of `ServerNode`s.

  The share is bounded from above only. That a node is never more than a whole pick *behind* is
  not true of the algorithm from five nodes on: with weights 1, 1, 1, 6, 6 it fails after ten
  picks, as TLC shows. The run with three nodes cannot tell.

`Sum` is `MapThenSumSet` of the community modules, which chooses a recursive function on sets. The
library's induction theorems take an operator, which no installed prover can instantiate, but
induction can be said of a *set* of numbers: `SetInduction` follows from `WFMin` and
`NatLessThanWellFounded`. `FoldExists` uses it to show that there is such a function, and the
lemmas about sums (`OverSplit`, `SumShifted`, `SumStrict`, ...) follow.

### `L4ProxyProofs` (any numbers of units, connections and descriptors)

Under the assumption that the connector retries and has no error callback, as `RemoteClient.cc:23`
sets it up:

* `StreamsAreKept`: `Spec => []StreamsKept`.
* `OneIsUnderWay`: `Spec => []OneEndeavour`.
* `NobodyIsConnectedFor`: `Spec => []NoConnectionForNobody`.

The first two need to know what the loop may still do, and the strengthening `ProxyInv` says it in
parts, each with a lemma for its step. `LoopInv`: what is ready is still there when it is handled,
and `stopInLoop` and the end of the client's connection are queued only once the client has left.
`EffortInv`: an attempt, a connection and a timer exclude one another, `state_` agrees with the
channel, and a client that stays is wanted. `FdInv`: the descriptors of the attempt, the
connection and the closed connection differ, so that closing one leaves the others open. `UpInv`:
nothing is put off while there is a connection, which is why handing on directly overtakes
nothing. `DownInv`: a client that has not been shut down has, with what is on its way, all that
its only backend connection has sent; a second connection is made only after the first one's end
shut the client down. `StartOutcomes` is what every attempt to connect comes to.

The third adds `GoneInv`, which is about order: the functors that the end of the client queues run
together and in one of few sequences (`Queues`), `stopInLoop` before the client's
`connectDestroyed`, and a timer that rings in between finds `connect_` cleared or its descriptor
closed.

### `GatewayProofs` (any clients, requests and cuts, any number of `RemoteClient`s)

From `GatewayAssumption`: clients and `RemoteClient`s have different names, an answer in chunks
has at least its zero chunk, and a request to a model has the body that names it. That the head and the first part of such a body may come in
two reads is covered: that request is refused, or sent to the default cluster.

* `OwnAnswersInOrder`: `Spec => []AnswersInOrder`.
* `WholeRequestsOnce`: `Spec => []RequestsWhole`.
* `LentOrPooled`: `Spec => []LentOrIdle`, which has the type invariant in it.

None of the three is inductive, and none is without the other two: the answers that a connection
brings are a client's own because its backend was sent that client's request and nothing was left
from before, and the request is whole because the connection was lent to nobody else meanwhile.
One invariant, `GatewayInv`, has it all in parts:

* `ClientsOK`. A client is at a place in its requests and answers (`ClientAt`): none of the
  next request was taken (`Fresh`); it was refused and lies in the buffer for good (`Refused`); or
  `m` units of it and `x` of its answer have passed, and a `RemoteClient` carries it (`Carried`).
  `Facing` says which units wait to be read, `Has` what the client got, `Parsed` where the one
  parser of the `HttpContext` is: in the request's body, between request and answer with its
  fields reset, or in the answer with as much read as was passed on. `Holding` says it of the
  `RemoteClient`: the units are put off, or its backend has them last of all, and what the backend
  owes is what was passed on, what is on its way and what is still to be said.
* `RemotesOK`. A `RemoteClient` belongs to the client it is bound to, has nothing left in a
  buffer, and its backend has got one request after the other (`Chained`).
* `PoolsOK`. What lies in a pool is there once, belongs to nobody, and its backend has said all
  that was due and got only whole requests (`Idle`): the next client finds it clean.
* `Apart`. No unit that a backend has, or will have, still waits to be read, and no two have the
  same. With the place of a unit in its client's stream (`Place`), what is passed on next is new.
* `LoopOK`: only a client whose connection is there is ready.

There is one lemma for each action of `Next` (`ClientBodyStep`, `BorrowIdleStep`,
`RemoteMessageStep`, ...), `OthersKept` for what an action on one client and one `RemoteClient`
leaves alone, and lemmas about streams: parts of a message (`PartTail`, `PartFollows`), what a
backend owes after one more unit (`DueAppend`), which unit of a flattened plan comes next.

* `AnswersFindTheirClient`: what a backend says is read while its `RemoteClient` is busy for a
  client that is there. By `NoneLost`, a connection that nobody has lies in a pool, and those in
  a pool have nothing to come. So the branch of `onMessage` for a client that has gone
  (`RemoteClient.cc:124-130`) is never taken, and `RemoteMessage` leaves nothing out; the
  finding about that line says what happens to such a connection.

### Only model-checked

Liveness, as fairness and ENABLED are outside of the prover's reach: `QueuedFunctorsRun`,
`QuitEndsLoop`, `OwnersWaitsEnd`, `WaitingTimersRun`, `ClosesComplete`, `PeerEndNoticed`,
`RequestsAreAnswered`, `ProbesEnd`, `NotStarved`, `EndsArePassedOn`, `PutOffIsSent`,
`RequestsSettled`. Every safety property that a passing run checks is stated by a theorem.

## 5. Not modelled

Freed memory: a step on a destroyed object is reported by an invariant
(`NoDanglingFunctor`, `CancelIsDeferred`) and not followed further. A `TcpServer` that is
destroyed while its connections still close calls into itself; the model ends its part there.
SIGPIPE is not ignored anywhere in the source, so a write after the peer's reset may end the
process; the model continues with EPIPE, as a program that ignores the signal does. A failing read takes the branch of `TcpConnection.cc:223-228`
in `HandleReadFails`, as it is written, and the connection goes on to its hang-up. In the build it does
not get there: `Buffer.cc:19` keeps the result of `readv` in a `size_t`, so that a failed read
corrupts `inputBuffer_` (finding, `FailingBufferSpec`). What `tcp_server` shows of a reset is
therefore about resets that are noticed without such a read, and about the code with that line
repaired. In `HealthCheck` a channel that is destroyed
while its event waits loses the event (`DestroyedAfterDispatch` reports it), and so does an error event
on a null channel. Base loop
and I/O loop are two threads; a server without threads is the schedule in which the base
loop's steps follow at once.

In the layer-4 proxy: I/O threads (`SameLoop` says what they would break), and the client without a
backend, where the process ends (`RefusedHaveContext`). In the gateway: pipelining clients, heads
cut in two, backends that speak out of turn, and the I/O threads that `setThreadNum` would add; the
verdicts of `ApiKeyAuthenticator` and of the model lookup are inputs, the token bucket's is a
refusal. In `Selector`: several threads that choose by weight (nobody does; `current_weight_` would
lose increments). `Acceptor`, `EventLoopThreadPool` and `ApiKeyAuthenticator` have little control of
their own: what they give the rest, a connection, a loop, a verdict, is an input where it is used,
and the authenticator's copy on write is the selector's. The other components marked
`not_modelled` in `PROJECT.json` give their reasons.

## 6. Plan

1. Done: the loop, its thread, timers, token bucket, connection and server, HTTP server, health
   checker with the connector, the buffer, the selector, the layer-4 proxy, the gateway. Proved: both
   refinements, and every safety property that a passing run checks.
2. Model next: `ApiKeyAuthenticator` with its file; the gateway's middlewares as a part of `Gateway`;
   several I/O loops under the layer-4 proxy.
