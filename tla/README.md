# A TLA+ verification of GPush

GPush is a push service in C++. Mobile or desktop clients keep a connection to a
*connect server*; a *push server* connects to all connect servers and hands them
messages for the sessions of its users. Sessions live in Redis, the list of
servers in ZooKeeper. Everything runs on the event-driven network library
`efnfw`. This directory holds TLA+ modules of the parts that carry the logic,
TLC configurations that check them on small instances, a specification of what a
push promises that the way of a push is shown to implement, and TLAPS proofs for
instances of any size: invariants of the event loop, the connect server, the push
server, the session cache, start and stop of a server, the ZooKeeper watcher, the
status node and the client SDK, and the safety part of the refinement.

## 1. The system

### Components

| component | code | state | operations |
|---|---|---|---|
| Event loop | `efnfw/net/ef_event_loop.*`, `ef_operator.*`, `ef_timer.*` | operator queue `m_ops`, `m_ops_flag`, control socket pair, `m_con_map`, `m_timer_map`, `m_status` | `addAsynOperator` and the `asyn*` functions, `run`, `processOps`, `processTimers`, `stop` |
| Loop buffer | `efnfw/base/ef_loop_buf.*` | linked list of frames, head, tail, write position, size | `write`, `autoResizeWrite`, `read`, `peek`, `extend`, `clear` |
| Connection | `efnfw/net/ef_connection.*`, `ef_device.cpp` | send and receive buffers, registered events, close flag | `sendMessage`, `doSend`, `handleRead`, `handleWrite`, `safeClose`, timers |
| Server, acceptor | `efnfw/net/ef_server.cpp`, `ef_acceptor.cpp` | loops, listen sockets, counter of connection ids | accept and dispatch, start, stop |
| Client connector | `efnfw/net/ef_client.cpp` | connect status, reconnect and keepalive timers | connect, reconnect, disconnect |
| Connect server | `connect_server/src` | per connection `m_sess` and status, `TypeMap` | login, keepalive, push, response, logout on destruction |
| Session cache | `common/src/sess_cache.cpp` | a Redis hash per user, field per session id | set, get with expiry, delete, over a group of Redis servers |
| Push server | `push_server/src` | list of connect servers and of connections to them | follow the server list, register, fan out pushes |
| Client SDK | `clientsdk/client` | its own event loop, operations, timers, login status | connect and login, keepalive, receive, stop |
| ZooKeeper client | `common/src/zk_*.cpp`, `list_watcher.cpp`, `data_watcher.cpp`, `server_status.cpp` | session, watchers, status nodes | watch, re-arm, session expiry, publish load |
| Redis client | `common/src/redis_client.cpp`, `redis_group.cpp` | one connection | connect with AUTH, commands with up to three attempts |
| Programs | `connect_server.cpp`, `logic_server.cpp`, `main.cpp` | run flag, signal handlers | init, run, report the status, stop |
| Loader, thread pool | `efnfw/base/ef_loader.h`, `ef_thread_pool.cpp` | versioned data; task queue | reload; add task, stop |
| The rest | logging, statistics, sockets, codecs, ciphers, parsing of settings | – | output, system calls, pure conversions |

### How they interact

* Threads meet in two places only: the operator queue of each event loop, and
  mutex-protected tables (`TypeMap`, loaders). An operator is appended under a
  mutex; the thread that raises `m_ops_flag` from 0 to 1 sends one byte through a
  socket pair to wake the loop.
* A loop owns its connections: their handlers, timers and destruction run on
  its thread. Other threads name a connection by its id, which the operator
  resolves when it is processed.
* The connect server writes a client's session into Redis on login, on each
  packet and on keepalive. A session id names server, loop and connection; a
  push is routed by taking it apart again.
* The push server learns the connect servers from ZooKeeper and the sessions of
  a user from Redis, and sends each session's push to the connect server named in
  its session id.
* A connect server is found by an ephemeral node in ZooKeeper that it creates when
  it starts, rewrites every ten seconds and deletes when it ends; after an expiry the
  callback thread of its ZooKeeper client creates the node anew.
* A signal handler runs on the main thread: in the connect server it calls
  `Server::stop` itself, in the push server it clears a flag that `main` tests.

### What is hard about it

* *Interleaving*: the flag, the queue and the control byte are three shared
  objects touched in a fixed order by producers and in another by the loop.
* *Lifetimes*: raw pointers in epoll's events, in the timer map, in `m_con_map`
  and in `TypeMap`.
* *Partial results*: short sends, buffers made of frames that are recycled,
  closing while bytes are unsent.
* *Numbers that wrap*: connection ids modulo 1 000 000, block alignment, the
  batch size of timers.
* *Sequences nobody tests*: packets after a refused login, a second login, a stop
  that races the start, a second signal, a lost server connection, two processes with
  one ID.
* *Losses nobody hears of*: a push whose session or server connection has gone, a
  ZooKeeper request whose answer is lost, a Redis command that fails after all tries.

`PROJECT.json` lists these hazards at their lines together with the properties
that watch them.

### What makes each component correct

* Event loop: an operator handed over is processed; the loop wakes for it and
  for timers; no event or timer reaches a destroyed connection.
* Server: a client is not added to a loop that has closed its connections; stop
  leaves no thread and no connection behind; a signal ends the process.
* Loop buffer: a byte queue.
* Connection: the peer gets the application's bytes in order; unsent bytes are
  watched for; a safe close finishes, and only when nothing is left.
* Connect server: a push reaches the session it names; tables hold live
  connections; the cache tells who is logged in; only a successful login opens a
  session.
* Push server: a push finds the connection of a registered server and no other;
  the list follows ZooKeeper, and every loop ends up with it.
* The way of a push: requests are taken from the byte stream whole and in order and
  answered once each; a push reaches a session at most once; the answer says how many
  sessions it was handed on for.
* Client SDK: an operation handed to the loop is processed; a login and an idle
  session have a timer; nothing follows the end of a connection; sockets are
  closed; stop ends the thread.
* ZooKeeper watchers: a watched node stays watched, once, and the copy of its data
  is current.
* Status node: a server that serves is listed, one that has ended is not, and two
  servers do not serve under one ID.
* Session cache: a session refreshed in time is found and not reaped; one that has
  ended is not found for long.

## 2. Modules

### EventLoop (with MCEventLoop; proofs in NetProofs)

`ops`, `opsFlag`, `ctl`, `status`, `con` and `timer` are `m_ops`, `m_ops_flag`,
the bytes in the socket pair, `m_status`, and the life cycle and timer of each
connection. `ppc[p]` says where thread `p` is in `addAsynOperator` or `stop`;
`lpc` where the loop thread is in `run`. Threads interleave between the shared
accesses: append under the mutex (`Post`, `PostCloseAll`), compare-exchange
(`CasFlag`), `send` (`SendCtl`); reset of the flag (`ResetFlag`), `recv`
(`RecvCtl`), each removal from the queue (`DrainOp`), `epoll_wait` (`WakeCtl`,
`WakeTimeout`, `WakeEvents`). What the loop does on its own data is one step.

Abstractions: an operator is its kind and connection; a message has no content.
A connection with a timer is one of `TimerCons`, like `CliCon`, whose
`handleTimer` starts the timer again or closes. Time is a step from *armed* to
*due*; `processTimers` is one step, so a timer started in it does not expire
within it. Operators that handlers of the loop's own thread post are the posts of
one more producer. Whether a connection to be closed has unsent bytes is a free
choice here and exact in `Connection`. Left out: failures of `epoll_wait` other
than EINTR, of `epoll_ctl` and of `socketpair`; the destructor.

### LoopBuf, LoopBufUse (proofs in NetProofs)

`LoopBuf` has one operator per method, on a record with the list of frames, the
write position and `m_size`. `LoopBufUse` is a buffer under its callers'
operations. The constants are the allocation's alignment (2048) and the size of
the frame header (32 bytes). `read` is modelled for lengths up to `size()`, as
every caller uses it. The loop of `write` is a recursive function (`Fill`) over its
turns (`FillTurn`: one `frame::write`); `Read` says where the loop of `read` ends and
what it leaves in each frame (`ReadFrame`), and which frames it has moved to the tail.

### Connection (proofs in NetProofs)

The sending side of a connection and the dispatch in `run`. `sbuf` is a
`LoopBuf`; bytes are numbered, so that order and loss are visible; `noti` is the
set of registered events. All handlers run on one thread and are one step each;
between them the peer reads, sends or resets. `doSend` ends with a `send` of no
bytes and then looks at `errno`, which another call has set: `StaleErrno` says
what may be in it. EAGAIN ends the loop, another error recycles the connection,
and EINTR makes `send_` repeat for ever (state `spinning`). EPOLLIN takes
precedence over EPOLLOUT as in the `if` of `run`. `handleRead` is a step that
accepts or refuses what has arrived; how packets are put together is in `PushPath`.

### ConnectServer (with MCConnectServer, ConnectServerProofs)

`Accept` is the acceptor, the constructor that draws the id and
`dispatchConnection`; `ProcessOp` takes an operator from a loop's queue; `Login`,
`KeepAlive`, `Push`, `PushEmpty` are the packets, `Close` every way a connection
ends, with all that the destructors do. `conMap` is `m_con_map` per loop, with
`addConnection` refusing an id that is present and `delConnection` erasing by id.
`cache` is the set of (user, session id) pairs in Redis, `known` the session ids
anyone may have read from it. Redis answers every call here; failures and expiry
are in `SessCache`. The wake-up of a loop is left to
`EventLoop`: a queue is simply served in order.

### PushServer (with PushServerProofs)

ZooKeeper's child watch (`HandleEvent`, `ChildrenComplete`, `OnChildrenChange`) with
its error paths: ZNONODE and the deletion of the node above the servers (`dir`) lead
to `CheckExists` and `ExistsComplete`, another error ends the watch, a child that
cannot be read drops the whole list, an expired session starts anew or leaves the
client closed (`SessionExpired`). `watch` says where the one watch is (requested,
armed, fired, deleted, checking, exist, created, none, closed), and `missed` is history:
the callback thread's last attempt to read the list has failed. The main thread is in
`SvManager::init` (`MainRead`, `MainSet`; `MainFail`, which ends the process). `data` and
`version` are the `DataSrc` that each loop's `Loader` copies (`CheckVersion`
outside the lock, then `CheckLoad`). `con[c]` is an `SvCon` with its place (free, queued for its loop, live, gone), socket, client status and
registration; `svcons[l]` is `m_svcons` of loop `l`. `HandleConnected` ignores the
socket error that it fetched, as the code does. Sending a push reads `m_svcons`
and changes nothing, so `ListSound` and `LostOnlyByDuplicate` are what it relies
on. A connection that drops is opened again only when the list changes next.
Every live `SvCon` has a keep-alive timer that restarts itself (`Timed`); the reconnect
span is 0. Left out: a session that expires while `init` still runs, which makes
`init`'s own request fail and the process end.

### SdkClient (with SdkClientProofs)

The SDK's loop for one client id. `ops`, `ctl`, `run` are `m_ops`, the control
socket and `m_run`; `con` is the `CliConn` in `m_conns` with its socket, login
status and timer. The application calls `login`, `disconnect` and `stop` from its
thread (`apc`); the callback of `publish` may call `login` on the loop thread.
`processOps` handles operators one at a time and takes the control bytes *after*
the drain. A connection is deleted by a `DelConnOp` that names the client id,
not the object: `stale` records connections hit by another one's operator. A
failing `send_` closes the socket without any event; `FD_ISSET` of a closed
socket (-1) is undefined and modelled as either answer. `select`'s timeout follows
`c_tvmax` (-1). A packet may fail to parse: a login response then has taken the login
timer away (`PopLoginTimer`) and leaves the connection waiting (`garbled`), a push is
dropped. `m_svrlist` holds the one address that `LoginOp` has put there (`ops.cpp:36`),
so a refused login empties it and is `OnLoginFail`; the code for a next server of the
list is not reached. `swallowed` is history: the byte for an operator in the queue was
sent between the drain and the `recv`. Left out: the contents of packets, and the
timers' map by deadline (a connection has one timer at a time).

### ZkWatch (with ZkWatchProofs)

A `JsonWatcher` on one node and the start of its `ZKClient`. The main thread sets
`m_waiting`, waits on a condition variable, loads the node and sets a watch; the
callback thread takes completions and events in the order they arrive.
`ctx` counts the `WatchCtx` objects of set watches, `check` is `m_check_exists`,
`seen` the copy of the data. ZooKeeper is modelled from the way the code uses it:
one-shot watches, answers in order, events before later answers, requests lost
with the connection, watches set again on reconnection, a new session after
expiry. Status nodes are in `StatusNode`, the child watch is in `PushServer`.

### StatusNode (proofs in ZkWatchProofs)

Processes 1..N started one after another with the same ID: restarts, or a second
server while the first still runs. `pc[p]` is the main thread of process `p`
(`InitStatusNode`, `Report` with `ReportCreate` for a node that is missing,
`DeleteNode`, `CloseSession`), `cb[p]` ZooKeeper's callback thread after an expiry
(`Reinit`, `RebuildSet`, `RebuildCreate`), `sess[p]` the session behind the handle.
The node has an owner, the session that created it, and shows the status of the one
who wrote it last: `set` and `delete` ask for no version and no owner. A request is
one step, which takes effect or not and is answered or not: a connection loss leaves
the caller with an error in both cases. `Crash` ends a process anywhere, which
also stands for what the unlocked use of the handle and of `m_data` by the two
threads may do. The contents of a status are left out: a status is whose it is.

### ServerLife (with ServerLifeProofs)

A process of either program (`kind`): `main` (`CreateThreads`, `EnterLoop`,
`LeaveLoop`), the handler (`Signal`), `Server::stop` statement by statement (`spc`),
the accepting thread and the threads of the loops (`tpc`), with `m_status` and the
operator queues. In the push server `NotifyChange` lets a loop open connections of
its own. A signal is taken by the main thread, which blocks SIGTERM while it is in the
handler: a second one is handled after the first stop has returned, and in the connect
server stops and deletes again. (The kernel may give a second SIGTERM to another thread
meanwhile; two stops at the same time are not modelled.) The code leaves some of this
undefined, and the model takes every outcome: joining threads that were never created,
a second `stopListen`, and an Acceptor that `stopListen` deletes while its thread is in
`acceptConnect` end the process (`crashed`) or do no harm; in the last case the
connection in hand may still be dispatched. Wake-ups are taken for granted
here and examined in `EventLoop`. `closedAll`, `missed` and `early` are history.

### PushPath (with MCPushPath, PushPathProofs) and PushDelivery

The way of a push through both servers. `ListenCon` receives bytes in any segments
(`Receive`) and takes packets from them (`Packet`, `PacketBad`), fans a push out over
`m_svcons` (`cur`) to the connections to connect servers (`link`), which break, are
noticed to be broken later (`Disconnected`) and are replaced (`Register`); the
connect server passes a push to the loop of its session (`Route`), which hands it to
the connection or drops it (`Deliver`). The stream of requests is kept as offsets
of packets, not as bytes. The refusals with -1 to -4 are one. Answers in the socket
when the server closes it may be lost. How a link carries bytes is in `Connection`,
how a session id is made and found in `ConnectServer`, how `cur` follows the server
list in `PushServer`. So are duplicates: here a connection registers only while its
server has none (`cur[v] = 0`), whereas `addServer` overwrites the entry.

`PushDelivery` is the promise: its state is what a caller of the interface and the
sessions can observe and which requests are under way to a session. `Promise` in
`PushPath` is the refinement mapping: a request is done when its last byte has
been taken from the buffer, and what is under way to a session lies on the links or
in its queue, and counts as lost when the session has ended. The promise has a
liveness part: what is under way arrives or is lost. `Safety` is the promise
without it.

### SessCache (with MCSessCache, SessCacheProofs)

One session in the caches of a group. A connect server's thread, the writer,
calls `setSession` and in the end `delSession`; a push server's thread, the
reader, calls `getSession`. `entry[k][n]` is the session's field on node `n` of
cache `k`, with the age of its `lasttime` and the time its key has left; `cfg` is
what ZooKeeper's callback has delivered to a process and `db` the node its thread
works with since the last `getHandle`. A command to Redis is a step of its own and
may fail after all attempts, so the two threads, the clock and the expiry of keys
come between the commands of one call: `HashSet` and `KeyExpire`, `HashGetAll` and
`HashMDel`. `timely` and `missed` are history for the properties. The user's other
sessions share the key and can only lengthen its life; a field whose key has no
expiry (`ttl` -1, after a failed `keyExpire`) covers that. `m_expire` is constant,
and a configuration names at least one node: with an empty list of nodes `getHndl`
divides by zero. Which node a key hashes to is part of the configuration. There is one
clock: `getSession` compares the push server's `time(NULL)` with the `lasttime` that a
connect server has stamped (`sess_cache.cpp:79`, `:108`), and the two hosts are assumed
to agree. A push server ahead of the connect server by some seconds finds sessions old by
as much earlier, and `KeptWhileOnTime` does not hold for an expiry that leaves no room
for that.

## 3. Runs

| run | configuration | question | result |
|---|---|---|---|
| `evloop` | 2 threads, 1 connection with timer, 4 operators, fair | bounded control bytes, no operator under a lowered flag, no dangling event or timer; does a recurring timer repair a lost wake-up? | holds |
| `evloop_lost_wakeup` | 2 threads, no timer, 2 operators, fair | is every operator processed? | **violated** |
| `loopbuf` | blocks of 4 with a header of 2, messages to 7, 3 frames | is the buffer a queue, and when does it lose bytes? | holds |
| `connection` | blocks of 4, header 1, messages to 5, 16 bytes, kernel buffer 3, fair | stream order, EPOLLOUT registration, complete close, which finishes unless bytes lie behind an empty first frame or the thread spins | holds |
| `connect_server` | 3 connections, 2 users, 2 loops, ids modulo 2 | tables, cache and routing while ids are reused | holds |
| `push_server` | 1 server, 1 loop, 3 `SvCon`s, 1 list change, 1 failure, fair | sound lists and loaders; is the list current when the callback thread has nothing to do, and does a loop with a timer end up with it? | holds |
| `push_path` | 2 sessions of 1 server, 2 connections to it, 2 requests of 3 bytes with a head of 2, fair | does the path implement `PushDelivery`; exact counts, order | holds |
| `sdk_client` | 3 calls, fair | leaks, timers, late logins, stop, is every operator processed? | holds |
| `zk_watch` | 6 changes, 3 losses, fair | one chain, alive, current; init returns | holds |
| `status_node` | 3 processes, 1 lost request, 1 expiry, fair | one owner, listed while serving, unlisted when ended | holds |
| `server_life` | 2 loops, 1 client, 1 outgoing connection, 2 signals, both programs, fair | nothing added after closing, clean stop, does a signal end the process? | holds |
| `sess_cache` | 2 caches, the first with 2 nodes, expiry after 2, lag up to 1, 1 change of the configuration | is a session refreshed in time kept, and where and for how long is a deleted one left? | holds |

The largest are `push_server` with 646 000, `push_path` with 423 000, `connect_server` with 302 000 and
`server_life` with 177 000 distinct states.

`CHECK_DEADLOCK FALSE` is used where the system may stop: a stopped loop, a
recycled connection, all connections closed, a list or a node that no longer
changes, a process that has ended. `LoopBufUse` and `SessCache` check deadlock.

### Bounds

* `MaxOps` caps posts. Four operators let both threads post twice, so that a
  thread can be delayed between flag and send over two rounds of the loop; the
  bound of `CtlBounded` is reached (with |Producers| + 1 in its place TLC finds a
  counterexample). `RecvMax` stands for the 16 KiB buffer of `recv` and is only
  assumed to be at least |Producers| + 2.
* `LoopBufUse` numbers bytes modulo 32, more than three frames hold, so a lost
  or repeated byte cannot go unnoticed. Three frames are the least with one
  before, at and behind the write position, and a message of 7 spans more than a
  frame and ends at every offset of a block.
* `Connection` sends at most 16 bytes through a kernel buffer of 3 with frames of
  3: messages are sent whole, in part and not at all, in one to several frames.
  The header of 1 keeps the truncation that `loopbuf` describes out of this
  run, which is about the protocol. One read by the peer (`MaxReads`) is enough for
  EPOLLIN to take a turn before EPOLLOUT.
* `ConnectServer` has three connections because reuse of an id needs two and a
  push needs a sender. `Mask` 2 in place of 1 000 000 makes reuse happen.
  `MaxQueue` caps the operators waiting for a loop. Connections are symmetric; no
  symmetry is used with liveness.
* `PushServer`: the list is set at most four times (init, the first watch, a change,
  a new session), and at most three of these have the server in it; each load opens at
  most one connection per server and loop, so three `SvCon`s are never too few.
  Duplicates need two of these loads, by init, the callback thread and after an
  expired session, before the first connection has registered; the change removes or
  lists the server, or the node above it, in between. `MaxFails` is one failed request,
  read or session, at every place where one can fail. Longer histories, such as a node
  that is removed and created again with failures in between, are left to the proofs,
  which have no bound; a configuration without loops (`Loops` and `SvConns` empty,
  `MaxOther` 0) is small enough for `ListCurrent` with four changes and three failures.
  `MaxOther` is the check that the first `SvManager` posts to every loop.
* `SdkClient`: three calls allow a login, a disconnect and a login from the
  logout's callback, the order that lets a `DelConnOp` meet a new connection.
* `ZkWatch`: six changes take a node through deletion, creation and deletion
  again while a watch is being set; three losses cover a loss, a reconnection and
  an expiry in one behaviour.
* `StatusNode`: three processes are a restart and a rival at the same time. One
  expiry and one lost request meet in all orders with the reports of the main thread
  and the rebuild of the callback thread.
* `ServerLife`: two loops let stop find one running and the other not yet; two
  signals let the connect server run stop a second time, from each place of `main`
  that the first can return to. One client and
  one outgoing connection each meet every state of a loop.
* `PushPath`: a request of 3 bytes with a head of 2 is cut before, in and after its
  head; two requests are the least that have an order, two connections to the server
  the least with an old one still being read. Sessions of one server share its
  connections, which is the harder case for the count.
* `SessCache`: two caches are the least in which one can fail while the other does
  not, and two nodes the least between which a configuration can move. An expiry of
  2 and a lag of 1 let a refresh be early, in time and late, and a reader's clock
  be behind; ages stop at the first value that every reader finds old. `MCStarts`
  has the starts without a configuration, in both processes and in one.

### Fairness

* A thread inside `addAsynOperator` or `stop` goes on; nothing obliges it to call
  them. The loop thread runs whenever it can, and clocks advance. Events of
  devices and signals are not fair: peers may be silent.
* In `Connection`, the loop handles what epoll reports, and a peer that has not
  reset goes on reading; nobody has to call `safeClose`. The stale `errno` may be
  EAGAIN, EINTR or another error.
* In `PushServer` the callback thread and the main thread run, and a loop finishes a
  load it has begun. A queued operator is *not* fair in general: its wake-up can be
  lost (`evloop_lost_wakeup`), and then only a timer brings the loop back to the queue.
  The timer of a loop of the push server is the keep-alive of a live `SvCon`, so
  `CheckVersion` and `ProcessAdd` are fair only while the loop has one, which is what
  `TimerRescues` shows of the loop, and `Converges` is about loops that go on having
  one. The network and ZooKeeper's contents owe nothing.
* In `SdkClient` both threads run and time passes; the server need not answer. In
  `ZkWatch` the main thread runs and the ensemble is reached at some time.
* In `StatusNode` the two threads of a process run and the ensemble expires the
  sessions of ended processes, as a session's timeout makes it do.
* In `ServerLife` `main`, `stop` and the threads run, and a peer that has not stalled
  reads; nobody has to connect or to send a signal.
* In `PushPath` only the loops of the connect servers are fair: whatever is on a
  connection is read and a queued push is handed on. Clients, breaks and the end of
  sessions owe nothing.
* `ConnectServer`, `LoopBufUse` and `SessCache` assume no fairness.

### What the violated run shows

`evloop_lost_wakeup`: `processOps` lowers the flag and then empties the control
socket. A byte sent in between is swallowed while the flag stays up: the next
producer appends, sees the flag up and sends nothing, and `epoll_wait(-1)` sleeps
over the queue. `TimerRescues` shows why a connect server seldom notices: every
client connection has a timer that restarts.

### What the exceptions in the passing runs say

`loopbuf` passes and still describes a loss: `autoResizeWrite` drops the end of a
message when the remainder modulo 2048 is 2017 to 2047, where `allocFrame` returns
a frame smaller than asked for. No text of the repository promises otherwise, so
it is stated as the exact condition of the loss. Other behaviour that the passing
runs describe by their exceptions, and that a maintainer should know:

* `LoopBuf::read` rotates an emptied frame to the tail even when it is the write
  position. Later bytes then lie behind an empty first frame, `firstFrameLen()` is 0,
  and `doSend` sends nothing any more; and `doSend`'s send of no bytes, after a
  call interrupted by a signal, repeats for ever (`ClosesUnlessStalled`).
* Connection ids are `loop * 1000000 + id % 1000000`. When they come round, a push
  goes to the older connection with the same id, and the end of one of the two
  removes what is stored under the id of both (`RoutedOrReused`, `CacheSound`).
* In the SDK, `c_tvmax.tv_sec = ~0UL` is -1 in a signed field, so no timer is ever
  nearer and `select` waits without a timeout: a login without an answer ends, and an
  idle connection sends a keepalive, only when something else wakes the loop
  (`LateLoginEnds`).
* A refused login leaves user and type in `m_sess`; a keepalive then writes a
  session with an empty session id to the cache (`CacheSound` allows just this).
* Two connections to one server arise when the list changes before the first has
  registered; the end of either removes the entry of both
  (`LostOnlyByDuplicate`). A refused registration leaves its `SvCon` in the loop
  for ever: `disconnect` is called, `recycle` is not. `init` may set an older list
  than the callback thread did (`ListCurrent` is about lists the callback set).
* The push server's list stays old after a single failed request (`missed` in
  `ListCurrent`). A child that cannot be read, because it has just gone or the
  connection has, makes `onChildrenChange` drop the whole list, and nothing tries again
  before the list changes next. A `getChildrenComplete` with an error sets no watch:
  the list is not followed until the session expires. When the node above
  the servers is deleted, `m_check_exists` may stay set, and the servers
  listed before stay in the list.
* A push server's loop without connections has no timer. If the wake-up for a
  `CheckConnectServerOp` is lost there, the loop keeps its old list, and with it no
  connections, until another operator or event wakes it (`Converges` leaves it out).
* A login from the logout callback is queued before the `DelConnOp` of the old
  connection, which then deletes the new one with its socket open
  (`LeakOnlyByStaleDel`). `asynStop` clears `m_run` before `onStopAndWait` tests it,
  so the thread is never joined; `StopEnds` shows only that it ends. The `recv` of the
  SDK loop takes the byte of an operator posted between the drain and it: the operator
  waits for the next byte (`ServedUnlessSwallowed`, which names this as the only way).
* `handleLoginResponse` takes the login timer away before it parses: a LOGIN_RESP that
  does not parse leaves an open socket in DO_LOGIN with no timer, and the application
  hears nothing (`StatusTimed`, `LateLoginEnds`).
* A request that fails with a connection loss is not repeated, and
  `m_check_exists`, once set, stops later checks until the node appears: in both
  cases the node is no longer watched until the session expires (`ChainAlive`).
  An `exists` that finds the node again sets a watch without reading the data
  (`SeenCurrent`). A connection made before `init` waits is never noticed
  (`InitWakes`), and a watcher started on a missing node sets no watch.
* A signal does not end a process (`SignalEnds`) if it comes before the connect server
  sets `m_run`, which then overwrites what `stop` cleared; if a thread has not yet set
  STATUS_RUNNING, so that `stop` on its loop is undone; if a push server's loop opens a
  connection after it has closed the others, since it then waits for that one; and if a
  peer does not read what a closing connection still holds, since `safeClose` takes the
  timers away that would have ended it. A connection whose operator arrives between a
  loop's last drain and its test of `m_status` is never destroyed (`StopClean`).
* A server restarted before the session of its crashed predecessor has expired finds
  the node there, and its `init` fails without another try. A process that is told to
  stop deletes the node of its ID even when it is another's (`robbed` in `OwnNode`). If
  the callback thread cannot open a new session after an expiry, it does not try again:
  `Relisted` is about processes that have a handle.
* A push to a session or over a connection that has gone is dropped, although the
  answer has counted it (`CountExact` holds until one has gone). After a reconnection,
  pushes can overtake those on the old connection (`InOrder`).
* When `procTimerCnt` timers have run in one pass, `processTimers` returns 0, which
  `run` takes for "no timer", although `ef_event_loop.h:86` says "return next timer
  start after ms": the loop then sleeps until something else wakes it.
  `ProcessTimers` has this (set `TimerBatch` to 1); the batch of the runs is larger
  than the number of timers, so `TimerRescues` is about passes that end before it.
* `setSession` renews the key after it has written the field. If the key expires in
  between, the fresh field is lost with it, and `keyExpire` finds nothing. A
  session is therefore safe only from the end of its second command and if the
  *whole* call comes in time (`KeptWhileOnTime`). Once a session was late, a
  reader that saw the old field may delete the refreshed one; the next packet of the
  client writes it again.
* A cache that had no configuration when its thread first asked for it stays
  without one; the session is then neither kept nor deleted there
  (`LeftOnlyByFailure`).

## 4. Proofs

`NetProofs` is about the network framework: the event loop, the loop buffer and the
sending side of a connection. Of `EventLoop` it proves, for any finite set of
producers, any connections, any batch and any number of operators:

* `TypeCorrect`: `Spec => []TypeOK`
* `CtlBound`: `Spec => []CtlBounded`
* `FlagDown`: `Spec => []FlagDownServed`
* `PointersValid`: `Spec => []NoDangling`

They follow from `Inductive`, which shows `IInv` to be inductive, one step per
action:

* `CtlBounded` is not inductive: a state at the bound with another sender under
  way would break it. `WakeBudget` counts control bytes, threads about to send and
  one more if the flag is down; the sum is at most |Producers| + 1, and one more
  between the reset of the flag and the `recv`. A thread spends the unit of the
  lowered flag when it raises it and turns it into a byte later; only the reset
  creates a unit, and the `recv` that follows removes every byte. The step for
  `CasFlag` uses that the set of senders grows by one (`FS_AddElement`), the one
  for `SendCtl` that it shrinks (`FS_RemoveElement`), and the step for `RecvCtl`
  that |Senders| is at most |Producers| (`FS_Subset`).
* `NoDangling` needs `ReadyOnlyInEvents`: operators and timers recycle
  connections only while no event is waiting for its turn.
* `FlagDownServed` needs only the types.

These proofs rest on `ConstantsAssumption`, which TLC evaluates in every run of
`MCEventLoop`.

Of `LoopBufUse`, for any alignment, any header below it, any sizes of messages and any
number of frames and operations:

* `BufferSound`: `UseSpec => []UseTypeOK`
* `BufferFifo`: `UseSpec => []FifoOrder`
* `LossBounded`: `UseSpec => LossOnlyAtBlockEnd`

The inductive invariant `UseInv` says that the buffer is `Sound` (types, no overfull
frame, nothing behind the write position) and `Holds` the bytes numbered from `front`.
`Holds` does not flatten the frames: there is a function `off` such that frame `i` has
exactly the bytes from `off[i - 1] + 1` to `off[i]` of the contents (`At`). An
operation on frames is then an operation on boundaries: a `FillTurn` moves those from
the write position on, `Extend` repeats the last one, `Read` shifts them all and
rotates. `At` also says that a frame before the write position is empty only
if nothing precedes it. Without this, `Connection` could not be proved: it is what
makes `doSend`, which stops at the first empty frame, see all of the bytes or none.

Every lemma is about one operation (`WriteKeeps`, `ExtendKeeps`, `AutoResizeKeeps`,
`ReadKeeps`, `ClearKeeps`) and is used by both modules. The induction they need is over
sets: `Induct` takes the least number outside a set (`LeastNat`, from the well-founded
order of the naturals). In this way `Iterates` gives the recursive function of `Fill`
its meaning, `FillEnds` shows that it ends with nothing left or with a full last
frame, and `BytesAre` that the flattened frames are the contents up to a boundary.
`LossBounded` follows from the arithmetic of `allocFrame` (`Overflow`): a frame with
less room than asked for has exactly `Align - l % Align < Header`.

Of `Connection`, for any sizes of frames, messages and kernel buffer:

* `ConnectionTyped`: `ConSpec => []ConTypeOK`
* `UnsentWatched`: `ConSpec => []PendingWatched`
* `ClosedDrained`: `ConSpec => CloseComplete`
* `StreamInOrder`: `ConSpec /\ [][WholeMessages]_conVars => []StreamIntact`
* `StreamInOrderShort`: with `MaxMsg <= Align - Header`, `ConSpec => []StreamIntact`

`ConInv` adds to `PendingWatched` that the buffer is sound and holds *some* bytes,
that no more are sent or waiting than the application has handed over, and that a
closing connection is registered for EPOLLOUT: after `safeClose` a
`sendMessage` must buffer. None of this depends on which bytes are lost.

`StreamIntact` does: `autoResizeWrite` can drop the end of a message
(`LossOnlyAtBlockEnd`), and then the stream has a hole. So `StreamInOrder` has the
premise `WholeMessages`: what a message leaves for a new frame never ends in the last
`Header - 1` bytes of a block, so none is truncated. `StreamInOrderShort` has it from a
bound on messages: one that fits into a first frame, 2016 bytes in the code
(`Align` 2048, `Header` 32), leaves a rest that is no longer than that, so it never ends
in those last bytes, and the premise goes. It cannot be left out for longer messages:
with a header of 1, as in the run `connection`, there are no such bytes, but with
`Header = 2` in its configuration TLC finds a stream with a hole.

`ConnectServerProofs` proves, for any connections, users, ports, loops, mask and
length of queues:

* `MapHoldsLive`: `Spec => []MapSound`
* `CacheTrue`: `Spec => []CacheSound`
* `PushRouted`: `Spec => []RoutedOrReused`
* `ListHoldsServers`: `Spec => []ServicesSound`

`MapSound` needs `Adds`: an operator that adds a connection lies once, in the queue of
the connection's own loop, while the connection waits; otherwise an add could put a
destroyed connection into a map. `RoutedOrReused` needs a chain of facts about session
ids: every id on its way was *given* by some login (`Ids`), and an id given by a login
is made of that connection's id (`Sessions`); so whoever is found under the id
has it too. What keeps the chain is `Steady`: the id of an accepted connection and the
session of a logged-in one never change, so ids stay given and reuse stays reuse
(`SteadyFacts`). In `CacheSound` the entry that the end of a connection removes can
be another's only if both session ids, hence both connection ids, are equal.
`ServicesSound` is shown by position (`Listed`): `find` and `erase` take away one
entry and shift those behind it, which leaves nothing of a connection only because
no connection is entered twice.

`ZkWatchProofs` proves, for any number of changes of the node and of losses:

* `TypesKept`: `Spec => []TypeOK`
* `SingleChain`: `Spec => []OneChain`
* `ChainEnds`: `Spec => []ChainAlive`
* `CopyCurrent`: `Spec => []SeenCurrent`

None of the last three is inductive. `IInv` describes the seven places the chain
can be in (nothing, asked, lost, answered, answered and already fired, watched,
fired) with everything in the queues at each; an answer overtaken by its own
event is the place that a proof by counting alone would miss. `Checking` says
that an `exists` under way has set `m_check_exists`, `CopyOfBase` relates the copy
to the revision last shown, `Begun` that the chain of a started watcher is empty
only after a loss or with `m_check_exists` set, and `NewSession` that a new
session starts without watches. One lemma per action moves the chain from place
to place. TLC checked `IInv` on the instance of `zk_watch` before it was proved.

The second half of `ZkWatchProofs` is about `StatusNode`. For any number of processes,
losses and expiries it proves:

* `TypesOfStatusNode`: `NodeSpec => []NodeTypeOK`
* `OwnsNode`: `NodeSpec => []OwnNode`
* `NodeHasLiveOwner`: `NodeSpec => []OwnerLive`, whoever owns the node has an open
  session

`OwnNode` is inductive together with the types and `OwnerLive`. The requests of all
actions are first reduced to three effects (`Request`: none, data written, node
created), so that each action needs only its own lemma about threads and sessions.
`OwnerLive` is the safety half of `Unlisted`.

`ServerLifeProofs` proves, for any loops, connections and signals, and both programs:

* `ClosedStaysClosed`: `Spec => []NoClientAfterCloseAll`
* `StopsClean`: `Spec => []StopClean`

The invariant has eight parts besides. `AcceptorFirst` says that a CloseAll
operator exists only after the accepting thread has ended, so an `AddConnectionOp` for
a client lies before it in every queue (`Queues`). `Created` and `Joined` say which
threads exist and that `stop` has returned only when all have ended, `Empty` that an
ended loop has no connection, `Homes` that a waiting connection lies in the queue of
its loop, `Checks` that a connection is opened once. Without `Checks` a
connection could be made in two loops and outlive one of them.

`SdkClientProofs` proves, for any number of calls:

* `LeakOnlyStale`: `Spec => []LeakOnlyByStaleDel`
* `AlwaysTimed`: `Spec => []StatusTimed`, with the login response that does not parse
  as the only exception

The first needs `DelsAfterClose`: a `DelConnOp` in the queue comes from a connection
that exists or existed, and that of the present connection was posted when its
socket had been closed. The queue changes by concatenation in callbacks, hence the
lemmas on concatenated and shortened queues.

`PushServerProofs` proves, for any servers, loops and `SvCon`s:

* `TypeCorrect`: `Spec => []TypeOK`
* `Sound`: `Spec => []ListSound`
* `LostByDuplicate`: `Spec => []LostOnlyByDuplicate`
* `Fresh`: `Spec => []LoaderFresh`
* `Current`: `Spec => []ListCurrent`

The invariant has a part for each. `ConsSound` says what server, loop and place an
`SvCon` has in each status; without it a connection that is destroyed could still be
an entry. `Listed` names the second connection to the server as one that has been
opened, at whatever time, since the one whose end removed the entry may be gone by
now. `Versioned` adds that no loader is ahead of the data source: a version read
outside the lock is at most old. `Watched` follows the list through the callback
thread: while the watch is armed, what it has read but not set is the present list, and
whenever it is left without a watch or without a list, `missed` says so. The failed
requests, the checks for the node and the expired sessions are steps of this proof like
the others.

`SessCacheProofs` proves, for any caches and nodes and any expiry above the lag:

* `Keeps`: `Spec => []KeptWhileOnTime`
* `Deletes`: `Spec => []LeftOnlyByFailure`
* `Ends`: `Spec => GhostEnds`, an action property

`Cells` ties the age of a field and the time its key has left to the time since the
last complete refresh on that node: the field is never older than that, the key never
nearer to its end, so the key cannot expire and no reader finds the field old before
the refresh is late. It has to say this also between `HashSet` and `KeyExpire`, when
the field is new and the key is not (`FreshIsNew`). `ReapsOld` carries what a reader
saw over the clock and the refreshes until its `HashMDel`: it deletes only where the
session has been late. `DeletedSoFar` is `LeftOnlyByFailure` for a `delSession` that
has come as far as cache `wat`. The ages of what a session left behind are bounded
from below by the time since its end, which gives `Ends`.

`PushPathProofs` proves, for any finite set of sessions, any servers, connections,
lengths and number of requests:

* `Exact`: `Spec => []CountExact`
* `Order`: `Spec => []InOrder`
* `Refinement`: `Spec => Promise!Safety`, the safety part of `KeepsPromise`

All rest on `Invariance`. `Stream` says that the requests lie one after another and
that whole ones have been taken, so that `Done`, which counts requests by offsets, goes
up by one with each packet and by none with anything else. `Placed`, `Bounded` and
`Distinct` say that a push under way to a session is in one place: on one position of
one connection to the session's server, or on one position of its loop's queue, and
only for requests that are done. This is what makes moving it (`Route`, `Deliver`)
neither add nor lose one, and what a count of sets needs: with a push in two places the
loss of one would not be a loss. `AllOrdered` is `InOrder` with what is still on its
way: everything that has arrived is before everything queued, and that before
everything on the connection, as long as there was only one.

For the refinement the initial state is mapped first, then each action to a step of
`PushDelivery`: `Ask` to `Ask`, `ReadAnswer` to `See`, `Packet` to `Handle`
(`HandleStep`, which uses that the request at `off` is number `Done + 1`); the other
actions of the interface are `End` or change nothing the promise speaks of
(`InterfaceStep`), and those of connections and sessions are `Deliver`, `Lose` or
nothing (`WayStep`). Pushes
are described by where they are (`Rides`, `Waits`) and not as sets, so that a step
needs to say only which position is new or gone.

The `ASSUME`s behind the proofs (`ConstantsAssumption`, `ConnectServerAssumption`,
`PushServerAssumption`, `SessCacheAssumption`, `PushPathAssumption`, `ZkWatchAssumption`,
`BoundsAssumption`, `ServerAssumption`, `SdkAssumption`, `LoopBufAssumption`,
`LoopBufUseAssumption`, `ConnectionAssumption`) are evaluated by TLC in the
runs of the modules that state them. `TypeOK` is kept in every module as the
documentation of its variables and is not among the properties of the runs.

Every invariant and every action property that a passing run checks is proved,
`StreamIntact` under the premise above or for short messages.
Only model-checked is all liveness, because fairness and `ENABLED` are out of the
prover's reach: `TimerRescues`, `ClosesUnlessStalled`, `Converges`, `StopEnds`,
`LateLoginEnds`, `ServedUnlessSwallowed`, `InitWakes`, `Relisted`, `Unlisted`,
`SignalEnds`, and with them the liveness part of
`KeepsPromise`; and, being about a violation, the run `evloop_lost_wakeup`.

A proof module that speaks of two specifications EXTENDS both, which is why the
definitions of `LoopBufUse`, `Connection` and `StatusNode` carry a prefix (`UseSpec`,
`ConSpec`, `NodeSpec`).

## 5. Not modelled

* Protocol buffers, JSON, encryption, codecs: pure data. A packet is its kind and
  length.
* Parsing of settings, logging and statistics; failures of `init` and `listen`, which
  end a program before it serves.
* `checkReqQue`, `transRequest` and `LoopBuf::find`, which nothing calls; the thread
  pool, which neither server nor the SDK uses; the reconnect timer of the client
  connector, which its only user switches off.
* Connect, AUTH and the single attempts of a Redis command: to the session cache a
  command succeeds or fails after all of them.
* A second client id in the SDK, and a second user's sessions under one cache key.

The modules map a small share of the repository's lines, about one in thirteen. Most
of the rest is not this program's logic: vendored protocol buffers and jsoncpp in
`clientsdk/`, the generated `gpush.pb.*`, a second copy of `efnfw` for the
SDK, ciphers, hashes and codecs (`rijndael`, `md5`, `base64` and others), wrappers of
socket calls, a demo application for Android. These have no state of the protocol to
check, and a model of them would be a transliteration.

## 6. Plan

What is left, in this order:

1. Abstract specifications of routing, which `ConnectServer` implements while no id is
   reused, and of a byte stream, which `Connection` implements while no message is
   truncated (`StreamInOrder` is the invariant such a refinement needs).
2. The life of a Redis connection: connect, AUTH, timeouts and retries of a command.
3. `ServerLife` on top of `EventLoop`'s wake-ups instead of assuming them.
