# Specification of asio-tcp

TLA+ models, TLC configurations and TLAPS proofs for the programs of this
repository that are built on Boost.Asio:

* `asio_test`: an echo server (`server_tcp`, `session_tcp`, `connection_mgr`,
  `conn_msg`);
* `asio_client`: a blocking client that exercises it;
* `asio_wrapper_test/include`: `st_asio_wrapper`, a library of sockets, servers,
  clients, timers and packers, with two small programs that use it.

The remaining directories (`bind_function`, `graph`, `test`) are demonstrations
of Boost features and share no state with these.

## 1. Inventory

### 1.1 The echo server (`asio_test`)

| part | state | operations | called by |
|---|---|---|---|
| `session_tcp` | `msg_queue_` with `mutex_`, one read chain, one or more write chains, the socket | `start`, `do_read`, `handler_read_header/body`, `ProcessMsg`, `write`, `do_write`, `handler_write_header/body`, `close` | io threads (handlers), any thread (`write`) |
| `connection_mgr`, list | `connection_list_`, `max_conn_`, `mutex_` | `can_join`, `join`, `leave`, `find`, `write_to_all`, `stop` | io threads, main thread |
| `connection_mgr`, buffers | `conn_msg_buffer_` (circular buffer), `buffer_mutex_` | `allocate_msg_buffer`, `dellocate_msg_buffer`, `clear_buffer` | io threads, main thread |
| `conn_msg` | `header_`, `body_`, `body_fixed_`, `size_allocated_` | `body_length(n)`, `set_body`, `capacity` | the thread that owns the buffer |
| `server_tcp` | acceptor, `curr_client_id_`, `io_service`, thread group | `start`, `stop`, `start_accept`, `handler_accept` | main thread, io threads |

How they interact: `handler_accept` asks `can_join`, numbers the session and
starts it; `session_tcp::start` joins the list and issues the first read; a
received message is copied to a pooled buffer, queued with `write` and freed
when its body has been sent; any failed operation makes the session `leave`.
`stop()` closes the acceptor, closes the listed sessions, stops the
`io_service`, joins the threads and empties the pool.

What is hard: several threads run the `io_service` (four in `asio_test.cpp`) and
no strand is used, so handlers of one session run concurrently; `write` and
`handler_write_body` release `mutex_` before they call `do_write`; the allocator
looks at the pool twice, under two locks, and a session is destroyed with its
queue as it is; `can_join` and `join` are separate critical sections, and
`session_tcp::start` may throw between them and the next `start_accept`; `stop()`
runs against handlers that are under way, and what it aborts is still queued
when the server is started again.

What makes it correct: messages are sent whole, once, in order, and in the end;
no message is left in a queue that nobody serves; a buffer has one owner and is
freed after its last use; the list holds exactly the live sessions, within its
limit; the server goes on accepting; `stop()` returns and leaves nobody
connected. The code keeps the first of these, and the buffers of a broken
session, only up to a point, which the properties name (section 5).

### 1.2 `st_asio_wrapper`

| part | state | operations |
|---|---|---|
| `st_socket` | `send_msg_buffer`, `post_msg_buffer`, `recv_msg_buffer`, `temp_msg_buffer`, `sending`, `suspended`, `dispatching`, timers | `send_msg`, `post_msg`, `dispatch_msg`, `msg_handler`, `do_dispatch_msg`, `on_timer`, `reset_state` |
| `st_tcp_socket_base` | `last_send_msg`, unpacker, closing state | `do_start`, `do_recv_msg`, `recv_handler`, `do_send_msg`, `send_handler`, `graceful_close`, `clean_up` |
| `st_connector_base`, clients | `connected`, `reconnecting` | `do_start`, `connect_handler`, `on_recv_error`, `on_timer`, `force_close`, `graceful_close` |
| `st_server_base`, `st_server_socket_base`, `st_object_pool` | the acceptor, `object_can`, `temp_object_can`, `close_state` | `init`, `uninit`, `accept_handler`, `add_client`, `del_client`, `reuse_object`, `free_object`, `clear_all_closed_object` |
| `st_service_pump` | services and their `started` flags, the io threads | `start_service`, `stop_service`, `force_stop_service`, `run_service`, `remove` |
| `st_timer` | timer list with statuses | `set_timer`, `update_timer_info`, `stop_timer`, `timer_handler` |
| packers, unpackers | bytes left from the last read | `pack_msg`, `parse_msg`, `completion_condition` |

What is hard: the send path decides under `send_msg_buffer_mutex` who sends
next while the previous write may still be in flight; received messages pass
through two buffers and a flag; a close races reads, writes and timers; a
recycled socket object must not hear from its former life; a stream is cut into
messages at arbitrary places; the pump is stopped while handlers, clients and
timers still keep it busy; a close of the application meets a connect, a retry
or a time-out that is under way.

What makes it correct: a stream is unpacked into exactly the packed messages;
messages are sent and handled once, in order and in the end; an object of the
pool is in one place and serves a new client only when nothing of the old one
is left; the server goes on accepting; stopping the pump ends; a link has one
chain of operations, comes back when it should and stays closed when it should.

### 1.3 Hazards

`PROJECT.json` lists each hazard with its line and the properties that would
catch it. Not listed there, and in no model, because nothing but reading the
line decides them: `write()` reads a length for its log line after `mutex_` is
released (`connection.cpp:256`), `parse_msg` moves the rest of its buffer with
`memcpy` although the ranges may overlap (`unpacker.h:138`), `closed_object_pop`
erases under a shared lock (`object_pool.h:252`), and `find_timer`, which nobody
calls, tests its iterator the wrong way round (`timer.h:110`).

## 2. Modules

| module | models | source |
|---|---|---|
| `SessionTcp` | one connected client of the echo server | `connection.cpp`, `connection.h` |
| `EchoChannel` | what a session promises: a FIFO channel that delivers while the link is up | (abstract) |
| `MsgPool` | the buffers and their allocator | `connection.cpp`, `connection.h` |
| `ServerTcp` | accepting, the list, `start` and `stop` | `server.h`, `Server.cpp`, `connection.*`, `asio_test.cpp` |
| `StTcpSend` | the sending half of an `st_asio_wrapper` client socket, across reconnections | `st_asio_wrapper_socket.h`, `..._tcp_socket.h`, `..._connector.h`, `..._tcp_client.h` |
| `StTcpRecv` | the receiving half of an `st_asio_wrapper` server socket, one link | `st_asio_wrapper_socket.h`, `..._tcp_socket.h`, `..._server_socket.h` |
| `StCodec` | packers and unpackers at the two ends of a byte stream | `..._packer.h`, `..._unpacker.h`, `..._tcp_socket.h` |
| `StServicePump` | the pump, its service thread and its caller; a service joins its own `init` and `uninit` to it | `..._service_pump.h` |
| `StServer` | a server on its pump: accepting, the object pool, the life of its sockets (EXTENDS `StServicePump`) | `..._server.h`, `..._server_socket.h`, `..._object_pool.h`, `..._socket.h`, `..._tcp_socket.h` |
| `StTimer` | the timer list, as operators | `..._timer.h` |
| `StConnector` | a client link with its retries and closes (EXTENDS `StTimer`) | `..._connector.h`, `..._tcp_socket.h`, `..._client.h` |
| `AsioClient` | a thread of the blocking client, composed with the session that serves it (EXTENDS `SessionTcp`) | `asio_client.cpp` |
| `MC...` | model values and definitions for TLC | |
| `..._proofs` | theorems | |

**SessionTcp.** One action is one critical section of `mutex_`, executed by one
thread. The chain of calls `do_write`, `handler_write_header`,
`handler_write_body`, `do_write`... that a `write()` on an empty queue starts is
a *write chain*, named after the message of that `write()`; `chain[c]` is its
phase and `op[c]` the message whose memory its outstanding `async_write` uses.
`runs[t]` is the chain whose `do_write` thread `t` is going to call, now that
`mutex_` is released: the window between the two locks. Between issuing an
operation and running its handler there is a completion step
(`write_header_completes`, `read_arrives`, ...) which stands for the kernel and
the `io_service`; then any idle io thread takes the handler. A buffer that was
freed while it is being sent may have been recycled or deleted: what is then
sent is any message or garbage (`BufferContents`). `accepted` and `wire` are
history: what `write()` took, in the queue's order, and what the socket sent.
`doubled` is history too: a `write()` came when a thread had popped the last
message and not yet called `do_write`. The session then has two write chains, and
with them two `async_write`s; the properties about order say that this is the
only way to lose it, and the ones about progress hold in any case.

**MsgPool.** One action is one critical section of `buffer_mutex_`. A header is
abstracted to a type (standing for `type`, `subtype` and `packNum`) and a
length; a buffer is its address, its header and `size_allocated_`. `meant`
remembers the header a buffer was last allocated for. `set_body` and the push on
a session's queue are one action because only the holder touches the buffer in
between. `session_destroyed` is `~session_tcp`: whatever a broken session has
queued is in no queue any more and goes to the history variable `leaked`.
`clear_buffer` takes the wrong mutex in the code (`mutex_`); it runs
only when the io threads are joined, which is its guard here.

**ServerTcp.** `handler_accept` is four to five actions of its thread:
`handler_accept` (the error test and `can_join`), `read_client_id` and
`set_client_id` (the unprotected `curr_client_id_++`), `start_session` (`join`)
and `accept_again` (the `start_accept` at its end). `session_tcp::start` first
asks the socket for its endpoints, which throws for a client that has already
reset the connection (`start_session_throws`): nothing catches it in the io
thread, and the program is `"terminated"`. `stop()` is four actions of the main
thread. A session is only its life cycle. Session objects are
recycled: a `new session_tcp` takes any address not in use.

**EchoChannel.** Messages enter at one end, and leave whole and in order at the
other; delivery is fair while the channel is up; a channel that is down delivers
nothing. It is `intact` until a message that enters when all the former ones have
been delivered spoils it, which it may or may not do; a spoilt channel delivers
anything. `SessionTcp` maps `intact` to `~doubled`.

**StTcpSend.** One action is one critical section of `send_msg_buffer_mutex` or
`post_msg_buffer_mutex`. `post_msg` on a full buffer is therefore two actions of
its thread (`post_finds_full`, `do_direct_post_msg`), and so are
`suspend_send_msg(false)` (`resume`, `send_msg`) and `connect_handler` (which
ends in a call of `send_msg`). `do_send_msg` is one operator used by all of
them, with the same three outcomes as the code: not allowed (which clears
`sending`), nothing to do, start the front message. `writes[m]` follows the
`async_write` of `m` to its handler; `clean_up` aborts the ones in flight, whose
handlers may then run at any later time, on the next link too. `timer` is
timer 2: a wait that is armed, handlers that have expired and are queued, and
whether `timer_handler` will continue it. A write whose memory
(`last_send_msg`) was given to another write sends garbage (`NoMsg` in `sent`).
`taken` and `sent` are history.

**StTcpRecv.** The receiver (`recv_handler`, `dispatch_msg`, `on_timer(0)`) is
one thread of control; `receiver`, `iter` and `dispatch` are where it is in
`dispatch_msg` and its local variables. A pass of `dispatch_msg`'s loop is one
action per `on_msg` call; `splice_and_dispatch` is the critical section after
the loop. `handler` is the `msg_handler` that `dispatching` stands for: posted,
accepted or refused (the return value of `on_msg_handle`), then its critical
section. `do_dispatch_msg` is one operator (`dispatch_now`), with the branch
that hands everything over at once when the socket is closed. Messages have an
identity; `arrived` and `handled` are history. Posting appears through
`post_begins` and `post_ends` only, whose timer is in `StTcpSend`.

**StCodec.** `kind` is the unpacker class; the sender uses its packer. Bytes are
numbers below `BYTE`, so that a body may look like a head, and `size_t` has
`SIZE` values, so that lengths can wrap around. `read_some(n)` is one
`async_read_some` of the composed `async_read`: `n` bytes arrive, then
`completion_condition` decides whether the read goes on; a full buffer ends it.
`recv_handler` is `parse_msg` and the next read, including its first look at
`completion_condition`. `asserted` records the asserts of these functions.
`clean_up` is the `reset_state` of another thread while a handler is queued.
`cut_heads`, `cut_suffixes` and the `Turns` of `lengths_turn` are the loops of
`parse_msg`: a turn of a loop is a function on its state, a loop that is over
leaves its state as it is, and no loop can last longer than there are bytes, so
that `Turns` goes round as often as there are bytes. `RequestsAssumption` says
what the arguments of `send_msg` are: `pstr[i]` points to `len[i]` bytes, unless
it is null or the length is too large for any packer. The 4-byte head of
`HUGE_MSG` differs in its width only; what `raw_data` returns is a view of the
packed message.

**StServicePump.** `runner[r]` is where the `r`-th service thread is in
`run_service`, `caller` where the application thread is in the pump's calls,
`after` where it goes once the service is stopped. The time-out of
`start_service` is the action `start_gives_up`, counted in `slow`. `io_service`
is the flag `stopped`; `run_returns` needs it, or no work left.

**StServer.** One action is one critical section of `object_can_mutex` or
`temp_object_can_mutex`, or what a handler does between two: `del_object` is
`erase` and `push_closed`, and `on_recv_error` goes on with the `force_close` of
`del_client` and the reset of `close_state`. `st_socket::start` is two actions:
`started_` is assigned (`start_returns_true`) when the read has been issued.
`obj[t]` is the `shared_ptr` a thread holds; `Unique` is `unique()`. A socket is a
record: `close_state`, the descriptor, its read (`ending` while `on_recv_error`
runs) and its write up to their handlers, how many messages wait in
`recv_msg_buffer`, `dispatching`, queued `msg_handler`s and timers 0, 3 and 10.
`dispatch_msg` is the set of outcomes that `StTcpRecv` models in detail; a message
is echoed where it is handled, by `on_msg` or `on_msg_handle` (`do_send_msg`), and
when the rest of the read cannot be unpacked `recv_handler` ends in a
`force_close`. Four variables are history. `asked`: the objects the application or
`uninit` closed. `overlapped`: `init` ran while an accept handler of an earlier run
was queued. `late`: objects that were taken for an accept while a `msg_handler`
was queued for them. `outrun`: objects whose link was cleaned up before
`start` set `started_`. The configuration is that of `asio_server.cpp`
(`REUSE_OBJECT`, `ENHANCED_STABILITY`, `CLOSED_SOCKET_MAX_DURATION` 0), whose pump
has one io thread.

**StTimer.** A timer is its `status`, its `user_data`, whether a wait runs and how
many of its handlers are queued; the operators are the functions of
`st_timer` on such a list. `StConnector` uses them for timers 0, 10 and 11.

**StConnector.** `io` is the socket with its outstanding operations and the
queue of their handlers, which io threads take in order. `connected`,
`reconnecting` and `close_state` have no lock; `on_recv_error` is four actions
(`on_recv_error`, `link_broken`, `start`, `start_returns_true`) and a close of the
application two or three, so that they interleave. `recv_handler` may end in
`on_unpack_error`, which closes with `reconnect` = false. `asked` is what the
application, or `on_unpack_error`, wanted last, and `during` what that close found
the link doing: `reads`, `connects`, `waits` (nothing is under way but a timer, if
anything) or `handles`. The last means that a handler of the link was queued or
ran, came between the two halves of the application's call, or handled a message
although `connected` was cleared already. What the code does differs: only
`on_recv_error` resets `close_state`, so that a close is followed up properly when
it ends a read, partly when it ends a connect, hardly when it only stops a timer,
and may lose to a handler. Each property of the module names those of the four
it does not hold for. `outrun` is as in `StServer`.

**AsioClient.** The client writes and reads segments (a header or a body);
`written`, `taken` and `got` count what it wrote, what of this the session read,
and what of `wire` the client read. The session is `SessionTcp` itself, with any
number of io threads, whose `read_arrives` is tied to what was written. The loop
counts to `nTotalCnt` as the code does to 100. Once the session is `doubled` the
client may take anything for a length: it is then `misled`, writes what nobody
knows, and ends or not.

## 3. Runs

| run | module / cfg | instance | checks |
|---|---|---|---|
| `session_threads` | MCSessionTcp / SessionThreads | 2 io threads, 1 application thread, 2 + 1 messages, the link may break, fair | `WireIsFifo`, `FreedAfterSent`, refinement of `EchoChannel` with its liveness (`ImplementsEchoChannel`), `NoStrandedMessage`, `AcceptedIsReleased`, `BrokenSessionLeaves` |
| `session_two_writes` | MCSessionTcp / SessionTwoWrites | 2 io threads, 3 client messages | `OneWriteAtATime`, which is violated: what the comment on `msg_queue_` says (section 5) |
| `msg_pool` | MCMsgPool / MsgPool | 2 threads, 4 buffers, capacity 2, 2 of them lost with sessions | `OneOwner`, `LostOnlyWithSession`, `PoolIsUniform` |
| `server` | MCServerTcp / Server | 2 io threads, `max_conn_` 0, 2 clients, two starts, any start of a session may throw, fair | `AcceptingGoesOn`, `ListIsBounded`, `ListIsAccurate`, `StopReturns` |
| `st_send_plain` | MCStTcpSend / StSendPlain | 2 threads, 4 messages (one may overflow), capacity 1, one link, fair | `SentInOrder`, `AcceptedIsSent` |
| `st_send_any` | MCStTcpSend / StSendAny | 2 threads, 3 messages, suspensions, 2 losses of the link | `SendNotStuck` |
| `st_recv_force` | MCStTcpRecv / StRecvForce | `FORCE_TO_USE_MSG_RECV_BUFFER`, suspensions, posting, no close, fair | `HandledInOrder`, `ArrivedIsHandled` |
| `st_recv_any` | MCStTcpRecv / StRecvAny | `on_msg` in use; suspensions, posting, closes | `EachOnce`, `DispatchNotStuck`, `OneReceiver` |
| `st_codec` | MCStCodec / StCodec | the four kinds, a buffer of 8 bytes, up to 3 messages, any cut, fair | `UnpackedInOrder`, `AssertsHold`, `PackedWhenItFits`, `SentIsUnpacked` |
| `st_server` | MCStServer / StServer | 1 io thread, 3 objects of which 1 may be a client at a time, 2 clients, 2 service threads, 3 calls of the application, 1 message (echoed, kept, refused, or followed by garbage) or failure, 1 refusal, fair | `OneRunner`, `OneHome`, `AcceptIntoIdle`, `PeerCloseIsReclaimed`, `AcceptingGoesOn`, `StopReturns` |
| `connector` | MCStConnector / StConnector | 2 io threads, 2 lost links, 1 failed connect, 1 message (also one followed by garbage), 2 closes, fair | `OneChain`, `LinkIsUsable`, `ClosedStaysClosed`, `Reconnects`, `CloseEnds` |
| `client_echo` | MCAsioClient / AsioClient | 2 io threads, 3 messages, the link may break, fair | `EchoMatches`, `ClientEnds`, `SessionFollows` |

More configurations are kept beside these. `StServerTwoIo` widens `st_server` to
two io threads (safety and `TypeOK`); TLC finds no error in it. The others are
each for what the code does not promise (section 5). `tlc -config <cfg> <module>`
shows a counterexample, with `-continue` one for each property:

| cfg | module | violated property |
|---|---|---|
| MsgPoolHeader | MCMsgPool | `EchoesOwnHeader` |
| ServerMaxConn | MCServerTcp | `MaxConnRespected` |
| ServerAssert | MCServerTcp | `AssertNeverFires` (two starts) |
| ServerLateJoin | MCServerTcp | `StopDisconnectsAll` |
| StSendSuspend | MCStTcpSend | `OneWriteAtATime` (suspensions, one link) |
| StSendReconnect | MCStTcpSend | `OneWriteAtATime`, `PostNotStuck`, `PostingHasTimer` (one reconnection, no suspension) |
| StRecvCloseOrder | MCStTcpRecv | `HandledInOrder` (the link closes) |
| StRecvOverflow | MCStTcpRecv | `WaitInOrder` (`on_msg` in use) |
| StRecvRedispatch | MCStTcpRecv | `RedispatchComes` (the link closes) |
| StCodecAsserts | MCStCodec | `AssertsAlwaysHold` (the link closes) |
| StCodecSilent | MCStCodec | `EverythingCanBePacked` |
| StServerQueued | MCStServer | `NothingQueuedAtReuse` |
| StServerGraceful | MCStServer | `ClosedIsReclaimed` |
| StConnectorReconnect | MCStConnector | `CloseTrueReconnects` |
| StConnectorStop | MCStConnector | `StoppedStaysStopped` |

### Bounds

* Messages: a second write chain needs one message to be popped while another
  is pushed. Two messages of the client and one of the application give queues in
  which one is being sent while the others arrive, and a `write()` by a second io
  thread as well as by the application between a pop and its `do_write`. (The
  safety properties are proved for any number.)
* Threads: two io threads already execute any two handlers concurrently; the
  application thread adds a `write()` that no read chain orders.
* Buffers: with capacity 2 and 4 buffers the pool is empty, partly full and
  full, while both threads are between their two looks; `MaxLeaked` 2 lets two
  sessions be destroyed with a message each, or one with two. `MaxBody` 2 with lengths
  0, 2, 3, 4 has bodies below, at and above the fixed body and two sizes on the
  heap.
* Server: with `max_conn_` 0 one client is admitted and the second is refused,
  while two accept handlers run at once. `asio_test.cpp` itself restarts the
  server once, so `MaxStarts` is 2. `MaxId` ends the stream of clients.
  `connect` keeps one spare session object for each accept handler under way,
  because `start_accept` always creates one.
* `StTcpSend`: `MAX_MSG_NUM` 1 makes the buffer full with one message waiting,
  so that the second goes to `post_msg_buffer` and a splice moves only a part;
  the run on one link has a fourth message that may overflow. `MaxLosses` 2
  reconnects twice, so that a handler of the first link can meet the third.
* `StTcpRecv`: a read brings up to `MaxBatch` 2 messages, one more than the
  receive buffer holds, and three messages let a third arrive while one is
  refused and one waits. Two threads suspend, resume and end posting beside the
  receiver, the `msg_handler` and the timers, which are not bounded by them. At
  most one handler of each timer is queued: a second expiry is delayed until
  the first handler has run.
* `StCodec`: a buffer of 8 bytes holds two messages and a part of the third, or
  one of the largest. Requests have empty, null and several parts, bodies that
  look like heads or end like the start of the suffix, the largest size, one
  byte more, more than the head can express, and lengths whose sum wraps
  around.
* `StServer`: `MAX_OBJECT_NUM` 1 with two clients makes `add_object` refuse; the
  third object is the one being accepted into while one is a client and one is
  closed. Three calls are a start, a stop and a second start, or a start and two
  closes of clients; two service threads and `MaxSlow` 1 let `start_service`
  give up once. `create_and_accept` needs a free object, so `connect` leaves one
  for each accept under way. Timer 0 stands for all its rounds: what
  `dispatch_msg` does when it has to wait again is to set the same timer.
* `StConnector`: two losses, a failed connect and two closes reach every pair of
  a close with a connect, a retry, a read, a time-out and another close;
  `TICKS` 2 has a countdown step that is not the last. One message is enough for
  a link that is reading, waits for room, or gets what it cannot unpack, before or
  after any of these.
* `AsioClient`: `nTotalCnt` 1 gives three requests and two replies that are read:
  the first one, which goes out before the loop, one of the loop, and the last,
  whose echo stays unread. Two io threads read the next request while the echo of
  the former one is still being completed.
* Deadlock is not checked in runs with a bounded number of messages or clients:
  they end when these are used up, and a stopped server rests.
* The views `WireUntilDoubled` of `session_threads` and `client_echo` leave out,
  once a session is `doubled`, what was sent and from which buffer (and the length
  of it that both ends have behind them): no guard reads it, no property says
  anything of it then, and no step changes it alone, so that the reduced graph has
  the same fair behaviours. In the same way `WithoutHistory` leaves out `sent` and the order of `taken` in
  `st_send_any`. Symmetry is used for safety runs only, over threads, buffers,
  session objects and, in `StTcpRecv`, messages, which no action tells apart.

### Fairness

* a thread inside `do_write` gets on (it waits for one short critical section);
* while an operation's handler is queued, some free io thread takes it: this is
  what `io_service::run` does;
* the kernel completes an `async_write` (the peer keeps reading or the link
  breaks), and reports a broken link to an outstanding read;
* `StTcpSend`: an armed timer expires, queued handlers run, a thread that is
  between its two critical sections gets on, the kernel completes writes and
  the link gets connected. Only the run on one link needs it;
* `StTcpRecv`: timers expire, handlers run to their end, and an application
  that may refuse a message accepts it when it is offered again and again (the
  only strong fairness: `on_msg_handle` says "false means msg cannot be handled
  right now", and one that refuses for ever is not served by any library);
* `StCodec`: the network delivers what was sent and handlers run;
* `StServer`: an io thread finishes its handler and takes the next, the service
  thread and the caller of the pump go on, timers expire; the application
  refuses a message a bounded number of times. Clients owe nothing;
* `StConnector`: handlers run, timers expire, a call of the application goes on
  or times out, and an attempt to connect ends. The server owes nothing;
* `AsioClient`: the client's thread and an io thread run and the network
  delivers, a close included; nothing makes a `misled` client send or end;
* server: a thread inside `handler_accept` gets on, `run()` returns once the
  `io_service` is stopped, and the main thread gets on inside `stop()`.

Nothing makes a client connect, send or disconnect, and no handler is promised
to run after `io_service::stop`.

## 4. Theorems

Proved by TLAPS for every number of threads, messages, buffers, sockets and
sessions, and for every value of the other bounds of section 3.

* `SessionTcp_proofs`: `TypeCorrect`; `NothingStranded` (`NoStrandedMessage`, for
  any number of threads): inductive as it stands, because a chain only ends at a
  `do_write` or handler that finds the queue empty, and a push on an empty
  queue starts one; `ListedReads` (`ListedSessionReads`).
  For any number of io and application threads too: `OneAfterOne`
  (`~doubled => OneWriteAtATime`), `WholeMessagesInOrder` (`WireIsFifo`),
  `BuffersFreedAfterUse` (`FreedAfterSent`). The inductive invariant `SessionInv`
  says that the queue is the unsent rest of what `write()` took (`QueueIsRest`,
  which two chains do not disturb) and, until the session is `doubled`, that at
  most one chain works on it and always on its head (`OneChain`), and how much is
  on the wire in each phase (`WireMatchesChain`). A push on an empty queue is the
  delicate step: `OneChain` leaves a chain no other place, with the queue empty,
  than between a pop and its `do_write`, which is what `doubled` records.
  `SessionImplementsChannel`: a session implements the safety part of
  `EchoChannel`, step by step. A completed body is a `Deliver` of the next message,
  because the invariant fixes the length of the wire; a `write()` is an `Accept`,
  and one that makes the session `doubled` finds everything delivered; a link that
  goes down is a `Break`.
  About the client that such a session serves (the module extends `AsioClient`):
  `ServedBySession` (the composition refines `SessionTcp`, so every theorem about
  a session holds in it), `ClientTypeCorrect`, and `RepliesAreEchoes`
  (`EchoMatches`), for any number of io threads, any `nTotalCnt` and a link that
  breaks at any time, until the session is `doubled`. The invariant `ClientInv`
  ties the place in `RunConnection` to the segments written and read in `nCount`
  rounds; that the wire holds nothing but echoes comes from `SessionInv`.
* `MsgPool_proofs`: `PoolTypeCorrect`, `BuffersHaveOneOwner`,
  `BuffersAreLostOnlyWithSession`, `PoolStaysUniform`, `BodiesFit` (no queued body
  overruns its buffer), from `PoolInv`: these together with what a thread holds
  between its two looks (`PhasesHold`).
* `ServerTcp_proofs`: `ServerTypeCorrect`, `ServerKeepsAccepting`,
  `ServerListIsBounded`, `ServerListIsAccurate`, from `ServerInv`: an accept
  handler owns the session it works on until `join` (`HandlersApart`). An
  exception in `start` leaves no server that would not accept: it ends the
  program, and this is where `ServerKeepsAccepting` ends.
* `StTcpSend_proofs`: `SendTypeCorrect`; `SendBufferIsServed` (`SendNotStuck`):
  while sending is allowed and messages wait, a write is under way or a call of
  `send_msg` or a handler is still to come. The inductive invariant `SendInv`
  adds that `sending` stands for a write whose handler has not run. It survives
  the findings: a stale handler clears `sending` too early, never too late.
  `SendsInOrder` (`SentInOrder`) and `SendsOneByOne` (`OneWriteAtATime`), on one
  link and without suspensions, which is where they are true (section 5). The
  invariant `LineInv`: at most one write has not come back to its handler, it
  uses `last_send_msg` and keeps `sending` set (`OwnWrite`), and what was sent,
  what is under way and the buffer are, in this order, what was taken
  (`SendLine`).
* `StTcpRecv_proofs`: `RecvTypeCorrect`; `RecvBufferIsServed`
  (`DispatchNotStuck`) and `ReceivesSequentially` (`OneReceiver`) from
  `RecvInv`: `dispatching` always has a `msg_handler` that will reset it, and
  of a read, a `dispatch_msg` and timer 0 exactly one goes on. `DispatchInOrder`
  (`HandledInOrder`), for `FORCE` and a link that stays up: what was handled,
  what is offered, and the two buffers are, in this order, what arrived;
  without a close nothing puts a second message beside the offered one.
  `EachOnceHolds` (`EachOnce`), without these restrictions: every message is in
  one place, and only what a closed socket holds when it is `reset` is lost
  (`discarded`). A close resets
  `dispatching` under a `msg_handler`, so what `OnceInv` keeps is that on an
  *open* socket nothing is dispatched over the message that is offered; the
  order is gone, so the messages are counted (`Count`) and collected (`Held`).
* `StServer_proofs`: `TypeCorrect`; `OneRunnerHolds` (`OneRunner`) from `PumpInv`:
  as long as no `start_service` has given up waiting (`service_pump.h:123`), the
  application thread waits in `start_service` from its call to the moment the pump
  is started. After one that gave up two threads may run the pump, and the theorem
  says nothing. `OneHomeHolds` (`OneHome`) from `HomeInv`:
  `temp_object_can` has no object twice, an object in either container is under
  no accept, and one that a thread holds between the two critical sections of
  `del_object` is in no container and held by that thread alone.
  `AcceptingGoesOnHolds` (`AcceptingGoesOn`) from `AcceptInv`, which adds that no
  accept has failed. With `ENHANCED_STABILITY`, `AcceptIntoIdleHolds`
  (`AcceptIntoIdle`) from `LinkInv`: a socket under an accept is idle, but for the
  write of a `late` `msg_handler`, the read chain of a link (a read, its
  `dispatch_msg` and timer 0, its `on_recv_error`) is at one place at a time, and a
  socket has one start and one `on_recv_error`.
  `PeerCloseIsReclaimedHolds` (`PeerCloseIsReclaimed`) from `CloseInv`: a closed
  object that nobody asked to close and that is not `outrun` is quiet (and a
  `start` still to set `started_` would make it `outrun`), or the `on_recv_error`
  that resets its `close_state` is still under way. They hold for any number of io
  threads, although the code's configuration has one.
* `StConnector_proofs`: `TypeCorrect`, `OneChainHolds` (`OneChain`),
  `LinkIsUsableHolds` (`LinkIsUsable`), `ClosedStaysClosedHolds`
  (`ClosedStaysClosed`). `OneChain` alone is not inductive: a handler that is
  queued comes to issue a read or a connect a few steps later. `ChainInv` says
  for every place of the chain (a read, a connect, timers 0 and 10, a thread in
  `on_recv_error`) that no other is occupied; it holds whatever closes do.
  `UpInv` adds that a link with `connected` set is not being connected. `FlagInv`
  says what `connected`, `reconnecting`, `close_state` and `asked` are at each
  place of the chain, by what the last close found (`during`): `DrivenOf` when it
  found a read or there was none, `GivenUpOf` when it found a connect and was for
  good, `WaitedOf` when only a timer waited, `HalfwayOf` between the two halves of
  the call. It says nothing once a close has met a handler.

* `StCodec_proofs`: for the four unpackers, every width of a byte, of a head and of
  a `size_t`, every buffer size, fixed length, prefix and suffix, any messages
  and any cut of the stream. `PacksWhatFits` (`PackedWhenItFits`): a total that
  wraps around as a `size_t` is always seen, since the one before it was at most
  `MSG_BUFFER_SIZE`. `UnpacksInOrder` (`UnpackedInOrder`), `AssertsAreTrue`
  (`AssertsHold`), `CodecTypeCorrect`, and `UnpacksWhileOpen`: without a close by
  another thread no `parse_msg` fails, so a stream the packer made never closes
  its link. The inductive invariant `CodecInv`: there are bodies `ms`, sent and
  not unpacked, and the bytes received followed by those under way are what the
  packers make of them (`Framed`: a list of cuts, where each body's bytes end).
  The unpacker knows the length of the first one when it has seen enough of it
  (`CurIs`), and a read is complete just when the first one is whole
  (`GatheringInv`). The unbuffered unpacker reads a head, has one, or reads a body
  whose head is no longer in the buffer (`ReadsHead`, `HasHead`, `ReadsBody`). After
  a close, a queued handler finds the first part of such a stream and an unpacker
  that starts anew (`QueuedInv`): what it takes out is still the next bodies. The
  lemmas `CutHeads`, `CutLengths` and `CutSuffixes` say that a loop of `parse_msg`
  takes bodies off the front of a framed stream and leaves one that is framed
  (`Left`) and does not hold a whole body. They and the lemmas about
  `msg_size_check` are inductions over the turns of a loop: the library's
  induction theorems take an operator as a parameter, so `Induction` is stated
  here for a *set* of numbers and proved from the least element of its
  complement (`WFMin`, `NatLessThanWellFounded`). That the suffix occurs first at
  its place (`Suits`) is what makes `memmem` find the end of its own message
  (`FirstSuffix`).

The inductive invariants were checked with TLC on the instances of section 3
before they were proved; the runs check the properties they imply.

Assumptions: the named ones of the modules (the "absent" values are not members
of their sets, limits are natural numbers, `StServer` has finitely many
objects, `CodecAssumption` and `RequestsAssumption`: heads fit two bytes, a
message of the fixed length or a prefix and suffix fit the buffer, the suffix is
not empty); `FORCE` and `~MayClose` in `DispatchInOrder`; `~MaySuspend` and `MaxLosses = 0`
in `SendsInOrder` and `SendsOneByOne`; `ENHANCED_STABILITY`, which is what
`asio_server.cpp` defines, in the two theorems of `StServer` that say so. Each
is the configuration of the run that checks the property, and the findings of
section 5 show what happens outside it.

Only model-checked: liveness (`AcceptedIsReleased`, `BrokenSessionLeaves`,
`StopReturns`, `AcceptedIsSent`, `ArrivedIsHandled`, `SentIsUnpacked`,
`Reconnects`, `CloseEnds`, `ClientEnds`, `SessionFollows`) and with it the
fairness of `EchoChannel`'s `Deliver`, which the prover does not reach. Every
safety invariant the runs check is a theorem.

## 5. Findings

What the code does otherwise than its comments say or its callers may expect;
the configuration in parentheses shows it (section 3).

* With two io threads a session may have two `async_write`s outstanding, so that
  messages are mixed up on the wire and buffers are freed while they are sent; the
  program runs four (`asio_test.cpp:32`). The comment on `msg_queue_` promises one
  after one (the run `session_two_writes`).
* A session that is destroyed with messages in its queue, as one whose `write`
  failed is, leaves their buffers behind: `msg_queue_` holds plain pointers and
  `~session_tcp` does not free them (`leaked` in `LostOnlyWithSession`).
* A client that resets its connection before `session_tcp::start` asks for its
  address makes `remote_endpoint` throw out of `io_service::run`: the program ends
  (`start_session_throws`, excepted in `AcceptingGoesOn` and `StopReturns`).
* A recycled buffer echoes the `type`, `subtype` and `packNum` of an older
  message (`MsgPoolHeader`).
* `max_conn_ + 1` clients are admitted (`ServerMaxConn`).
* The accept that `stop()` aborts survives in the stopped `io_service` and runs
  beside the new one after a restart; two handlers may then pass `can_join` and
  reach the assertion in `session_tcp::start` (`ServerAssert`).
* A client accepted while `stop()` runs may join after the list was cleared and
  stays connected (`ServerLateJoin`).
* Suspending, sending and resuming while a write is in flight starts a second
  `async_write`, because `do_send_msg` clears `sending` when sending is not
  allowed (`StSendSuspend`).
* The handler of a write that was aborted with the old link clears `sending` on
  the new one, with the same effect (`StSendReconnect`).
* Messages left in `post_msg_buffer` when the link closes are not moved on the
  next link until another `post_msg` happens to set the timer
  (`StSendReconnect`, `PostNotStuck`); a handler of timer 2 that is late for the close leaves
  `posting` set for ever, which also stops the dispatching of received messages
  (`StSendReconnect`, `PostingHasTimer`).
* A close lets the messages that wait overtake the one a `msg_handler` is about
  to handle (`StRecvCloseOrder`).
* When the receive buffer overflows, a later message may be queued before an
  earlier one (`StRecvOverflow`).
* A refused message is never offered again when the link closes before timer 3
  expires (`StRecvRedispatch`).
* A close that resets the unpacker under a queued `recv_handler` makes asserts of
  the unbuffered and the prefix-suffix unpacker fail (`StCodecAsserts`).
* A message that cannot be packed is dropped, and `send_msg` returns true, also
  for `safe_send_msg`, which promises success (`StCodecSilent`).
* A `msg_handler` or an expired timer of the former link may still be queued when
  an object is reused: `ENHANCED_STABILITY` counts reads and writes only
  (`StServerQueued`). The `msg_handler` then echoes a message of the former client
  into the socket under accept, or to the next client (`late` in
  `AcceptIntoIdle`).
* `started_` is assigned after the first operation was issued. With two io threads
  the link may have ended by then: `started_` stays set on a socket that is closed,
  which is never reused (`outrun` in `PeerCloseIsReclaimed`) and, in a client,
  never connected again (`outrun` in `Reconnects`).
* An object that `st_server_base::graceful_close` took out of the pool is not
  closed when its link ends, since `del_client` does not find it; it is never
  reused or freed. The same happens when `force_close` finds a socket that waits
  for timer 0, and when a refused message is left in its buffer
  (`StServerGraceful`).
* `force_close(true)` while the retry timer waits cancels it and nobody sets it
  again (`StConnectorReconnect`).
* `force_close(true)` during `async_connect` leaves `close_state` 1, which only
  `on_recv_error` resets: the link that timer 10 then connects receives, but cannot
  send, and ignores every further close (`during = "connects"` in `LinkIsUsable`).
* A client that cannot unpack what it received closes its link for good:
  `on_unpack_error` calls `force_close()` with `reconnect` = false
  (`asked = "close"` in `Reconnects`).
* A message that is handled after `connected` was cleared makes `dispatch_msg`
  connect again, after a close for good (`StConnectorStop`).
* Three more are excluded by ghost variables of the regular runs: an accept
  handler that was aborted with an earlier run closes the acceptor of the next
  one (`overlapped`), a client accepted after `close_all_client` keeps
  `stop_service` waiting (`UnclosedLink`), and a `start_service` that gave up lets
  a second thread run the pump (`slow`).

## 6. What is not modelled, and why

* `StTcpSend`, `StTcpRecv`: `graceful_close` (`close_state` 2) is in `StServer` and
  `StConnector`, a stopped `io_service` in `StServer`. The connector of
  `StTcpSend` always wants to reconnect. A failed connect and its retry timer
  change nothing the sending half sees. The `pop_*`, `peek_*` and counting calls
  are left out: the application's choice whether to take messages away by hand.
* `clean_up` is one action, although `reset_state` takes no lock. So is
  `suspend_dispatch_msg`'s assignment and `stop_timer(1)`.
* `StTcpRecv`: `parse_msg` is one step with the end of the read. With
  `FORCE_TO_USE_MSG_RECV_BUFFER`, a thread that dispatches after a close splices
  `temp_msg_buffer` without a lock while `parse_msg` may append to it: this data
  race is not modelled. An error of the unpacker is a `force_close`, which the
  model allows at any time. The module ends with the link and
  the `reset` of the closed socket. Without `FORCE...`, what is in
  `temp_msg_buffer` at a close is given up, as a comment in the code says; it
  stays there (a timer 0 set later may still handle it) until `reset` throws it
  away, which the history variable `discarded` keeps.
* `StServer` has no suspensions and no posting (`StTcpRecv`, `StTcpSend`); a
  socket's send buffer is its one write. Timers 3 and 10 expire in the step of
  their handler. `closed_object_pop` (which erases under a shared lock) and the
  calls that only read are left out; the periodic `free_object` and
  `clear_all_closed_object` are calls at any time. One service per pump.
* `StConnector`: one link (`st_sclient`); `st_tcp_client` is an object pool of such
  links. Sending is in `StTcpSend`. The application calls from one thread.
* `StCodec`: an overlapping `memcpy` moves as `memmove` would. What is not made by
  the packer is not sent: a corrupt stream is reported by `parse_msg` and closes
  the link. The UDP unpackers copy one datagram.
* `StTimer`: `find_timer` (never called), milliseconds, callbacks as functions.
* TLS, UDP: the same socket over another transport. Demonstration programs:
  no logic of the system.

## 7. Plan

1. `PostingHasTimer` and `PostNotStuck` of `StTcpSend` on one link.
2. `StCodec` and `StTcpRecv` composed: a stream that is cut into messages and
   dispatched.
