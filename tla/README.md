# A verification project for cuttle

cuttle is a C library of coroutines and of an RPC over them: `cothread` runs
coroutines on a few scheduler threads ("cores") with epoll, and `corpc` carries
many bidirectional message streams over one (SSL) connection; a resolver (`dns.c`)
and two protobuf layers serve them.  This directory holds TLA+ modules of the
scheduler, the sockets, the lock, the channel, the resolver and the wire formats,
TLC configurations that check them on
small instances, and proofs that TLAPS checks for every value of the constants.
`PROJECT.json` lists the components, the runs, the properties and, for every
definition, the source lines it models.

## 1. The system

### Parts, state and operations

| Part | Source | State | Operations |
|---|---|---|---|
| corpc channel | `src/corpc/corpc-channel.c` | `state`, `refs`, `write_lock`, `streams[]`; per stream `state`, `did`, `rwnd` (the window of credits), `rxq` (receive queue) | open/accept/close a channel; open, read, write, close a stream; the channel thread's handlers for the five messages |
| corpc protocol | `src/corpc/corpc-proto.c` | none (bytes on the connection) | send each message, receive one, checksum |
| corpc listening port, server | `corpc-listening-port.c`, `corpc-server.c` | ports, options | accept connections and make channels |
| `co_thread_lock_t` | `src/cothread/co-scheduler.c` 1011-1360 | owner `co`, queue of waiters, eventfd | lock, unlock, wait with timeout, signal, broadcast |
| epoll listener | `co-scheduler.c` 87-314 | the epoll set, events in the waiters | mark the waiters of an event, drain eventfds, wake the cores |
| cores (`pclthread`) | `co-scheduler.c` 373-910 | list of waiters, queue of new coroutines, socketpair for schedule requests | walk the waiters, resume coroutines, start new ones |
| coroutine sockets | `co-scheduler.c` 1362-2077, `co-ssl.c` | file descriptors, timeouts | send, receive, connect, accept, poll |
| coroutine switching | `co-thread.c` | current coroutine, caller chain, stacks | create, call, resume, delete |
| containers | `include/cuttle/cc*.h` | ring buffer, list, array, heap | push, pop, erase |
| SSL server and listening port | `co-ssl-server.c`, `co-ssl-listening-port.c` | ports | start, accept loop |
| name resolution | `src/dns/dns.c`, `dns-resolve.c`, `co-resolve.c` | a stack of query frames, a socket, the answer kept aside | one state machine, called again after each wait |
| DNS packets | `dns.c` 1500-4060 | bytes, counts, memorised section offsets, dictionary of names | push, grow, copy, merge, iterate |
| nanopb, cuttle-pb | `src/nanopb`, `src/pb/cuttle-pb.c` | none between calls; memory of the message | encode, decode, release |
| pg, ssl helpers, hashes, utilities, android, ucontext | `src/...` | little or a library's | wrappers |

### How the parts interact

The application's coroutine calls `corpc_open_stream`, which sends a request and
sleeps until the peer's channel thread has accepted the stream, started the
service method in a coroutine of its own and answered.  Each peer has exactly one
reader of the connection, its channel thread; every thread that sends takes
`channel->write_lock` first.  All of this state is protected by one process-wide
`co_thread_lock_t` (`channel_state_lock`), whose condition is the only thing
anybody sleeps on, always with `channel_state_signal` = broadcast.  That lock is
itself a small distributed algorithm: a coroutine that must wait leaves a waiter
in the lock's queue and switches to its core; it comes back through eventfd,
epoll, the listener thread and the core's walk over its waiters.  A pthread that
uses the same lock sleeps on the condition of the global mutex.

Coroutines are started by a request through the socketpair of a core, whose handler
is a coroutine itself, and wait for descriptors through the same listener: a
`co_socket` stays registered with epoll, while `co_io_wait` registers a request on
its own stack for one wait.  `corpc_channel_open` resolves a name with such waits,
connects, and starts the channel thread; a listening port accepts and starts one
channel per connection.

### What is hard

* **Interleavings of sections.**  Every send is three sections (acquire, send,
  release), a data message two frames and one more section for the window; the
  answer to a create request is sent while the method it started is running.
* **Flow control.**  The receive queue is bounded and nothing but the sender's
  window protects it.  The window is decremented after the message has left.
* **Life times.**  Streams and channels are freed by whoever finishes last.
* **Wakeups.**  One condition for all; an edge-triggered chain of four actors
  below it, whose listener marks first and drains second.
* **Requests and answers.**  Schedule requests of threads and coroutines share a
  socketpair; datagrams of a resolver may be late and answer an earlier question.
* **Formats.**  Peers may order, repeat, split and cut what they send; names in DNS
  packets are compressed against a dictionary that survives failed pushes.
* **Failure.**  The connection may be lost between any two frames, the channel
  closed at any moment, a method not started.

`PROJECT.json` lists the hazards at their lines with the properties that would
catch them; those without a property say where the plan takes them up.

### What makes each part correct

* channel: exclusive writers; credits conserved, so the queue never overflows and
  a window never wraps; messages in order, none lost while connected; no lost
  wakeup; a stream that ended stays ended; a destroyed channel is unused; every
  call returns after a close; `corpc_open_stream` returns.
* `co_thread_lock_t`: it is a monitor (mutex and condition) for coroutines and
  pthreads alike; no unlock and no signal is lost.
* containers: a ring buffer is a bounded sequence.
* scheduler: an accepted coroutine is started and an ended one never resumed; every
  request is served and answered to its requester.
* sockets: a ready descriptor resumes its coroutine; calls end with their timeout or
  their socket.
* life of a channel: freed only when nobody can touch it, and then freed.
* resolver: it ends, inside its stack, with the address of the right name.
* formats: what was written, and nothing else, is read back; no memory is lost.

## 2. The modules

| Module | Models |
|---|---|
| `CorpcFlow` | abstract: one direction of a connected stream, a FIFO kept within its queue by credits |
| `CorpcChannel` | two peers, one connection: the channel threads, the threads of the streams, the write lock, all messages, closes and failures |
| `CorpcChannelFlow` | refinement mapping: both directions of a stream of `CorpcChannel` implement `CorpcFlow` |
| `CorpcChannel_proofs` | theorems about `CorpcChannel`: types, write lock, wakeups, life times, whole messages, opening |
| `CorpcStream_proofs` | theorems about its streams: order of the messages, room in the queues, that a stream implements `CorpcFlow` |
| `CoMonitor` | abstract: a mutex with one condition |
| `CoThreadLock` | `co_thread_lock_t` with queue, eventfd, epoll, listener, cores and timers |
| `CoThreadLock_proofs` | its theorems, including that it implements `CoMonitor` |
| `BoundedQueue` | abstract: a queue of limited length |
| `CcFifo` | the ring buffer of `ccfifo.h` |
| `CorpcRing` | composition: the flow control of `CorpcFlow` over the ring of `CcFifo` |
| `CorpcRing_proofs` | theorems of the flow control, of the ring, and of the ring under the stream |
| `CorpcLife` | the life of channels from open or accept to free, with server and ports |
| `CorpcLife_proofs` | its theorems: handles are valid |
| `CoSched` | cores, schedule requests, the start, switching and end of coroutines |
| `CoSched_proofs` | its theorems: only living coroutines run, starts are not lost, answers are one's own |
| `CoSocket` | the socket operations and `co_io_wait` over epoll and the listener |
| `CoSocket_proofs` | its theorems: readiness is not lost, short counts only by timeout |
| `DnsResolver` | one lookup: `dns_res_exec`, `dns_so_check`, `co_resolve` against an unreliable network |
| `DnsResolver_proofs` | its theorems: the stack is bounded, failures are honest |
| `DnsPacket` | pure: names, records, sections and iteration over the bytes of a packet |
| `DnsMessage` | the life of packets: pushes, growth, copies, merges |
| `PbWire` | pure: varints, tags, strings and substreams, shared by both protobuf layers |
| `Nanopb` | pure: `pb_encode`, `pb_decode`, `pb_release` over field tables |
| `CuttlePb` | pure: `cf_pb_pack`, `cf_pb_unpack` over field tables |
| `Protobuf` | a peer that writes fields in any order, and what both layers read |
| `MC*` | instances for TLC |

Operators whose names end in a description of a fault (`LockIsFree_without_lock`,
`release_write_lock_silently`, ...) are faulty variants of the definition that
follows them; they are used by no specification.  Substituting one for its
original makes the property named in `PROJECT.json` fail, which shows that the
property sees that fault.

### CorpcChannel

State: `chst`, `refs`, `wlock`, `tbl` (`channel->streams`) and `st` (the stream
objects, named by their sid) are the fields of the C structures; `live` says which
stream objects are allocated and `alive` whether the channel is.  `net[p]` holds
the frames on their way to `p`, in order, at most `NetCap` of them: a sender blocks
on a full connection.  Each peer has threads `0..MaxSid`: 0 is the channel thread,
`s` the thread that works on stream `s` - the caller of `corpc_open_stream` or the
service method.  `pc` is where the thread is, `op` the message it is sending,
`asleep` the threads inside `channel_state_wait`.

A section between `channel_state_lock` and the next unlock or wait is one step;
between sections everything interleaves.  So `corpc_open_stream` is
`corpc_open_stream` (create and enter the stream), `acquire_write_lock`,
`corpc_proto_send`, `release_write_lock`, `corpc_open_stream_wait`, and
`corpc_open_stream_fail`; the other calls are split likewise.  Undefined behaviour
is a choice: after its stream was freed, `on_create_stream_request` reads the
zeroed memory or a stream allocated since, which has a larger sid (`Deref`).  Reaching an
assertion or undefined behaviour is recorded in `bug`.

Abstractions: payloads are numbers (the n-th write on its stream), a service and method
name is one of three outcomes of the lookup, a checksum is the test that a header
is followed by its payload.  Out of memory is not modelled.  Both channels start
established; a lost connection may swallow frames but never reorders them, as TCP.
Stream ids do not wrap (`MaxSid` is far below 2^16).

### CcFifo and CorpcRing

The fields of `ccfifo`; `ret` is what the last call returned.  An item is a value of
`Item`, copied whole, as `ccfifo_push` and `ccfifo_pop` do with `item_size`.  Left out:
the peeks, which nothing in the repository calls with an index, and `ccfifo_cleanup`,
after which the queue is not used.  In `CorpcRing` a message that arrives is pushed
and a message that is read is popped, in one step with the step of `CorpcFlow`.  When
the stream is gone the ring goes on by itself for callers that do not ask first, as
a core's main loop does.  `RingAssumption` says what `corpc_stream_init` sets up: the
ring has the capacity of the stream's queue and its items are the messages.

### CoThreadLock

`waitq` is the queue of waiters flagged `MTX_WAKEUP_WAITING`, `event` those flagged
`MTX_WAKEUP_EVENT`; the waiters of coroutines that only wait for the lock are in
the same C queue, but no operation depends on their place in it, so being in state
`locking` or `relocking` stands for them (`Queued`).  `efd` and `edge` are the
eventfd's counter and its place on epoll's ready list, `lst` the listener's
position, `marked` the coroutines one of whose waiters has `EPOLLIN`, `corew` the
cores that sleep in `epoll_listener_wait`.  A section under the global mutex is one
step, except where it also takes the listener's lock at a point that matters: the
queueing in `co_thread_wait` and the unlock that follows are two steps.  The
listener marks and drains in two steps under its lock, because an `eventfd_write`
that needs no lock can fall between them.

`co_yield` after an unlock or a signal is left out (it gives other coroutines of the
core a turn, which the model grants at any time), and so is
`co_thread_lock_destroy` (the caller must be the last user).

### CoSched

Each core runs one coroutine at a time, `curr[k]`; `caller` is the chain along which
`co_call` returns.  `queue` and `waiters` are the core's own, `batch` the array `cc[]`
of one turn, filled by one walk over the waiters (`Signalled`, `Reached`, `Taken`); a
coroutine that leaves the list is removed at its place (`Without`).  `rq` and `ans` are the two directions of the socketpair.  A step is what
a coroutine does up to its next switch, system call or lock.  A job's function is
free to sleep, to yield, to schedule another and to end; an `iocb` callback is run
when its descriptor is ready and decides whether it stays.  `mixed` marks requests made while
somebody else's answer was outstanding on the same core, `foreign` those that were
given another's answer.

### CoSocket

`reg` is what epoll knows of a descriptor, `rdl` its ready list, `queued` who is in
the waiters' list of a socket.  `got` is what `epoll_wait` has handed the listener and
the listener has not yet looked at.  A call repeats: queue the waiter, try, switch
away, be resumed.  Data is counted, `Cap` bytes per direction; the other end sends,
drains, hangs up or resets at any time.  epoll reports what a descriptor was
registered for (`Reported`): a `co_socket` for reading and writing, an iorq of
`co_io_wait` for what its call waits for, errors and hang-ups always, and to `co_poll`
once only (`Armed`).  `co_poll` is modelled for one descriptor; when it cannot register
it, it ends the process, and all callers are `exited`.

### CorpcLife

The sections under the channel lock are steps; `thr` is the channel thread, `own` the
caller of `corpc_channel_open` with its handle, `held` the references of others,
at most `MaxHeld` at a time (a bound of the model; the code has none).
`co_schedule` is taken to answer truthfully here.  `corpc_channel_open` frees the
channel on its failure path without regard to references; that path is in the model,
and `HandlesAreValid` speaks of handles the caller was given.

### DnsResolver

`fr` is `R->stack` with the state, query, answer and iterators of each frame; one
action per state of `dns_res_exec`, taken when `co_resolve` calls it.  Names are model
values; `world` says what servers know.  `udp` is the buffer of the socket: replies
arrive late, twice, truncated, or with an error code.  A TCP exchange is one step.
Records know their section: the answer section alone is searched for the name, while
the addresses of servers may come from the additional section (`"glue"`).  A server
may fail or refuse (`"refused"`, to tell it from the failure the resolver makes up),
and with recursion refer to another.  The code follows any number of referrals; the
model has `MaxRefer` of them in a lookup.

### DnsPacket, DnsMessage, PbWire, Nanopb, CuttlePb, Protobuf

Here the data is the point, so bytes are kept.  Record types are tables of parts, as
are protobuf messages, and one operator walks a table where the C code has a function
per type.  The widths, chunk sizes and limits are constants (`Narrow`, `Wide`,
`WordBits`, `TextChunk`, `DNS_P_DICTSIZE`) so that small instances reach the edges.
A callback field of nanopb is called until a string is used up and once for a single
number; one that is NULL is skipped.  These modules use recursion and are only
model-checked.

## 3. The runs

| Run | Instance | Shows |
|---|---|---|
| `stream` | 1 stream, queue 2, client writes 3 and server 1, 3 frames in flight, either side and the channel may close, methods may return at once | order kept also past a close, no overflow, no torn message; both directions implement `CorpcFlow`; a stream that ended stays ended |
| `both_open` | both peers open 2 streams, queue 1, the client writes, 2 frames in flight, methods read first | one owner of the write lock, no lost wakeup, the open's handlers find their stream |
| `live` | room for 1 stream, 2 opened by one peer, no writes, all refusals, start of the method may fail, close, lost connection, fairness | the whole of `corpc_open_stream` returns, a close releases everybody, a destroyed channel is unused |
| `ring` | queue and ring of 3, 5 messages; then the ring alone | the invariants of the abstract FIFO, the ring agrees with it and implements `BoundedQueue` |
| `co_thread_lock` | a coroutine, a pthread, timeouts, fairness | exclusion, no lost unlock or signal, refinement of `CoMonitor`, no deadlock, a signal ends the wait |
| `scheduler` | 2 cores, a pthread, 2 jobs (threads and callbacks), queue 1, 2 resumed per turn, failures | no ended coroutine is run, no start is lost, own answers, requests are served |
| `sockets` | 11 workloads of one or two callers, buffers of 1 byte, sends of 2 | no lost readiness, short counts only by timeout, calls return |
| `life` | an opened and an accepted channel, 2 ports (room for 1), 2 streams, 2 references held | handles are valid, channels are freed |
| `resolver` | a search list of two names, a hosts file, aliases and an alias loop, one server that may fail, one referral, two attempts, stack of 3 | the stack is bounded, the address is right, failures are honest, the lookup ends |
| `codecs` | protobuf: 20 kinds of field, 3 on a wire, cut anywhere; DNS: 11 records, 3 pushed, packets of 56 and 200 bytes, cut at 30 and 61 | what was written is read back; nothing leaks |
| `data_after_close` (violation) | one side closes while the other writes | finding 1 |
| `stale_iorq` (violation) | one `co_recv` with a timeout (`Receiver`) | finding 2 |

**Bounds.**  `QueueSize` 1 or 2 with one more write than that makes the window
reach zero and the queue fill; `NetCap` of 2 or 3 lets a data message's two frames
and one acknowledgement be in flight and makes senders block; two streams are the
least for which the write lock is contended between streams as well as with the
channel thread.  `MaxStreams` 1 with two opens reaches the refusal for want of
room.  For the lock, a coroutine and a pthread meet in every role; its safety is
proved for any number of users.  A queue of 1 and 2 jobs fill the scheduler's queue;
two bytes through a buffer of one make a partial send; a stack of 3 is reached by an
alias loop; two attempts are the least at which a late answer meets a second query.
A second server multiplies the states of `resolver` beyond reach, and so does a second
referral.  `MaxRefer` is more than a bound of the instance: `LookupEnds` is true for
lookups with finitely many referrals only (see the observations).  `live` has no
writes, so that the callers released by a close wait for the lock, an answer or a
message and not for the window; with one stream instead of two, two writes and a
window of one its properties hold as well.
A dictionary of 3 names is overrun by three pushes, and packets of 56 bytes are filled.
The names of the DNS instance repeat no label (see the observations).
The protobuf wires may split a packed array and leave fields out of an array's items;
`CfReads` and `CfRoundTrip` say what is read then (see the observations).

**Deadlock.**  The channel runs stop when the workload is used up, or when a reader
waits for a message nobody writes; they do not check deadlock, and neither do
the scheduler, the sockets, `life` and the resolver, which end or idle.
`co_thread_lock` checks it.

**Fairness.**  Channel: weak fairness of every thread's steps and of the channel
thread, since a core walks its coroutines in turns and a sleeping thread has no
step; nothing is assumed of the application, which may stop calling, nor of the
connection.  Lock: strong fairness of the steps that need a mutex or a core, since
a mutex is granted in the end to a thread that keeps asking; weak fairness of the
listener, whose lock is held for finite sections only; and a caller that holds the
lock releases it or waits - the condition every user of a monitor owes.  Scheduler:
weak fairness of each core, as a pthread, whatever its coroutines choose to do; of
the listener; and a blocking `recv` that keeps finding data returns.  Nothing is
assumed of the clock.  Sockets: callers and clock run, and the listener gets to every descriptor
that keeps becoming ready; nothing is assumed of the other end.  Life: threads run,
and the application gives back the references it took and closes the streams of a
channel that is closed; nothing is assumed of peers.  Resolver: `co_resolve` is called
again after each wait and time passes; no answer need ever come.

**Findings.**
1. `on_data_message` passes NULL to `corpc_set_stream_state` when the stream is
   unknown - which happens whenever a peer closes a stream while a message to it is
   in flight.
2. The listener looks at an iorq that `epoll_wait` returned before the listener took
   its lock; `co_io_wait` may have timed out and returned since, and its iorq was on
   its stack.  In the trace the timeout has resumed a `co_recv` and a datagram arrives
   before it runs.  The listener's "App bug" checks and their garbage pointer
   `0x3100000004` are about this.

**Observations**, met while modelling and outside the checked properties:

* `on_create_stream_request` starts the method before it answers.  A method that
  returns at once can send its close before the answer; the client then meets what
  `on_create_stream_responce` calls "BUG: Invalid stream state", and the stream is
  freed under `on_create_stream_request`.  With `MethodReadsFirst = FALSE` TLC finds
  `StreamSurvivesOpen` violated.
* With both peers opening streams and short buffers, both channel threads may wait
  for a write lock whose owner waits for the other's reader.  `OpenReturns` is
  therefore stated for one opening peer; without that condition TLC finds it violated.
* A coroutine's `co_schedule` waits for its answer with a timeout of 0 ms
  (`SO_RCVTIMEO` of the socketpair), usually gives up at once with errno 0 and
  reports success; its answer is left to the next requester.  `csbusy` is not taken
  by plain threads (`co-scheduler.c:471`).  `OwnAnswer` is stated accordingly.
* As many always-ready callbacks as `ccmax` starve the waiters behind them (`:657`).
* `co_socket_send` renews its timer to a thousand times the timeout (`:1648`);
  `co_socket_connect` reports success when it times out.
* Two coroutines that send on one `co_socket`, or that call `co_send` or `co_recv` on
  one descriptor, start their time anew whenever they are woken: each can take the
  room or the data the other was woken for, and neither timeout ever ends a call.
  `CallsReturn` leaves such calls out (`Contended`).
* `corpc_open_stream`'s failure path (`corpc-channel.c:1219`) may leak the channel;
  `on_accepted_thread` (`:600`) holds no reference; `close_internal` never frees the
  socket; a server stops starting ports at the first that fails.
* `dns_d_comp` (`dns.c:2293`) goes on with the wrong label after a partial match: with
  `x.z.y.y.` in a packet, `x.y.` is written as a pointer to `y.y.`.
  `RecordsReadBack` is checked for names that repeat no label.
* With `options.recurse` referrals are not counted (`dns.c:7594`): servers that refer to
  each other keep a lookup alive until the caller's timeout.  When the model does not
  count them either TLC finds `LookupEnds` violated.
* Without recursion the search list goes on also after a server failed or refused, so
  a later name may be answered for; `ResolvesRight` allows that and nothing else.
* `dns_soa_push` keeps 31 bits of refresh, retry and expire (`:3329`);
  `RecordsReadBack` expects them so.
* `dns_p_grow` (`:1621`) may not grow; `dns_opt_parse` loses the options;
  TXT and OPT records never compare equal, so a merge keeps duplicates; a fingerprint
  other than SHA-1 cannot be merged.
* `dns_so_tcp_send` (`:6523`) counts bytes twice after a partial write.
* `cf_pb_decode_array` decodes the submessages of an array where `malloc` has put them
  (`cuttle-pb.c:657`, `ccarray.h:43`): a field that an item does not carry, its `has_`
  flag too, holds whatever the memory held, so an item with an optional field that is
  not set does not survive packing and unpacking.  `CfReads` and `CfRoundTrip` are
  stated for items that carry every field (`WholeItems`).
* `cf_pb_decode_array` drops the first of two packed chunks (`PackedFirst`); a message that encodes
  to nothing counts as a failure; `bytes` longer than 64 KiB are written and not read.
* nanopb shifts by 32 for exactly 32 or 64 required fields, and a static submessage
  of a union that is received twice leaks.
* `E_CHECK` (`co-scheduler.c:50`) is not parenthesised, so in `!E_CHECK(e)` the
  negation covers the type test only.
* `corpc_proto_send_data` (`corpc-proto.c:333`) stores the size in 16 bits.
* `cclist_push` in the middle of a list leaves `next->prev` as it was, and
  `cclist_insert` leaves `prev->next`; the repository does not call them so.

## 4. The proofs

All are safety properties, proved for every value of the constants from the named
assumptions in the modules.

* **`CorpcRing_proofs`**, the flow control: `TypeCorrect`, `CreditConservation`, `NoOverflow`,
  `OrderedDelivery`.  That the window stays a natural number needs that a message
  is uncounted only against a positive window, which needs that credits are not
  made up; the induction carries type, window, conservation and order together,
  and the bound on the queue follows from conservation.
* **`CorpcChannel_proofs`**: `ChannelTypeCorrect`, `WriteLock`, `WakeupsReach`,
  `DestroyIsLast`, `NoReopening`, `NoTornMessage`, `AnswersFindStreams`, for any number
  of streams, any queue and any connection.  One invariant, `FullInv`, of seven parts:
  - `LockInv` is the exclusion, inductive only together with `FreshInv`: a thread that
    starts, for a new stream or as a method, starts where nobody is running.
  - `TypeInv` adds to the types which message a thread in a given place is sending
    (`Roles`), which decides where it goes on after releasing the lock.
  - `ChannelInv` ties table, allocation and threads together (`TableInv`), counts the
    references (`RefsInv`), and says that, while a request is answered, nothing is
    received, so that the accepted stream and all younger ones are usable (`AnswerInv`).
    The last is why the unconditional assignment of the state at the end of
    `on_create_stream_request` reopens nothing, not even another stream that was
    allocated in the freed one's memory.
  - `SleepInv`: a sleeper is in one of three loops and its condition does not hold; each
    step that makes a condition true signals.
  - `WholeInv`: in the connection a header is followed by its payload, and it ends with a
    bare header exactly while a thread is between the two sends, unless nothing this peer
    sends will arrive.  `NoTornMessage` is the checksum half of `PeersKeepProtocol`.
  - `OpenInv` holds under `Patient` (methods read first, the application leaves the
    channel open; failures, refusals and closes of streams stay): a method does not pass
    its first read before it is told, a request precedes everything else said of its
    stream, it is answered at most once, and the answer is the first thing said back.
    So `StreamSurvivesOpen` holds, and the first observation of section 3 shows that
    the methods' half of `Patient` cannot be dropped.
* **`CorpcStream_proofs`**, the streams: `WindowsHold`, `StreamsDeliver`, `PatientStreams`, for any
  number of streams opened by either peer, any queue, any number of writes, with closes,
  refusals and failures at any time.  `StreamInv` is carried on top of `FullInv`:
  - Which two streams belong together is said in three places, by the stream, by the
    answer being given and by the frames on their way (`Says`); all of them agree
    (`OneEnd`), name only streams that were handed out (`Known`), and a stream that was
    asked for and not accepted yet is said to belong to nobody and is untouched (`Asker`).
    So a stream that is accepted starts with nothing on its way.
  - For two ends that belong together (`Flow`): the writer's unused and used credits are
    at most the queue and the acknowledgements that have come back; the messages on their
    way have increasing numbers beyond what was queued and within the credits (`Ahead`);
    and while the connection stands none is missing (`Exact`).  The first is an
    inequality, not the equation of `CorpcFlow`, since a stream may be granted less than
    its queue and acknowledgements are lost with the connection; order and room must be
    one induction, as the number of a message bounds the queue it will find.
  - A writer between acquiring the lock and counting its message keeps its credit and its
    other end (`Writer`); its own reader cannot move it, and only the channel thread
    changes the window, upwards.
  All this is for as long as `"use after free"` has not happened: the handler that goes on
  with a freed stream may grant the credits of another.  Under `Patient` it cannot happen
  (`AnswersFindStreams`), and `PatientStreams` has no such condition.
* **`CorpcStream_proofs`**, the refinement: `ChannelImplementsFlow`, that both directions
  of the stream implement `CorpcFlow`, under `Single` (one stream, opened by the client:
  the instance the mapping is written for) and for every queue, every number of writes
  and every setting of the methods, closes and failures.  The mapping forgets a broken
  stream, and a broken stream stays broken (`BrokenStays`), so `FlowInv` is about a stream
  that stands: no freed stream is used, since the only one there ever was is in the table
  (`NothingFreed`); the server has its end only after the client and until then nothing
  happened (`Meeting`); what request and answer grant is the whole queue (`Grants`), which
  needs that nothing is received while the request is answered (`Accepting`); and a writer
  on its way has a message left (`Quota`).  `StreamInv` then gives what is queued and on
  the wire as consecutive numbers (`Lane`), and a step of one peer is a turn of the writer
  of one direction (`WriterTurn`) and of the reader of the other (`ReaderTurn`), each of
  which is a step of `CorpcFlow` or none.  So what is proved of `CorpcFlow`, the equation
  of its credits included, holds of such a stream.
* **`CoThreadLock_proofs`**: `TypeCorrect`, `Exclusion`, `UnlockWakes`,
  `SignalWakes`, `Implementation`.  The inductive invariant adds to these `QueueInv`
  (who is in the queue), `SleepInv` (who may sleep) and `ChainInv` (a nonzero eventfd
  is on the ready list or in the listener's hands; while the listener drains, every
  queued coroutine is marked; and the core of a sleeping marked coroutine is awake).  `ChainInv` is the reason why a
  write swallowed by the drain is harmless: everybody it could wake was marked under
  the same lock.  The refinement maps `queued` to holding the lock: the monitor's
  wait happens when the lock is given up.
* **`CorpcRing_proofs`**, the ring: `RingTypeCorrect` and `RingImplementation` for the ring alone;
  `RingUnderStream`, `RingRefinesStream` and `RingUnderStreamIsQueue` for the composition.
  The ring's invariant adds to the types that the free slots begin where the queue
  ends, `last = At(first, size)`, which ties the three fields together and is what makes
  full and empty, which both have `first = last`, distinguishable.  Under the stream it
  is carried with the invariant of `CorpcFlow`: the credits are why a push finds room,
  the agreement of both queues why a pop finds an item.
* **`CorpcLife_proofs`**: `ValidHandles`.  `LifeInv` counts the references of a channel
  (`Counted`: owner, thread and others), says what keeps one allocated (`Kept`), and
  which phases of owner, thread and state go together (`Phases`, `SocketKept`); the
  count alone is not inductive since the failure path of `corpc_channel_open` frees
  without looking at it.
* **`CoSocket_proofs`**: `ReadinessReaches`, `NoEarlyShortSend`.  `SocketInv` follows the
  chain: a waiting call is in the list the listener will search (`Findable`), a
  descriptor that is ready for it is on epoll's list or in the listener's hands or the
  call is already marked (`Notified`), and a call that is resumed before its time has an
  event to show (`ResumedForReason`), so that it does not mistake a wakeup for a timeout.
* **`CoSched_proofs`**: `OnlyLivingRun`, `PromisesKept`, `OwnAnswers`.  `SchedInv` places
  every coroutine: running, queued, waiting or being deleted, in one place of one core
  (`Lists`, `Places`, `Apart`); an ended one is in none (`Ends`, `Alive`); a request that
  was accepted is on its way or exists (`Requests`, `Promised`); and on a core where
  nobody overtook anybody the outstanding answer belongs to the one who waits (`Private`).
* **`DnsResolver_proofs`**: `StackStaysBounded`, `FailureOnlyUnheard`.  `ResolverInv` says
  how far a frame may push at its depth (`FrameOK`), that packets kept aside are no
  server failures (`NodataInv`), and that once a server was heard the first frame has an
  answer or will fall back on one (`HeardInv`).

Assumptions worth naming: `SocketAssumption` asks that calls on sockets and plain waits
use different descriptors and that `"none"` is neither a socket nor a caller,
`DnsAssumption` that there is a server and the lists are lists.  Nothing is assumed of
failures, schedules or messages.

Only model-checked: the liveness properties (fairness is out of the prover's reach);
`ResolvesRight`, whose reference definition `Chase`
is recursive and would need induction over its steps; and all of the format modules
(`Protobuf`, `DnsMessage`), which define recursive operators.

## 5. Not modelled

See the components in `PROJECT.json`.  Wrappers over OpenSSL, libpq and system calls,
the code generator, formatting and logging keep no state of interest.  Of `dns.c`, the
parsers of configuration files, the cache interface, `options.smart` and the
printing are left out; of `co-resolve.c`, the server that resolves for plain threads.
Sizes and byte order of corpc messages, the wrap of stream ids at 2^16, and running
out of memory outside the paths named above are abstracted.

## 6. Plan

1. Proofs: the refinement of `CorpcFlow` for any number of streams, one mapping for each
   pair of ends that belong together; it needs a mapping that follows `did`, as the ends
   then have different sids.
2. The failure path of `corpc_open_stream` and `on_accepted_thread` as users of a
   channel in `CorpcLife`, once the code gives them a reference.
3. The SSL layer between `CoSocket` and `CorpcChannel`, with its own retries.
4. Containers: `cclist`'s links over `ccheap`.
