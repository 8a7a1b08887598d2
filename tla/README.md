# A TLA+ verification project for CommTest

CommTest holds three independent experiments in communication between the
processes of a distributed machine-learning system:

* `src/mpi`: a task scheduler over MPI (one server rank, several client ranks
  with worker threads);
* `src/comm_zmq`: `comm_handler`, a message-passing layer over 0MQ in which one
  communication thread per process serves all application threads;
* `src/socket`: the same idea over plain TCP sockets, built on a
  producer-consumer queue, a counting semaphore and a pool of select/writer threads.

The project has one module per component, model-checking instances for TLC, and
theorems proved with TLAPS for every value of the constants. `PROJECT.json` maps
every definition to the lines it models.

## 1. Inventory

| Component | State | Operations | Hard behaviour | What makes it correct |
|---|---|---|---|---|
| MPI scheduler server (`mpi/scheduler.cpp`) | counters `outmsg`, `inmsg`, loop indices, heartbeats counted | `waitforall`, `server_sendtestmsg`, receive loop, `assert(inmsg == outmsg)` | packets from any source, counters that wrap, `MPI_Bsend` that may fail unseen | only finished tasks are counted as acknowledgements; a round ends when all its tasks are back; the assertions hold |
| MPI client and workers (`mpi/scheduler.cpp`, `mpi/worker.cpp`) | queues `s2w`, `w2s` under two mutexes, barrier, the packet each worker holds | `sendheartbeat`, polling loop, `worker_get_task`, `worker_putback_task` | several workers and one communication thread on shared packets; packets rewritten after they were checksummed | no task lost or done twice; every packet sent matches its checksum |
| MPI start-up and options (`mpi/dynamic.cpp`, `mpi/options.cpp`) | contexts, barriers | thread creation | - | initial state and constants of the model |
| `dgraph` (`mpi`) | matrices `adj`, `adjcopy`, the set being built, a snapshot file | `getcorrinfo`, `findset`, `recoverdgraph`, `snapshotdbgraph`, `loadsnapshot` | the graph is diminished row by row and column by column, one mark means several things | no variable dispatched twice, greedy sets, exact recovery, honest results |
| `getinput` (`mpi`) | matrices | file loading | file I/O | - |
| `comm_handler` connections and unicast (`comm_zmq/src`) | `errcode`, `sync_mtx`, `clientmap`, `clientq`, 0MQ sockets, per-thread inproc sockets | constructor, `start_handler`, `connect_to`, `get_one_connection`, `send`, `recv`, `recv_async`, `shutdown` | a mutex locked by one thread and unlocked by another; poll order; blocking PUSH; failures of every call into 0MQ | `connect_to` reports only connections that were made; clients are accepted once; messages arrive once and in order; calls return |
| `comm_handler` publish/subscribe | `publishermap`, `suberq`, pub/sub sockets, the rendezvous mutex | `init_pub`, `subscribe_to`, `publish` | subscriptions that travel by themselves, greetings repeated by a loop, unlocks nobody waits for, error paths that keep the mutex locked | `init_pub` returns with enough subscribers, nothing published afterwards is missed, calls return |
| Multipart messages (`zmq_util.cpp`) | none | `send_msg`, `recv_msg`, `recv_msg_async` | partial failure | folded into the calls above |
| Identity encoding (`comm_handler.hpp`) | `clientmap` by identity, ids shown to the application | `IDE2I`, `IDI2E`, and the calls that use them | 32-bit shift overflow, negative ids | ids come back as they were, no client taken for another |
| `semaphore`, `pcqueue` (`socket/src/util.hpp`) | queue, counter, two mutexes, one condition variable | `push` (two forms), `pop`, `signal` (two forms), `wait` | two mutexes, signal after unlock, spurious wake-ups | a blocking FIFO queue that loses no wake-up |
| TCP framing (`tcp_comm.cpp`, `util.cpp`) | byte streams | `readn`, `writen`, `tcp_write`, `tcp_read`, the buffer of `msg_t` | short reads and writes, errors in unsigned variables, a peer that closes inside a frame | whole messages in order, no overflow, the end reported |
| `tcpthreadpool` (`threadpool.cpp`) | connections, queues, reader and writer threads | `add_conn`, `start_all`, `send`, `thr_broadcast`, `broadcast`, `stop_all` | uninitialised count, closing while writing, workers that leave, stopping twice | messages go to the addressed worker, once and in order; stop ends all threads |
| Socket scheduler and worker programs | a semaphore posted by the callback | one broadcast, one wait, stop; read, echo, close | stopping while messages are queued | every worker gets its message |
| Test programs | - | call sequences | - | programs of the models |

Interactions. In `src/mpi` the ranks share nothing but MPI messages; on a client
the communication thread and the workers share the two queues. In
`src/comm_zmq` an application thread hands requests and messages to its
process's communication thread through inproc sockets, gets messages back
through `taskq`, gets new clients through `clientq` and waits for requests to be
served on `sync_mtx`; communication threads of different processes talk through
ROUTER sockets. In `src/socket` threads share `pcqueue`s and file descriptors.

The hazards found while reading, each at its line, are the `hazards` of
`PROJECT.json`; they are what the properties are for.

## 2. Plan

The order followed the weight of the behaviour; all modules of the plan exist:

1. `MpiScheduler` with its promise `TaskRounds`, runs and proofs;
2. `CommHandler` (unicast) with runs after the programs in `comm_zmq/test`, and proofs;
3. `PcQueue` with its promise `BlockingQueue`, run and proofs;
4. `PubSub`, the publish/subscribe part of `comm_handler`; which calls may hang
   after a failure (`HangsOnlyAfterFailure` in `CommHandler` and `PubSub`);
5. `TcpFrame` and `ThreadPool` for the socket library, with the programs that use
   them: `ThreadPool` takes from
   `PcQueue` that a queue is an atomic FIFO and from `TcpFrame` that `tcp_read` returns
   whole messages in order, and what it does when a frame is cut;
6. `IdCodec` and `DGraph`, with proofs.

Every invariant of the runs is now a theorem but two of `PubSub`, `InitPubHonest` and
`NoGap`, which are about the programs of their runs (section 5).

## 3. Modules

| Module | Role |
|---|---|
| `TaskRounds` | abstract: rounds of tasks, each acknowledged exactly once |
| `MpiScheduler` | server, communication threads and workers of `src/mpi` |
| `MCMpiScheduler` | its instances |
| `CommHandler` | the unicast part of `comm_handler` |
| `MCCommHandler` | systems of nodes and threads after `comm_zmq/test` |
| `BlockingQueue` | abstract: a FIFO queue with blocking pop |
| `PcQueue` | `pcqueue` and `semaphore` |
| `MCPcQueue` | its instance |
| `PubSub`, `MCPubSub` | publish/subscribe with the unicast calls it rests on; systems of publishers and subscribers |
| `IdCodec`, `MCIdCodec` | identities on 32 bits and the calls that encode and decode them |
| `TcpFrame`, `MCTcpFrame` | length-prefixed messages over a byte stream |
| `ThreadPool`, `MCThreadPool` | `tcpthreadpool`, the program that uses it and the workers |
| `DGraph`, `MCDGraph` | the correlation graph and its set selection |
| `MpiScheduler_proofs`, `CommHandler_proofs`, `PcQueue_proofs`, `IdCodec_proofs`, `DGraph_proofs`, `TcpFrame_proofs`, `ThreadPool_proofs`, `PubSub_proofs` | theorems |

A definition named `X_<Bug>` next to `X` is `X` with a plausible programming
error. Nothing uses it; putting it in the place of `X` must break the property
it is listed with under `mutants`.

### MpiScheduler

`spc`, `livecnt`, `si`, `sj`, `acks`, `outmsg` and `inmsg` are the locals and
context fields of `sched_server`; `cpc` and `wpc` say where each communication
thread and worker is; `s2w`, `w2s` and `task` hold packets; `toServer[m]` and
`toClient[m]` are MPI's messages, FIFO per pair because all use one tag. Each
action is one pass through a loop body of the code, because everything the body
does between two interactions with another thread is local to the thread: the
worker's get and put are sections under one mutex, the client's receive ends in
one push, its send starts with one pop.

Choices worth knowing:

* A checksum is modelled by the bytes it was computed over. It matches exactly
  when the packet has not changed since; CRC collisions are left out.
* `outmsg` and `inmsg` are `int`s that are incremented for ever. They wrap at
  `IntMod` (2^32 in the code), which is what the compiled increment does; that
  a round fits in the counter is an assumption (`ConstAssumption`).
* `MPI_Bsend` may fail whenever the packets on their way could fill the attached
  buffer, since `MPI_ERRORS_RETURN` is set and the result is ignored; it may also
  succeed then, as MPI may have moved packets out of the buffer already. The
  sequence number of a refused packet goes to `lost`.
* The heartbeat's `MPI_Send` returns at once, as small messages do (eager
  protocol); `MPI_Test` may say no although a packet is on its way.

### CommHandler

One communication thread per node: `hpc` is its place in `start_handler`,
`seen` and `todo` the sockets `zmq::poll` finds ready and those whose branch
has not run yet. Poll is two steps: it reports every socket that was ready when
it began and any that became ready meanwhile. The branches then run in the
order of the code. `hpc = "push"` is the blocking send into `taskq`, `"hello"` the
loop that greets a destination until ROUTER accepts it.

An application thread makes the calls of `Program[t]` in order; `step` is its
place inside a call, `result` what its calls returned. `connect_to` is four
steps, as its two locks of `sync_mtx`, the request in between and the final test
of `errcode` are separate. `mtx` is just locked or not: nobody owns it.

0MQ is external: PUSH deals in turn to the connected threads and blocks without
one, PULL and ROUTER take the next message of any peer, a mandatory ROUTER
refuses unknown identities, `Handshake` makes two ends known to each other.
Faults are constants: `Faults` says which calls into 0MQ may fail, and every
failing branch is an action of its own (`MonitorFails`, `SetupThrows`,
`PollFails`, `RecvFails`, `EventFails`, `HandleConnFails`, `ConnectPushFails`).

Left out: high-water marks (the pipes of the runs hold a few messages), an
inproc socket that cannot be created (the call returns -1 and changes nothing),
and `recv_msg` failing in an application thread, where `recv` goes on with an
uninitialised id. Identities and addresses are the node itself.

### PcQueue

`q` and `counter` are the data under the two mutexes. A section under a mutex is
one step; `pthread_cond_signal` runs after the unlock and is a step of its own,
as often as `signal(n)` calls it. `cpc` is "asleep" inside `pthread_cond_wait`,
"woken" between the wake-up and the re-test of the counter. `Batch[p][k]` is the
number of elements of the k-th push of `p`; the push of one element is a batch
of one. The `uint32_t` counter does not wrap upwards: it never exceeds
the length of the queue, which would have to hold 2^32 elements. That it does
not go below zero is checked and proved.

### PubSub

The same communication thread as in `CommHandler`, with the branches for
publications and subscriptions (`HandlePubsend`, `HandleSub`, `SubFails`,
`HandleSubsock`, `HandlePubstart`, `PushSuber`) and without those that play no part (msgq, the
monitor, shutdown); the constructors have returned. `step` is the place inside a
call; `connect_to`, `subscribe_to` and the first part of `init_pub` share the
steps of the rendezvous (`PushRequest`, `Wakes`), as their code is the same.
`init_pub` then loops: greet, drain `suberq`, sleep. `prog` is the program of the
system, chosen in the initial state, so that one run covers several.

0MQ's PUB socket is external: `joined[p]` are the subscriptions that have reached
it (`Join`, some time after `ZMQ_SUBSCRIBE`), and a message goes to those who are
in it at that moment. Greetings are repeated until they are answered and all but
the first are ignored, so at most `MaxHellos` unread greetings of one publisher
are kept for a subscriber, and a greeting is not pushed while the last one is
still in the pipe (the call sleeps a second in between). A node stands for its
id; group ids differ from node ids, as the header asks. The failures are those of
the branches; pushing a request does not fail here (`CommHandler` has that). A
subscriber of several groups of one publisher is released and counted by the
first greeting of any of them; its other subscriptions may still travel. The loop over
the groups of a `subscribe_to` runs at least once: for an empty list it subscribes to a
`gid` that was never read, any group or one that nobody uses (`Listed`). `SubFails` is a
`setsockopt` that fails after the connect and after some of the groups.

### IdCodec

`IDE2I` and `IDI2E` as arithmetic: `K` stands for 2^27, so an int has 32K values,
a left shift by four keeps the lowest 28 bits (`Low28`), and the arithmetic right
shift is the floor of a division. Shifting a negative or too large int is what the
compiled instruction does. The state is what the server sees of its clients:
`clientmap` keyed by identity, `clientq`, `taskq`, and the ids the calls returned
(`shown`), with the client they really belong to.

### TcpFrame

One connection. Every `read` and `write` moves any number of the bytes asked for;
`readn` and `writen` are their loops, `buf` and `out` what they have read or have
still to write. Lengths are numbers modulo `Base^HdrLen`. The conversions to
`size_t`, `uint32_t` and `int` are kept: an error of `read` is not seen as one
(`ReadError`), `tcp_read` may go on with an uninitialised `msglen`, any value of `Uninit`,
and a count it returns as an `int` is negative from half the range of a length on
(`ToInt`). A message may have any length a `dsize_t` holds. At the largest one
`msglen + 1` is 0 and `readn` stores behind the temporary buffer (`Capacity`): from then on
the reader's process may end at any `read`, or seem to go on (`Dies`). A `msg_t` keeps the length of its
whole frame in a `dsize_t`, so that the frames of the longest messages are cut short;
`torn` is the first such message. With `faults` the temporary buffer may also be
refused: the exception is thrown again and nobody catches it.
`faults`, chosen in the initial state, says whether the sender may exit inside a
frame and the connection may be reset; a reset loses a suffix of the bytes on their
way and shows as one error, then as the end of the stream. `Header(l)` are the bytes of
a length, and `Value` is the length with given bytes. `inloop` is `readn` past
its first `read`: from there on a result of 0 leaves it in its loop. The number of
bytes is little-endian, as in memory.

### ThreadPool

One thread makes the calls of the program `prog` (the class "is not thread safe to
outside"). `wpc`, `wmsg`, `widx` are a sender between `pop` and the writes of one
message, `rpc`, `rset` a reader between `select` and the last socket it reported.
`broadcast` and `stop_all` are one step per thread they touch, `loop` counts them.
No constructor sets `num_conns`, so a program lists the values it may start with; it
counts in `asize_t`, 16 bits. A connection is named by the number of the call of
`add_conn` it was accepted for (`Conn`), whatever id that call returned.
A worker reads a message, sends it back, and closes after `Rounds` messages (one in
`worker.cpp`); `inc_cnt` posts the semaphore the program waits for.

The kernel is external: writing to a closed descriptor fails unseen; writing to a
connection whose peer is gone is lost once and raises SIGPIPE the second time;
closing a socket with unread data, or sending to one that is closed, may destroy what the
other side has not read, last bytes first. What is destroyed may end in the middle of a
frame, which `tcp_write` sends in two writes: `Cuts` are the whole frames that can be
left, and `cut` says what is left behind them, nothing, exactly a header, or any other
part of a frame. `tcp_read` finds each of them (`ReadSock`): at the end it returns 0,
also when its first `readn` reports the reset, since that error is not seen; behind a
header alone its second `readn` reports it, and the reader's `assert(rsize > 0)` fails,
unless a sender's write has taken the error first; behind any other part `readn` never
returns. The workers read in the same way (`PeerReadsEnd`). A `close` may also come while
a sender is in the middle of a frame (`Halfway`).
Descriptor numbers are not reused while a sender still writes (the process opens
nothing else). `add_conn` writes behind `sockaddrs` when `num_conns` started above
`max_conns`; the program ends there or seems to go on.

Messages have data and are shorter than 2^31 bytes (`TcpFrame` shows what happens to the
others), and memory does not run out. A worker whose answer goes to a closed connection
may be ended by SIGPIPE where the model lets it go on to its next read or its close;
nobody is left then who would notice the difference.

### DGraph

`adj` and `adjcopy` are the matrices, `dispatched` the variables handed out since
the last recovery. `findset` is split at its loop (`FindPair`, `Grow`, `Finish`).
Minima are stated, not searched: `MinPair` and `MinVar` are the first minimum in
the order of the code's loops. Correlations are natural numbers, their absolute
value in units of the last digit that the snapshot file keeps; `getcorr_pair` is
not in the repository, so the data are arbitrary. `Total` sums them over the set in its
order. Two history variables say what a snapshot has lost: `saved` are the variables
that were dispatched when the file was written, `lost` those that were when the file
of this process was. A process may end inside `snapshotdbgraph`, which empties the file
before it writes (`Restart`), and the assertions of `loadsnapshot` end a process that finds
the file missing or short. (A file cut inside its very last number, an entry of the
diagonal, would be accepted; `findset` does not use the diagonal, and this case is left out.)

## 4. Runs

| Run | Instance | Shows |
|---|---|---|
| `mpi_rounds` | 2 machines, 2 threads, `IntMod` 5, 4 buffer slots, fair | packets match their checksums, only finished tasks are acknowledged, no task is lost or duplicated, both counters agree at the end of a round, the buffer suffices; the scheduler implements `TaskRounds` with its liveness, so no task starves |
| `mpi_overflow` | 1 buffer slot | packets are refused, and then the server never enters another round with a task missing |
| `comm_chain` | `test/chain`: root, middle, client, fair | delivery once and in order, honest accept, refused accept; all calls return |
| `comm_faults` | two threads of one process connect to one server, one sends; all faults, fair | the rendezvous stays exclusive and `connect_to` honest whatever fails; a call waits for ever only after a failure |
| `comm_accept_all` | two clients, one sends at once; violation | see the finding below |
| `pc_queue` | 2 producers (batches 2, 0, 1 and 1, 1), 3 consumers, fair | queue and semaphore agree, no lost wake-up, FIFO with its liveness |
| `pubsub_cast` | one publisher, two subscribers; four programs: one group, two groups, more subscribers than waited for, a `connect_to` beside `init_pub` | `init_pub` has its subscribers when it returns, calls on `sync_mtx` return when they have been served, but for the named exceptions |
| `pubsub_faults` | one publisher, one subscriber, all faults, fair; five programs: two publications, a second `connect_to`, `subscribe_to`, `init_pub`, and a second `init_pub` after one that waited for nobody | requests stay honest, no publication missed, doubled or overtaken, a call hangs only after a failure or when what it waits for was answered before |
| `id_codec` | `K` = 2: all 64 ids for two clients, two messages each | ids come back, clients are kept apart, answers find their way |
| `thread_pool` | 2 threads, 3 connections, fair; four programs: every call, workers that leave and a second `stop_all`, `scheduler.cpp`, messages by id; several starts of `num_conns` | delivery to the addressed worker once and in order, nothing dropped on an open connection, what can end the program, workers served, calls return |
| `tcp_frame` | six messages (equal to the buffer, empty, larger, too long for an `int`, the largest, and one after it), each by `tcp_write` or as a `msg_t`, with and without exits and resets, fair | whole messages in order, no overflow, reading comes to the end, but for the named lengths and cuts |
| `dgraph` | 5 variables, 2 weights (all 1024 graphs), sets of 0, 2, 3, 4 and too many, snapshots at any time, whole, missing or short | exact graph, no repetition, greedy sets, honest results |

The type invariants of `MpiScheduler`, `CommHandler`, `PcQueue`, `IdCodec` and `DGraph`
are proved (section 5) and not repeated in the runs; those of `ThreadPool`, `TcpFrame` and
`PubSub` are proved and checked. `NeverPopsEmpty` of `PcQueue` is proved too; it follows from
`CreditsMatchItems`.

Why the bounds are enough. Two machines with two threads give both kinds of
sharing in `src/mpi` (threads of one queue, clients of one server); with 4 tasks
a round and a modulus of 5 the sequence numbers wrap in the second round and
numbers are reused, and the state space is closed, so all rounds are covered.
4 slots is the smallest buffer `NoBsendLoss` allows, 1 slot overflows in the first
round. For `comm_handler` the programs give each kind of contention once: two
threads in one rendezvous, a node that is both server and client, two clients of
one server. For `pcqueue` three consumers are one
more than is needed for a woken consumer to lose its credit to a newcomer while a
third sleeps; the batches include the empty one, for which `signal(0)` posts nothing.
For publish/subscribe two subscribers are what `init_pub` has to tell apart, and
one unread greeting is enough because a second one is ignored. Registers of 64
values have ids on both sides of every limit. Two threads and three connections
give `tcpthreadpool` a thread with two sockets and one with one; `num_conns` starts at 0,
at values that fill the pool or one thread, and above `max_conns`. Two-valued bytes
and headers of three make lengths below 8, of which an `int` holds those below 4, with
messages that are shorter than the buffer of 2, as long, longer, too long for an `int`,
and so long that `msglen + 1` and the length of the frame wrap. Five variables leave `findset` a second
set after the first one and one variable that cannot be paired, and the mark of 5
is below the largest sums of weights.
Deadlock checking is off where programs end (`comm_*`, `pubsub_*`, `id_codec`,
`thread_pool`, `tcp_frame`, `pc_queue`), in `dgraph`, where a set that is too large or a
snapshot that is short ends the program, and in `mpi_overflow`, where a stalled round is the subject; in
`mpi_rounds` it is on.

### Fairness

* MPI: every thread polls or blocks in MPI, so each is weakly fair. A client's
  receiving and its sending are separately fair: a completed receive is seen by
  the next `MPI_Test`, and receives cannot hold up sends for ever because a round
  has finitely many tasks.
* `comm_handler`: every communication thread, constructor, application thread
  and handshake is weakly fair. A thread blocked on `sync_mtx` may be overtaken by
  others; no strong fairness is assumed. With faults (`FaultFairSpec`) a failure is
  never forced, and a thread that can go on without one does.
* `pcqueue`: producers and consumers are weakly fair; spurious wake-ups may occur
  and are not relied upon.
* `PubSub`: as for `comm_handler`, with 0MQ's handshakes and subscriptions; failures
  are never forced. Where faults are enabled the properties allow for them.
* `ThreadPool`: the program, every sender, every reader and every worker is weakly
  fair; threads blocked in `pop` or `select` are not enabled.
* `TcpFrame`: sender and reader are weakly fair, and the sender closes when it is
  done, as `worker.cpp` does. Exits and resets are not forced.

### Finding

`comm_accept_all`: the header promises that a handler "accepts connections all
the time" (`comm_handler.hpp:236`). If a message arrives before any thread of the
server has called `recv`, the communication thread blocks in `taskq` and a client
that connects later is never registered, while the server waits for it in
`get_one_connection`. Two processes that connect to each other and do not receive
block each other in the same way, as the greeting of an identity that is known
already is a message like any other.

### Exceptions

Several properties hold with exceptions, which the code has and the properties name;
without its exception a property is violated in the run that checks it (but for
`DeliveredOnceInOrder`, since in `test/chain` nobody connects twice).

* `InitPubHonest`: answers beyond the number an `init_pub` waited for stay in `suberq`
  and are counted by the next one, for another group (`comm_handler.cpp:107`).
* `RequestsHonest`: the publisher's communication thread unlocks `sync_mtx` for every
  answer of a subscriber, also for one that comes after `init_pub` has returned; a
  `connect_to` or `subscribe_to` of a process that has called `init_pub` (`Publishes`) may
  return 0 too early (`comm_handler.cpp:375`).
* `HangsOnlyAfterFailure` of `PubSub`: `publishermap` makes a node answer only the first
  greeting of a publisher (`comm_handler.cpp:544`). What may wait for ever is a
  `subscribe_to` when an earlier one of the process to the same publisher has returned (or
  an earlier one to any, if it has no address), and an `init_pub` that has not enough
  subscribers besides those an earlier `init_pub` of the process that waited for
  subscribers has greeted (`Repeats`). Other repeated calls are not exempt; the run has a
  second `connect_to` and an `init_pub` after one that waited for nobody.
* `HangsOnlyAfterFailure` of `CommHandler`: `errcode` is not looked at while a call blocks,
  and three of the four setup failures of `start_handler` do not set it at all: the
  constructor then returns a handler without a communication thread
  (`comm_handler.cpp:298`).
* `DeliveredOnceInOrder`: the greeting of a repeated `connect_to` is handed to the
  application of the destination as a message, and so is the first one when the
  destination had called `connect_to` for the sender itself and knows it already.
* `InOrder`, `NothingDropped`, `AssertsHold`: `num_conns` is not initialised; started at
  another number than 0, ids lead to other connections and `add_conn` may find no room
  (`threadpool.cpp:67`); started above `max_conns`, it writes behind `sockaddrs`
  (`threadpool.cpp:75`). `stop_all` does not reset `running`; a second call joins
  joined threads and its assertion fails (`threadpool.cpp:216`).
* `AssertsHold`: a worker that leaves with a message unread resets its connection. The
  reset may leave the reader the header of an answer without the data, and its
  `assert(rsize > 0)` fails (`threadpool.cpp:144`); and a sender that goes on writing to the
  connection raises SIGPIPE (`threadpool.cpp:94`). Neither happens while every worker reads
  all that is addressed to it.
* `WorkersServed`: `scheduler.cpp` stops the pool after one answer; the message of
  another worker may still be queued, and that worker's assertion fails
  (`scheduler.cpp:73`). Where ids are of no use (`num_conns` did not start at 0 and `send`
  is called), what was meant for a worker may have gone to another one, and the property
  says nothing.
* `AllCallsReturn` of `ThreadPool`: the semaphore is not posted for a worker that left
  with messages unread, whose answer was destroyed; and when the reset cut that answer
  inside its header or its data, `readn` never returns, the reader never sees its pipe, and
  `stop_all` never returns from `pthread_join` (`util.cpp:20`).
* `FramesInOrder`: a message without data makes `tcp_read` return 0, which callers take
  for the client's exit (`tcp_comm.cpp:85`); one of 2^31 bytes or more makes it return a
  negative number (`tcp_comm.cpp:99`); and nothing is promised after a `msg_t` whose `len` has
  wrapped, which sends a part of its frame (`threadpool.hpp:53`).
* `BufferFits`: for a length of 2^32 - 1, received or never read, the temporary buffer has
  no byte (`tcp_comm.cpp:89`).
* `ReadsToTheEnd`: when the stream ends inside a frame of which `readn` has got some bytes,
  it loops for ever (`util.cpp:20`); and a message of the largest length may end the reader.
* `SizeHonest`: asked for one or two variables, `findset` returns three
  (`dgraph.cpp:141`).
* `DepletedHonest`: when all sums of correlations reach the mark 1000, `findset` reports
  depletion although variables are left (`dgraph.cpp:176`).
* `GraphExact`: a snapshot taken after `findset` keeps the diminished graph, and the
  process that loads it cannot recover the original (`dgraph.cpp:253`).

Two behaviours that the models have and no property speaks of: a `send` followed by
`shutdown` may lose the message, because poll can report the shutdown socket without
the message socket (`comm_handler.cpp:574`); and `taskq` deals messages to the threads
that are connected at that moment, so of two receivers one may get what the other waits
for (`comm_handler.cpp:388`).

## 5. Proofs

All theorems hold for every value of the constants that satisfies the named
assumptions: `ConstAssumption` (at least one machine and thread, a round fits in
the counter), `ConfigAssumption` (finitely many threads, which belong to nodes;
programs are sequences of calls, faults are among those named), `QueueAssumption`
(finitely many producers and consumers, batches are numbers), `KAssumption`,
`IdsAssumption` and `MaxSentAssumption` (`K` positive, ids are 32-bit ints),
`GraphAssumption` (correlations are below the mark for invalid entries),
`FrameAssumption` (at least two values of a byte, a header of at least one byte, and
messages whose length is a `dsize_t`, as `tcp_write` and `msg_t` take it there),
`PoolAssumption` (16-bit numbers of threads and connections, at least one thread;
programs are sequences of calls) and `PubSubAssumption` (threads belong to nodes; programs
are sequences of calls, `connect_to` has an address, `init_pub` and `publish` have a group;
faults are among those named).

`MpiScheduler_proofs`
* `TypeCorrect`, `PacketsStayIntact`: `PacketsIntact` is inductive with the types,
  because a packet is checksummed again before it is sent back, whatever the
  worker did to it.
* `AcksAreFinishedTasks`: `OnlyAcksComeIn` is not inductive: the server could start
  while a heartbeat is still unreceived. `AckInv` adds the `BootPhase`: until the
  first task the only packets are unreceived heartbeats, one per client at most,
  and `livecnt` is the number of clients whose heartbeat was received; so
  `waitforall` leaves its loop only when there is none left. It also adds that
  everything in `w2s` is finished.
* `CountersAgree`: `LoopInv` says that `inmsg` is as many steps behind `outmsg`, modulo
  `IntMod`, as tasks were issued and not acknowledged; `Back` is that subtraction.
* `TasksAreConserved`: all queues of the system are one function `Queues` from places to
  sequences, and each action pops from one place and pushes to another (`Popped`,
  `Pushed`). `CopyInv` says of it that it holds tasks only (`Settled`), that no sequence
  number is in it twice (`Spread`), that with the refused ones they are among the
  numbers issued in this round, and that with the acknowledgements they are exactly
  as many.
* `LossStalls`, `BuffersSuffice`: counting, from `CopyInv`. A refused task is missing
  from the acknowledgements; and what a rank has buffered is less than what is open,
  which is at most the number of worker threads.
* `ImplementsRoundsSafely`: step simulation of the safety part of `TaskRounds`, with
  `OpenInv` relating its open tasks to `Queues`.

`CommHandler_proofs`
* `TypeCorrect`: needs that a thread inside a call is at a step of that call
  (`InsideCall`), since a call's peer is read from the program when it returns.
* `RendezvousIsExclusive`, `ConnectIsHonest`: one invariant, `RendezvousInv`. A
  request in the pipe belongs to the thread that waits for it; a waiting thread's
  request is in the pipe, being served, or settled, where settled means that
  `errcode` is set or the destination was greeted (`Settled`); a thread about to
  read `errcode` has its request settled. Since a registered client stays
  registered and a greeting in a channel becomes a registration, settled stays so.
* `AcceptIsHonest`: `GreetInv` (connections and greetings come from `connect_to`, and the
  caller has the destination in `clientmap`, so nothing that comes back is taken for a
  registration) and `ClientInv` (the clients in `clientq` and those returned are
  different and registered).
* `DeliveryIsOrdered`: messages are where their addresses say, from `send` to `recv`
  (`AddrInv`, which needs `PullInv`: `taskq` deals to threads of its own node);
  further on the way means sent earlier, each place rises, and no message is dealt to
  two threads (`FlowInv`). For the greetings, every call of `connect_to` is a token
  that is in one place at a time: the pipe of requests, the loop that greets, the
  network, `clientmap`, the hand of the communication thread, an inproc pipe, or the
  application. `CountInv` bounds their number by the calls; `FirstInv` and `PeerInv`
  say that the first greeting is the one that registers.

`PcQueue_proofs`
* `TypeCorrect` with `PushInv` (a push in progress has a size, a producer that is
  not posting has no posts left).
* `QueueMatchesSemaphore` and `PopFindsElement`: `CountInv`, the exact balance of
  queued elements against credits, consumers let in and elements pushed but not
  yet signalled. `NeverPopsEmpty` alone is not inductive.
* `WakeupsAreKept`: credits are at most the consumers awake plus the posts to
  come, as long as somebody sleeps.
* `QueueIsFifo`: `pcqueue` implements the safety part of `BlockingQueue`, by step
  simulation.

`IdCodec_proofs`
* Arithmetic lemmas: `Low28Keeps` (a fitting id survives the shift), `DecodeEncode`,
  `EncodeDecodeEncode` (what was decoded encodes to the same identity, for any id),
  `Injective`.
* `TypeCorrect`, `IdsRoundTrip`, `EachItsOwnClient`, `AnswersAlwaysRouteBack`: the
  invariant adds to the types that everything queued or shown is the decoding of
  the identity of the client it belongs to (`Decodings`) and that `clientmap` holds
  exactly identities of registered clients, and those of all clients that have
  sent (`MapMatches`); the lemmas turn that into the properties.

`DGraph_proofs`
* `TypeCorrect`, `GraphAlwaysExact`, `NothingDispatchedTwice`: `GraphExact` speaks of
  the states between calls only and `NoRepeat` of those inside a call; the invariant
  joins them by the exact matrix inside `findset`, where the columns of the set are
  invalid and its rows are not (`InFindset`), and adds that `adjcopy` and the
  snapshot are exact but for the variables of `lost` and `saved` (`CopiesExact`).
  Invalidating columns and then rows and columns of the same set commutes with
  leaving variables out (`ColsWithout`, `DimWithout`), which is the whole argument of
  each step.
* `SizeIsHonest`, `DepletionIsHonest`: `SizeInv` says how large the set is in the loop and
  after it, and that a depleted graph has no variable below the mark; a sum of
  correlations over the diminished matrix is the one over the data as long as the
  set's rows are untouched.
* `ChoiceIsGreedy`: the minima of the code are minima of the matrix; that they are
  minima of the data among the variables that are left follows from `InFindset`.

`TcpFrame_proofs`
* `TypeCorrect`, `FramesStayInOrder`, `BufferIsNeverExceeded`: the frames of all messages
  are laid end to end; `Off[i]` is where the i-th ends and `ByteAt` the byte at a
  position. `Carries(s, p)` says that a sequence consists of the bytes after position
  `p`. The invariant says of every sequence in the state where it is: what is
  still to be written (`SendInv`), what is on its way and what has been read (`FlowInv`),
  with `Pos` where the reader is. So a complete header is the header of the next
  message, and since `Header` is injective (`HeaderInjective`, by induction on the
  length of the header) its value is the message's length, and what is read next is
  the message. `ReadInv` keeps the two kinds of buffer apart and says that the end of
  the stream is final. All this is known up to the first frame that its `msg_t` cut
  short (`torn`); the frames behind it are at no known position, and neither types nor
  buffers depend on them.
* The library's induction theorems take an operator, which no prover here can
  instantiate. Induction on numbers is available for a property given as a
  set: `Induction` follows from the least element of a non-empty set (`Least`, from
  `WFMin`), and `Recursion` gives a recursive function its equations.

`ThreadPool_proofs`
* `TypeCorrect`: `TypeInv` adds to the types that a message to be written is about a
  call and that a worker that answers has read something.
* `AssertionsHold`: `add_conn` gives ids in turn to the threads, while the constructor
  divides `max_conns` among them at once. `Share(n, t)` is how many of the first `n` ids
  belong to `t`; `RoomInv` says that each thread has its share of the ids given so far
  if they count from 0, and by arithmetic (`ShareNext`, `ShareRoom`) the thread whose turn
  it is has room as long as the pool has. `num_conns` may wrap, but then it did not
  start at 0, and for the same reason it is above `max_conns` only if it started there
  (`OverInv`). `JoinInv` says that a thread was joined by a `stop_all` that has
  returned or by the running one, whose loop has passed it. `CallsEnd` draws the
  conclusion for the ends inside a call. The reader's assertion and SIGPIPE come last in the module,
  as they rest on the delivery of messages: `DeadInv` says that both need a dead
  connection, which for the reader follows from `ClosedInv` (a reader's sockets are open
  until it returns) and `CutInv` (only a dead connection, or one the pool has closed, ends
  inside a frame); and `EarlyInv` says that the worker of a dead connection has left a
  message unread that its sender was handed. That message is in the stream when the
  worker closes, or it is the one whose write finds the worker gone, and by `DelivInv` it
  was addressed to the connection and is none of those the worker has got.
* `DeliveryInOrder`, `NothingIsDropped`: neither property is inductive, as what a worker has
  got says nothing about what its sender is going to write. `PlaceInv` and `NamesInv` give a
  connection one place in one thread, the one its id leads to; `IdleInv` says that no
  thread does anything before `start_all`; `QueueInv` that the messages of a sender, the one
  it writes first, are in the order of their calls. On these rests `DelivInv`, for
  each connection: `Sent` (got or on its way to the worker) is the beginning of the calls
  that addressed it (`Addressed`), the calls in `Pending` (queued, or being written and not yet
  written to this socket) come after all of `Sent`, and while both ends are alive the two
  together are everything the sender was handed (`Handed`, which counts the sender's share
  of a broadcast that is half way through the threads). Each step is then a move of sets:
  a call adds a last element to `Pending`, a write moves the first one of `Pending` to `Sent`
  or, when an end is gone, drops it, and from then on nothing more is sent.
* `WorkersAreServed`: `Pairs` counts answers as pairs of a connection and a number, so that
  the answers owed, given and taken are sets to be compared. `CountInv`: `sem` and the
  returned calls of `sem_wait` are together no more than the answers the readers have
  taken, and a worker has given no more than it has read messages. `RsetInv`, `OpenInv`
  and `PipeInv`: a reader that finds its pipe closed was told so by `stop_all`, and only
  then are sockets closed; so a worker that finds its connection closed (`FailInv`) finds
  it after a `stop_all` was called. By `DelivInv` a worker has read no more than was addressed
  to it, so the answers taken are among those owed. If `stop_all` came after as many waits as answers were owed, all
  answers owed had been given, and a worker that was asked often enough was done
  (`ServedInv`).

`PubSub_proofs`
* `TypeCorrect`: `TypeInv` adds that a thread inside a call is at a step of that call
  (`StepOf`, `Inside`), that what the communication thread holds (`pend`) belongs to the place
  it is at, and that a thread `taskq` deals to is one of its node.
* `RequestsAreHonest`: a call that wakes on `sync_mtx` knows only that somebody has
  unlocked it. `OneInv` says of a node that has not called `init_pub` and whose `errcode` is
  not set that at most one request is open, be it in a pipe, with the loop that greets a
  destination, or as a publisher whose greeting is awaited, and that the mutex is locked
  as long; `WaitInv` says which of these the request of a waiting call is, or that the
  destination has been greeted. `JoinInv` (a publisher's greeting reaches only a node that
  has subscribed), `GreetInv` and `AnswerInv` (only a process that calls `init_pub` greets
  subscribers and is answered) say that nothing else unlocks the mutex. `Grown` lists
  what only grows (`clientmap`, `publishermap`, `joined`, `subgroups`; a greeting on its way
  turns into a registration), so that what was true when a call returned stays true
  (`HonestInv`). Nothing is assumed of other calls of the node, of other nodes or of
  failures.

Only model-checked:
* everything about liveness (`AllCallsReturn`, `HangsOnlyAfterFailure`, `ReadsToTheEnd`,
  the fairness parts of `TaskRounds` and `BlockingQueue`), since the prover does not treat
  fairness and ENABLED;
* `InitPubHonest`: it compares a number of answers with a number of subscribers, over a
  `suberq` that keeps answers from one `init_pub` to the next. The exception it names
  is the one its programs reach; when two threads of a process call `init_pub`, `suberq`
  deals answers to them in turn, whichever group they are for;
* `NoGap`: it holds for programs that use the library as its test does (one receiving
  thread per node, one group at a time in `subscribe_to`, `init_pub` before the first
  `publish`), which a theorem would have to take as assumptions on `Programs`.

## 6. Not modelled

* `getinput`: reads text files into matrices of doubles once at the start. File
  input and floating-point numbers; nothing changes or shares its result.
* Option parsing, logging, printing and time measurement.
* `tcp_socket`, `tcp_bind`, `tcp_listen`, `tcp_accept`, `tcp_connect`: one system call
  each, with an address converted before it; they keep no state.
* `client_receivemsg`, `client_sendtestmsg` and `parsemsg` of `src/mpi`: called by
  nobody.
* High-water marks of 0MQ pipes, and threads or inproc sockets that cannot be
  created.
