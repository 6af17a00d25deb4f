# rperf3-rs: a verification project

TLA+ models of rperf3-rs, a network throughput tester in Rust (client, server,
TCP and UDP, forward, reverse and one-way tests), the TLC runs that check them on
small instances, and TLAPS proofs of what matters most for every instance.

* [The system](#the-system): its parts, their state, their operations, how they interact
* [Modules](#modules): which module models which part, and how
* [Runs](#runs): what each run checks, its bounds, what it shows
* [Fairness](#fairness)
* [Disagreements with the documentation](#disagreements-with-the-documentation)
* [Proofs](#proofs)
* [What is not modelled](#what-is-not-modelled)
* [Plan](#plan)

Paths such as `client.rs:598` are relative to the crate's `src/` directory, and
`README.md:157` is the crate's own README.
`PROJECT.json` maps every definition to the lines it stands for.

## The system

| Part | Source | State it keeps | Operations |
|---|---|---|---|
| Configuration, command line, Setup | `config.rs`, `bin/main.rs`, `protocol.rs`, `server.rs:647-710` | a `Config` at each end, a copy of it in each handler | setters, parse, `Client::new`, Setup, override |
| TCP test, client end | `client.rs` `run_tcp`, `send_data`, `receive_data` | the connection, the position in the protocol, its clock, its cancellation token, its own `MeasurementsCollector` | connect, handshake, data loop, two final reads, `TestCompleted` |
| TCP test, server end | `server.rs` `run_tcp`, `handle_tcp_client`, `send_data`, `receive_data` | the listener, one task per connection, one collector shared by all tasks | accept, handshake, data loop, Result, Done |
| UDP test | `client.rs` `run_udp` ..., `server.rs` `handle_udp_test`, `send_udp_data`, `receive_udp_data`, one-way variants | a control connection, one UDP socket per end, the server's single UDP port | handshake, bind, discovery of the peer, data loop |
| Parallel one-way senders | `client.rs:863-912, 1952-2217` | a set of blocking threads with sockets of their own | bind, send batches, report, join |
| Batched sockets, time stamps | `batch_socket.rs`, `udp_packet.rs` | a batch of packets, reused buffers, a clock cache per thread | add, send, receive, stamp |
| Interval reporter | `interval_reporter.rs`, `client.rs` | an unbounded channel, one task per test, the user's callback | report, complete, await the task |
| Token bucket | `token_bucket.rs` | tokens, time of the last refill, nanoseconds per byte | consume, refill, set_bandwidth |
| Loss tracking | `measurements.rs`, `server.rs:1608-1760` | count and highest number of the packets received; expected number, lost and late packets per stream | record, calculate |
| Multi-worker receiver | `server.rs:1762-1967` | a stop flag, two atomics, the local counters of each thread | receive, flush, print, stop, join, return |
| Collector, interval ring, results | `measurements.rs`, `client.rs:1745-1894` | three mutexes (`inner`, `udp_state`, `per_stream`), atomics, a ring of intervals | record, sync, get, results |
| Handlers' rate limiter | `server.rs:1174-1211` | bytes and time of the last millisecond | sleep |
| Buffer pool | `buffer_pool.rs` | free buffers | get, put (never called) |

How they interact. A client opens one TCP connection. On it the two ends exchange
`Setup`, `SetupAck` and `Start`; in a TCP test the **same** connection then carries
the raw bytes of the test and after them `Result` and `Done`. Each end leaves its
data loop on its own clock. In a UDP test the data goes over the server's one UDP
port, which every handler task binds for itself after it has granted the test. All
handlers record into one collector. The client feeds an unbounded channel from its
data loop; a task of its own reads the channel and calls the user's callback, and
`run()` awaits this task before it announces `TestCompleted`.

What is hard here, and per part what makes it correct:

* **TCP test.** Frames and data in one stream, two unsynchronised clocks, reads that
  are dropped every 100 ms by a timeout, writes and final reads without one, a
  shared collector, clients and servers that go away at any point. Correct means:
  no end meets a wrong frame in the handshake; no buffer is lost or counted twice;
  nobody takes part before `Start`; whoever started ends; every handler returns.
* **UDP test.** Loss, overtaking, refused datagrams that surface as errors of a later
  call, one port for all handlers, a peer that is whoever sent first. Correct means:
  every datagram counted at most once, whoever takes it; a lost datagram ends
  no two-way test in an error; the client ends; a receiving handler gives the port back.
* **Interval reporter.** A task beside `run()`, callbacks that are slow or panic, the
  drop of `run()`, a `Client` used twice. Correct means: every byte is reported once,
  in order, before `TestCompleted`, and neither side waits for ever.
* **Token bucket.** Truncating divisions, skipped sleeps, late wake-ups. Correct means:
  no free tokens, bounded debt, the rate respected over any period.
* **Loss tracking.** Loss, reordering, duplicates, a second test, the 32-bit number.
  Correct means: the reported loss is the number of packets that did not arrive.
* **Multi-worker receiver.** Threads that flush two atomics one after the other while
  another thread reads them. Correct means: exact totals at the end, monotone ones before.
* **Collector.** Three locks, some held together, in two orders; atomics and struct
  fields for the same totals; readers that take one number at a time while recorders go on.
  Correct means: totals are sums, a snapshot lies between call and return, every call returns.
* **Batches, time stamps.** A short `sendmmsg`, buffers that outlive a failed receive, a
  clock cache per thread and a task that changes threads. Correct means: each number goes
  out once and in order, nothing old is taken for new, no stamp is from the future.
* **Parallel senders.** Blocking threads on the runtime's workers, streams that fail, two
  unsynchronised ends. Correct means: totals are what was sent, losses explained, an end.
* **Configuration.** Two ends that each apply their own rules of precedence and never compare
  the outcome. Correct means: one sends and the other receives, on the same terms.
* **Limiter.** Values of zero (not modelled).

`PROJECT.json` lists the hazards one by one, at their lines, with the properties
that cover them. Where the code does go wrong no property that holds can cover a hazard; such a
hazard has a note, and is described under
[disagreements](#disagreements-with-the-documentation).

## Modules

| Module | Models | Form |
|---|---|---|
| `TestLifecycle` | the promise of `run()` to its caller, for TCP and UDP | abstract specification |
| `TestSetup`, `MCTestSetup` | configuration of both ends and what each then does | state machine, TLC instance |
| `TcpTest` | a TCP test, both ends and the connection | state machine, implements `TestLifecycle` |
| `UdpTest`, `MCUdpTest` | a UDP test in four modes, both ends and the network | state machine, implements `TestLifecycle`; TLC instance |
| `OneWayStreams` | parallel one-way senders against the receiver | state machine |
| `BatchSockets` | batched sender, batched receiver, time stamp caches | state machine |
| `ProgressFeed` | what a callback may observe | abstract specification |
| `ProgressReporter` | channel, reporter task, callback, `run()` | state machine, implements `ProgressFeed` |
| `TokenBucket` | pacing of a sender | state machine over integers |
| `UdpLoss` | both loss trackers side by side on one packet stream | state machine |
| `RecvWorkers` | the multi-worker one-way receiver | state machine |
| `Collector`, `MCCollector` | the collector and all the tasks that share one | state machine, TLC instance |
| `Sums` | the sum of the values of a function, in which the properties count | operators |
| `TcpTest_proofs`, `UdpTest_proofs`, `ProgressReporter_proofs`, `Collector_proofs` | | theorems of one component each |
| `Bandwidth_proofs` | | theorems of `TestSetup` and `TokenBucket`: from the bandwidth asked for to the pace |
| `Datagrams_proofs` | | theorems of `BatchSockets` and `UdpLoss`: from the numbers sent to what is called lost |
| `OneWay_proofs` | | theorems of `RecvWorkers` and `OneWayStreams`: the two ends of one-way tests |
| `Sums_proofs` | | lemmas on sums |

A module of theorems about two components extends both. For this reason `TokenBucket`,
`UdpLoss` and `RecvWorkers` have names of their own (`BucketSpec`, `LossSpec`, `RecvSpec`) for what is
`Init`, `Next` and `Spec` elsewhere.

`Fault...` definitions next to an action are what it would be with a plausible bug;
no specification uses them, each shows that a property can tell the difference.

### TcpTest

`cpc[c]` is the place of `run_tcp` (`idle`, `setup`, `ack`, `start`, then `data` at the
head of the loop and `io` inside its await, `result` and `done` for the two last
reads), `spc[c]` that of `handle_tcp_client`. The two directions of a connection are
sequences of chunks, a chunk being one frame or one buffer of test data. The kernel
is modelled by what the code depends on: a read returns a non-empty prefix of the
queue; a write needs room; closing an end whose input is unread resets the connection;
a reset takes away any suffix of what the other end has not read. `Decoded` and
`Undecoded` say what `deserialize_message` does at test data: the buffers are zero, so
the length prefix reads 0, the body is empty, and the result is an error which has
eaten four bytes. The client accepts that at the end of a test and nowhere else.
`collector` is the one collector of the server, `hBytes` a history variable: what this
handler recorded. `MayGoOn` is the loop condition (clock and token); handlers look at
the clock only, as in the code. The contents of `Setup`, pacing, intervals and the
printing of results are left out.

### UdpTest

The same two program counters; after `Start` a handler is at `bind`, then at `discover`
(it sends and waits for the first packet) or at its loop. Datagrams of one test are
interchangeable, so a direction of the network is a number. Loss is an action of its
own; a datagram that finds no bound port is answered by a refusal (`cRefused`,
`sRefused`) that the next call on the connected socket reports. `peer[c]` is what the
handler's socket is connected to, and an unconnected socket takes datagrams of anybody.
A batch is a number of 0 to `MaxBatch` datagrams in one step, since `sendmmsg` may take
any part of it. One-way tests are modelled with one stream.

### ProgressReporter

One action per stretch between two awaits of `run()`: start (channel and task are made),
record and report, leave the loop, await the task, notify. The task takes messages,
is inside the callback, or is over. A callback may panic, which ends the task; `run()`
may be dropped at any await. A second `run()` of the same `Client` has a channel and
a task of its own; the task of the first may still be busy.

### TokenBucket

Time is in nanoseconds of which `MicrosPerSec * NanosPerMicro` make a second, so that
the truncations happen at small numbers as well: 10^6 and 10^3 in the program. `Consume`
is the part of `consume` before its await, `WakeUp` the one after; `Tick` lets time pass,
also beyond the requested end of a sleep. `consumed` and `since` are history.

### UdpLoss

`received`, `maxSeq` are the collector's `UdpPacketState`; `expected`, `lost`, `late` the
`StreamState` of a one-way receiver. Packets are numbers; what the trackers see is
the number modulo `SeqSpace`, 2^32 in the program. `seen`, `arrivals` and `first` are the history
of what arrived.

### RecvWorkers

A worker thread is between two system calls or between the two `fetch_add` of a flush;
the main task between its load and its print, and between flag, drain and joins.
Atomics are relaxed, but each has one location and only read-modify-writes and loads, so
interleaving of single steps is what can be seen of them; the join orders the last load.
`takenB` and `takenP` are history: what the sockets delivered.

### Collector

A step is one atomic operation or one critical section. `Script` lists, per kind of
task, the calls it makes on a collector in the order of the code: in a round of its loop,
when an interval has passed, at its end; `at[p]` is the task's place in it and `step[p]` the
place inside the call. A recording call is three steps (total, look-up, counter of the stream),
`get()` eight: it clones `inner`, loads three atomics, walks the streams under their lock and
asks for the loss. `begin` (the numbers when a call began), `synced`, `added` and `timed` are
history. `print` is `print_results` for text and `get_detailed_results` for JSON; the latter
and `record_udp_packet_received` are the only calls that hold two locks. A call that records bytes
counts them as one, and an interval or duration is its ordinal.

### TestSetup

A client's `Config` comes from a command line (`TypeLine`, the arm of `main`) or from calls
of setters in any order; `Client::new` takes or refuses it; `SetupOf` is what `Message::setup`
makes of it, `TermsOf` what a handler makes of that and of its server's `Config`. `ClientDoes`
and `HandlerDoes` are the branches each end then takes: a direction, a transport, a packet
format, a rate, a time and a size. Wrapping of `parse_bandwidth`, the seconds `as_secs` drops and
the sizes that stand for a default are modelled with the numbers of the code as constants.

### BatchSockets

The sender of `run_udp_send_batched` fills, sends and paces; `sendmmsg` takes any part of a batch
the socket has room for. `cache[t]` is the clock cache of thread `t`; a refresh reads two clocks
in two steps, between which time may pass, and the task may go on on another thread after
it slept. The receiver of `run_udp_batched` tries, waits for readiness and tries again; the
buffers keep what they had. `ready` is tokio's view of the socket, which raw system calls never
clear. `taken`, `got` and `lag` are history.

### OneWayStreams

`task[i]` is the tokio task of stream `i`, which blocks one of the runtime's `workers` while its
native `thread[i]` sends; `joined` and `total` belong to `run_udp`. Numbers advance by whole batches.
The receiver keeps `expected`, `received`, `lost` and `late` per stream (the code adds the last three
up over the streams). Ports that are taken, refusals, losses and a dropped `run()` are steps
or initial states of their own.

## Runs

| Run | States | Shows |
|---|---|---|
| `setup` | 396,980 | both ends of every test come to complementary roles, clocks that agree and sizes that fit; where the sender has a limiter (not in TCP from the client, the default test, nor in parallel one-way streams) its rate is the bandwidth asked for |
| `tcp` | 7,770 | handshake in order, no buffer lost or counted twice in either direction, `Result` within what was sent, `TestLifecycle` implemented, both ends end |
| `udp` | 12,588 | no datagram counted twice, `TestLifecycle` implemented by two-way tests, the client ends, a receiving handler gives the port back |
| `streams` | 621,652 | totals are what the kernel took, losses of each stream explained, the test returns |
| `batches` | 7.34 million | each number out once, nothing received twice, no stamp from the future |
| `reporter` | 27,371 | every byte once and none left behind, `ProgressFeed` implemented, nobody waits for ever |
| `bucket` | 316,198 | no free tokens, rate respected |
| `loss` | 243,120 | collector: exact without duplicates, never too high with them; one-way: the books balance, what they call lost is bounded |
| `workers` | 41,252 | nothing lost between threads, exact totals, the receiver returns |
| `collector` | 281,583 | totals are sums, snapshots lie within their call, the ring keeps the last, results are true, every call returns |

Two further runs, `tcp_done_lost` and `setup_unpaced`, end in a counterexample; see the section on
disagreements.

Bounds, and why they are enough:

* `SockBuf = 2`, `MaxBulk = 3` in `tcp`, where one client starts in either direction: senders meet a full buffer, a read
  may take all or part of it, and both frames of the end fit or do not. What the code
  does depends on full, empty and neither, and on which kind of chunk is at the head. More
  clients are a matter of the proofs: handlers of TCP tests meet in the listener and the
  collector only.
* `MaxPackets = 3`, `MaxBatch = 2` in `udp`, where one client starts in any mode in which the
  server hears of it (`Alone` in `MCUdpTest`): a full batch, part of one, none, and one more.
  Several clients that compete for the port are a matter of the proofs (`NothingIsCountedTwice`,
  `KeepsPromise`): with two, the liveness properties are out of TLC's reach.
* Two runs of a `Client` and three records in `reporter`: a task of the first run that is still
  busy when the second starts, several reports in a channel.
* `MicrosPerSec = 8`, `NanosPerMicro = 5`, rates 3, 17 and 40 in `bucket`: below one byte per
  microsecond, between, and exactly one byte per nanosecond; none of the first two
  divides, so that every division truncates. Time stops at 16 nanoseconds, where the run
  ends: `CHECK_DEADLOCK FALSE`. The theorems have no such bound.
* Four packets, two copies of each and two tests in `loss`: every order of arrival, gaps of up to three,
  duplicates before and after a gap. `SeqSpace = 8` keeps the numbers below the wrap. The run
  ends when everything has been sent and received: `CHECK_DEADLOCK FALSE`.
* Two workers, three datagrams of two sizes in `workers`: flushes of both, loads between them.
* Two tasks in `collector`, in the pairs that occur (`SharedByTwo`: handlers of one server, a run
  of a client and a user of `get_measurements`), one of which goes round twice
  (`OnceOrTwice`); a ring of two, so that a third interval evicts; numbers 0 and 1, so that a
  packet may be missing, late or repeated.
* Two clients in `setup`, one typed and one typed or made by up to three setter calls, against every
  server configuration: two settings that contradict each other and one more. Small units (a
  thousand of 10, a word of 16384, a second of 2) make products wrap and durations
  truncate; the sizes are those of the code.
* Batches of three with a least size of two, room for two datagrams, two threads, five ticks of
  half a microsecond in `batches`: part of a batch is taken, a batch meets a full socket, a
  cache is new, fresh, at its limit and stale, and the task changes threads between.
* Two streams on one or two workers, batches of two, three batches and one datagram lost or
  refused in `streams`: a stream without a worker, a short `sendmmsg`, a gap before and after it.

The other runs need no exemption from deadlock checking: `Finished` says in each module
where the system may rest, and TLC finds no other place.

## Fairness

* `TcpTest`, `UdpTest`: weak fairness of every end's steps and of every clock. tokio polls
  a task that is ready and a timer that has expired wakes its task; `elapsed()` grows.
  In `UdpTest` also of the answer of a port nobody has bound. No fairness of cancellation,
  drop of `run()`, stop or exit of the server, or of loss: no property relies on them.
* `ProgressReporter`: weak fairness of the end of the data loop, of the await, of the
  notification and of the reporter task. A callback is assumed to return or panic.
* `RecvWorkers`: weak fairness of each thread and of the main task's steps; strong
  fairness of `Stop`, because the clock ends the test at the head of a loop to which each
  printed interval returns.
* `MCCollector` (`FairSpec` of `Collector`): weak fairness of each task's steps inside its calls.
  A lock that is free is given to somebody; nothing is assumed of who gets it first.
* `OneWayStreams`: weak fairness of spawning, returning and each thread's way to its end; strong
  fairness of a stream's task, because the worker it needs may be taken by another
  stream again and again. None of network and receiver, nor of sending.
* `TestSetup` and `BatchSockets` have safety properties only and assume none.

One limit of this: the batched UDP sender of a test without a bandwidth has no await
that ever suspends (`send_mmsg` is not asynchronous), so on a single-threaded runtime
other tasks may starve until its clock ends the loop. The clock is looked at in each
round, which is all that the properties need of it.

## Disagreements with the documentation

Two are runs with `"expect": "violation"`. In `tcp_done_lost`, `DoneEndsTest` fails: the handler drops
its stream with unread data, and the reset takes `Result` and `Done` away, while
`protocol.rs:50` says that `Done` signals the completion of a test. In `setup_unpaced`, `RateAsAsked`
fails: `with_bandwidth` is documented to control "the send rate for both TCP and UDP tests"
(`config.rs:325`, with a TCP example at 343), but in a forward TCP test, the default one, the
client's `send_data` never looks at it (`client.rs:1560`).

The models contain more. The properties that hold are stated up to these, and each is
visible as a condition of a property or a branch of an action:

* **TCP.** In a reverse test the `Result` and `Done` frames may arrive in the client's data loop
  and are counted as data (`client.rs:1664`, against `client.rs:193`): `ReverseNothingLost` is an
  inequality for this reason.
  A `Result` carries the bytes of all clients so far (`server.rs:757`, against `server.rs:150`):
  `ResultWithinSent` is checked where one client uses the server.
* **UDP.** Of two tests at once both are granted, the handler of one cannot bind the port and
  returns (`unbound` in `UdpTest`), and its client is not told (`server.rs:150`). A lost init packet
  leaves the handler of a reverse test waiting, with the port, for ever (`server.rs:909`, against
  `server.rs:259`): `ReceiverFreesPort` is about receiving handlers. `HandlerDiscovers` may take
  another client's datagram for its own client's (`server.rs:907`); `CountedOnce` holds all the same.
* **One-way.** These tests never emit `TestCompleted` (`client.rs:189`) and end in an error when a
  datagram is refused: `KeepsLifecycle` of `UdpTest` is about two-way tests. In one-way receive the
  client announces itself to nobody and both ends wait for ever (README.md:157,
  "experimental"): the run `udp` checks the other three modes. Even if it did, the server
  sends packets with a header and the client reads a bare number: the condition in
  `RolesAgree`. A parallel sender advances its numbers by a whole batch although `sendmmsg`
  took part of it (`client.rs:2152`), so the receiver reports packets as lost that were never sent:
  `seq` rather than `sent` in `LossExplained`. A stream whose port is taken is only logged.
  A buffer of less than 8 bytes panics (`client.rs:1919`): `panicked` in `TestSetup`.
* **Results.** Nothing in the program calls `sync_atomic_counters`, so the totals of a client's JSON
  output are 0: `DetailedWithinSync` says that they are as old as the last sync.
  `get_stream_stats` looks in a list that stays empty and always returns `None`. Two concurrent
  `run()` of one UDP client with JSON output can wait for each other for ever (`get_detailed_results`
  takes `inner` and then `udp_state`, `record_udp_packet_received` the other way round):
  `EveryCallReturns` is about one run per collector. A collector is never reset: the loss of a second
  test (`measurements.rs:1140`) and the total in its `TestCompleted` (`client.rs:193`) mix in the
  first. `LossExact` and `LossNotOverstated` are about a first test.
* **Configuration.** A bandwidth paces two-way UDP, one-way UDP with one stream or from the server, and TCP
  from the server, as `main.rs:211` has it in part ("UDP and TCP reverse mode"). It does not pace TCP from
  the client (`config.rs:325`; `config.rs:160` says "for UDP") nor parallel one-way streams, whose
  `_bandwidth` is unused (`client.rs:1956`) although README.md:144 shows `-P 4 -t 30 -b 2G`: `Paced` in
  `TermsAgree` tells these tests apart. Without `-b` a UDP test has no limit, where README.md:340 gives a
  default of 1M: `TermsAgree` has no rate for it. The default length of a UDP packet is 1500
  (`main.rs:216`), where README.md:341 gives 1460.
  `parse_bandwidth` multiplies without a check, and the product wraps: `TermsAgree`
  is about bandwidths that fit. Durations lose what is less than a second on their way to
  the server: the two clocks agree up to that. A library user's UDP client has a buffer of
  128 KiB, more than a datagram holds, and sends nothing: `DatagramsFit` is about sizes up to
  `MaxDatagram`. `--one-way-send` and `--one-way-receive` without `--udp` have no effect; the client's
  `-B` is parsed and not used.
* **Rates and numbers.** Above 10^9 bytes per second `nanos_per_byte` is 0 and `TokenBucket` never
  sleeps (`token_bucket.rs:95`): `DebtBounded` and `RateRespected` are about rates up to 10^9. The
  32-bit number wraps and the highest number seen does not follow: the theorems on loss
  assume that it does not. A late packet stays counted as lost by a one-way receiver
  (README.md:463): the upper bound of `OneWayLossBounds` includes the late packets.
* **Sockets.** The raw `recvmmsg` never clears tokio's readiness, so `readable()` returns at once and
  the loop around it spins (`Readable` in `BatchSockets`; its caller, `Server::run_udp`, is dead
  code).

## Proofs

Proved with TLAPS for all values of the constants, under the named assumptions declared
with them: **every invariant and every action property that a run checks, and the three
refinements**. Beside them there are the type invariants, `HandshakeInv`, the accounts of
TCP and `DebtBounded`, which no run lists and on which the others rest, and two theorems on
who waits for whom, `EndsNeverWaitForEachOther` and `LocksNeverWaitInACircle`: the part of the
liveness properties that needs no fairness.

### Assumptions

The assumptions on constants say what the code says of them: bounds are naturals, sizes and
units are positive, a set of clients, streams, threads or tasks is finite, `None` is no number.
`TestSetup` also types the command lines and setter calls (`LinesAssumption`, `CallsAssumption`) and has
`MaxDatagram <= PoolSize`, 65507 and 65536 in the code. Eight theorems have a hypothesis besides. All but
`SockBuf >= 2` are limits of the program, described in the section on disagreements; that one is what
every kernel grants, since a frame has a few hundred bytes:

| Hypothesis | Theorems | Without it |
|---|---|---|
| `OneSender`: at most one client sends | `ResultStaysWithinSent` | a `Result` carries the bytes of all of them |
| `ClientsAreAlone`: a client's collector has one run | `TextIsAlwaysTrue` | two runs of a `Client` mix their totals |
| the same | `LocksNeverWaitInACircle` | two UDP runs with JSON output stop each other |
| `SockBuf >= 2`: room for two frames | `EndsNeverWaitForEachOther` | a sending client and a handler in its last write stop each other |
| `MaxSent < SeqSpace` | `OneWayAccountBalances`, `OneWayLossIsBounded` | the 32-bit number wraps |
| `MaxSent <= SeqSpace` | `LossIsExact`, `LossIsNotOverstated` | the same |

The runs satisfy the hypotheses of what they check (`AloneAssumption` in `MCCollector`; one client
in `tcp`; `SeqSpace = 8` in `loss`).

### Sums

Several properties say that what tasks, threads or datagrams hold adds up, and state it with
`Total`, a fold over a function. The fold is defined by recursion over subsets and a `CHOOSE`.
`Sums_proofs` shows that the recursion defines a function, that the sum does not depend on the order in
which `CHOOSE` takes the elements, and how a sum changes with one value. The inductions
in it are over cardinalities and first-order: a set of naturals that is not empty has a smallest
element (`WFMin`), so the claim has no smallest counterexample. All else cites `TotalChange`,
`TotalRaised`, `TotalBelow`, `TotalNat`, or for sequences `TotalToFirst` and `TotalToLast`.

### TCP test: `TcpTest_proofs`

* **`TypeCorrect`.** In particular no queue ever holds more than the socket buffer. `TypeOK` is
  inductive; it is split into the parts on queues, places, flags, counts and outcomes, each of
  which needs at most the parts before it, with one step per action. What a prefix or a
  rest of a queue is, is stated once as a lemma.
* **`HandshakeExplained`, `HandshakeIsInOrder`.** `HandshakeInOrder` is not inductive: it speaks of
  the head of a queue only, and the frame behind it becomes the head. `HandshakeInv` relates, per
  connection, the places of the two ends to the frames queued between them and to `granted`;
  together with `TypeOK` it is inductive, and `HandshakeInOrder` follows.
* **`KeepsPromise`.** `TcpTest` implements `TestLifecycle`: initial states map to initial states, and
  every step, by cases over its actions, to a step of the abstract specification or a
  stutter. The step to `running` is where `HandshakeInv` is needed: a client reads `Start`
  only if the server wrote it.
* **`AccountsRight`, `ForwardIsConserved`, `ReverseLosesNothing`.** `AccountInv` says for each connection that
  what its receiver recorded and what is queued is together what its sender recorded (in a forward test exactly,
  and at most that after a reset; in a reverse test up to the frames that lie between), and that before the
  test nobody has recorded anything. A step
  of one connection leaves the account of every other alone (`OneConnection`), so each action is
  looked at for its own client only.
* **`ResultStaysWithinSent`.** A `Result` in flight, one that was read, and the server's collector claim at most what
  the one sending client has sent (`ReportInv`). The number of receiving clients is arbitrary.
* **`EndsNeverWaitForEachOther`.** No read of a frame and no write has a timeout, so an end may wait for ever for
  the other; `NoMutualWait` says that the other is then able to go on. An end that waits
  for a frame has read all that is queued, so the other could only wait for a frame in its turn, which
  `HandshakeInv` excludes. For an end that writes into a full socket the proof needs `PendingInv`: in a forward test the replies still queued and those the client has read
  are at most those the handler wrote, hence two at most while the client sends. With
  `SockBuf = 1` TLC finds the two stopped, the client in its data, the handler in `Done`.

### UDP test: `UdpTest_proofs`

* **`UdpTypeCorrect`, `KeepsPromise`.** `UdpTest` implements `TestLifecycle` for two-way tests. `GrantInv` is
  what the refinement needs: a `Start` that is queued has been granted, and a client that has
  not connected has no handler. Steps of the clients are grouped by what they do to the place of
  one client, all others by what they leave alone.
* **`NothingIsCountedTwice`.** `CountInv`: what was counted and what is on its way is at most what was sent and
  the init packets that have gone; those still to go are counted by the cardinality of the clients
  (`Quiet`) that have not come so far. Without that count the bound is not inductive.

### Interval reporter: `ProgressReporter_proofs`

* **`ReporterTypeCorrect`, `FeedIsKept`.** `ProgressReporter` implements `ProgressFeed`, panics and drops
  included. `FeedInv` says that a task which may still call the callback belongs to a run that was
  announced and has not completed: the await of `run()` is what keeps it. An update raises `told`,
  because every report in a channel is of a byte at least, which `TypeOK` says.
* **`BytesReportedOnce`.** `ByteInv` adds to the property that `Complete` is the last message of its channel and not
  there while the loop goes on, and that channels of runs to come are empty. A step of a run or of its
  task changes the books of that run only.

### Collector: `Collector_proofs`

For any number of tasks of any kinds.

* **`CollectorTypeCorrect`, `TotalsAreAlwaysSums`, `RingAlwaysKeepsLast`.** `CountInv` adds to `TotalsAreSums` that a
  task between look-up and counter has found the one stream there is, and that a call in flight
  has a field; a step moves one task into or out of the set whose cardinality the sum contains.
  `RingKeepsLast` is inductive with `TypeOK`: a push is a shift of the run of ordinals.
* **`SnapshotsAreWithinTheirCalls`.** `SnapInv` has a conjunct for each place inside `get()`: what the call has
  read so far lies between the numbers at its begin and those of now. All recorded numbers only grow
  (`Grown`), so a step of any other task keeps it.
* **`DetailsAreWithinTheirSync`.** `SyncInv`: the copy in `inner` is between the last sync and now, and each field that
  a sync under way has already copied is no older than the begin of that sync. `PlaceInv` says which call a task is in.
* **`LocksNeverWaitInACircle`.** `LockInv`: a task has a lock in the critical sections of that lock and nowhere
  else. Two places hold one lock and need another, in opposite orders: `record_udp_packet_received` (`udp_state`,
  then `inner`) and `get_detailed_results` (`inner`, then `udp_state`). The second is a client's and the first
  no user's (`PlaceInv`), so the two never meet. With two runs of a UDP client TLC finds the circle.
* **`TextIsAlwaysTrue`.** `TextInv` follows one client from its last recording call through `get` and `print`; that
  nobody else records is the hypothesis.

### Setup and pace: `Bandwidth_proofs`

* **`SetupRolesAgree`, `SetupTermsAgree`, `SetupDatagramsFit`.** `SetupInv`: what each end holds is a function of the
  client's `Config`, its command line and the server's `Config` (`ClientAt`), since `Setup`, `TermsOf`
  and `HandlerDoes` are. The rest compares the two branches by cases: TCP, two-way UDP, one-way in
  either direction. `SetupTermsAgree` says that a bandwidth comes through to every sender that has a
  limiter, and that the others (`Paced`) have no rate, not that every test is paced: that is
  `RateAsAsked`, which is false. It needs integer division and that a
  product with a `Multiplier` which fits in a word is not changed by the word.
* **`BucketTypeCorrect`, `TokensAreEarned`, `DebtIsBounded`, `RateIsRespected`.** The invariant is `TypeOK`,
  `NothingForFree` (consumption plus balance is at most the burst plus rate times time; both
  sides are multiplied by the units of a second, so the truncation of `refill` becomes an
  inequality about quotient and divisor), `SleepOwed` (a sleeper's remaining sleep pays for its
  debt up to the truncation of one nanosecond per byte) and `DebtBounded`. Rate and units are any
  that satisfy the assumptions.

### Batches and loss: `Datagrams_proofs`

* **`BatchesTypeCorrect`, `EachNumberGoesOnce`, `StampsAreTrue`.** For any batch size, rate, room, number of
  threads and clock. `NumberInv`: `taken` and the batch are adjacent runs of numbers; the lemmas
  on `Numbers` say how runs are cut and joined. `StampInv`: the stamp of every cache, and the
  clock as read for a refresh, was the wall clock at the time kept with it, up to the
  truncation of a microsecond and the gap of that refresh.
* **`BuffersAreNeverReused`.** `ReceivedOnce` is inductive with `TypeOK`: while the receiver goes through a batch, what it is
  to record is that of the valid buffers, and `recvmmsg` replaces exactly those at a moment when there are none.
* **`LossTypeCorrect`, `OneWayAccountBalances`, `LossIsExact`, `LossIsNotOverstated`.** The books of the one-way
  receiver balance for any loss, reordering and duplication. The collector's loss is never
  too high in its first test, and exact while nothing has arrived twice: the invariant says
  that it has counted every arrival, that these are at least as many as the packets seen, and that
  its highest number is their maximum.
* **`OneWayLossIsBounded`.** `GapInv` speaks of the numbers between the first and the expected one that have not arrived:
  `lost` is at least their count and at most that and `late`. A packet above the expected one
  extends the gap, one below it can close a hole.

### One-way tests: `OneWay_proofs`

* **`WorkersLoseNothing`, `WorkersResultExact`.** The invariant is the account itself, with what each worker holds as a
  function (`HeldBytes`, `HeldPackets`) of which a step changes one value, and that after the joins every worker is over.
* **`StreamTotalsAreTaken`.** `JoinInv`: `total` is the sum of what the joined streams have sent, and a stream that
  failed or is not joined has added nothing to it and, in the first case, sent nothing (`StreamAt`).
* **`StreamLossIsExplained`.** `WireInv`: every number on the wire is below that of its sender, every stream's lost and
  received packets are within its expected number and the late ones, and its datagrams are
  received, gone or on the wire.

### Only model-checked

The ten liveness properties: the prover has no rules for fairness and `ENABLED`. They are
`StartedTestEnds` of both tests, `ConnectedClientReturns`, `HandlerEnds`, `ReceiverFreesPort`, `RunGoesOn`,
`TasksEnd`, `Returns`, `EveryCallReturns` and `RunReturns`. What of them is safety is proved for TCP
and the collector (who waits for whom, above).

`DoneEndsTest` and `RateAsAsked` are false, which the runs `tcp_done_lost` and `setup_unpaced` show.

## What is not modelled

* The formatting of results, JSON of the messages and the byte layout of packets:
  no property depends on them, and the round-trip tests of the crate cover them.
* The handlers' rate limiter (`server.rs:1174-1211`): floating-point pacing per millisecond. It
  influences when a handler sends, which the models leave open.
* `BufferPool`: nothing calls `put`, so the pool is always empty and `get` makes a new zeroed buffer,
  which is what `TcpTest` assumes of test data.
* `Server::run_udp` (352-640) but for its batched receive loop, `recv_one_way_server_multi` and
  `recv_one_way_receiver`: nothing calls them. The Windows and macOS variants of receivers,
  sender threads and socket bindings: other platforms' variants of what is modelled.
* Jitter, TCP statistics and the other values of the platform: they influence no count.
* 64-bit overflow of byte counts and nanoseconds: out of range for the length of a test.
* `TokenBucket::refill` by a clock that goes back: `Instant` is monotone.

## Plan

Order of the work: first what decides whether a test means anything (configuration, protocol,
data, end), then what the numbers mean, then the containers. All modules of the table are
done. What is left:

1. The handlers' rate limiter, with the sleep of a target of 0 bytes per second, against
   `TokenBucket`'s `RateRespected`.
2. `Collector` with two runs of one client, once the order of its locks is settled.
3. Proofs: who waits for whom in `UdpTest`, where a receiving handler has only its clock, and in
   `OneWayStreams`, where tasks wait for worker threads.
