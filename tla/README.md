# A TLA+ development of low-latency-showcase

The repository is a C++23 library of latency-sensitive building blocks with the
benchmarks that justify them. This directory models its concurrent and
distributed parts in TLA+, checks them with TLC on small instances and proves
their safety for instances of every size with TLAPS.

Notation: `D` is
`modules/concurrency/disruptor-single-producer/include/lls/concurrency/disruptor_single_producer.hpp`,
`S` is `benchmarks/scenarios/socket-latency/socket_latency.cpp`, `N` is
`modules/networking/low-latency-sockets/include/lls/networking/low_latency_sockets.hpp`.

## Inventory

| Component | State | Operations | Interacts with | What is hard | What makes it correct |
|---|---|---|---|---|---|
| single-producer disruptor (`D`) | ring of events, `published_`, one released position per consumer, the producer's private cursor, cached capacity and remembered blocker, debug state | `try_publish(_batch)` direct and through a handle, `consume_available`/`try_consume` indexed and through a handle, handles made, moved, destroyed | one producer thread and N consumer threads over shared memory | lock-free interleavings, memory order, stale caches, hand-over of the producer state, unsigned rollover | no race on a slot, every event to every consumer once and in order, whole batches, never more than Capacity ahead |
| multicast example (`examples/basic.cpp`) | start gate, counts of three threads | publish with retry, poll, join | the disruptor | everybody waits on everybody | it ends, every consumer with the whole stream |
| socket-latency, UDP (`S`, `run_udp`) | two datagram queues, cancellation flag, per-thread counters, seen-sets and high-water marks | send, receive until deadline, echo, classify, account, cancel, join | client and server thread, lossy network | late answers, duplicates, reordering, strays, failure while the other thread waits | samples belong to their request, accounts add up, anomalies are real, no thread left behind |
| socket-latency, TCP (`S`, `run_tcp`, `run_client`) | byte streams, server state, counts | exact-length send and receive, echo, validate, shutdown, join | client and server thread over one connection | segmentation, failure inside a blocking call, spin without a watchdog | throws only on a fault, ends, joins |
| socket-latency driver (`S`) | options, workload order, result rows | option checks, `williams_first_row`, runs | the two workloads | wrapping sums, an order that only shows over all runs | positions and predecessors balanced, sequences fit the wire |
| low-latency sockets capsule (`N`) | none of its own (progress of a call) | exact stream send/receive, datagram send/receive, busy spin with stop predicate, socket options | the kernel, caller's stop predicate | `EINTR`, `EAGAIN`, partial progress, stop racing data | no byte lost or stored twice, stop keeps progress, every error reported once |
| spin-wait strategies (`spin_wait.hpp`) | adaptive back-off count | `wait`, `reset` | callers' loops | growth at the limit, a forgotten reset | bounded pauses, then yield, counted from the last useful work |
| wait-strategy scenario (`wait_strategy.cpp`) | start gate, counts, checksum | throughput and latency loop | disruptor, spin-wait | position test before the first release, hand-off loop | a measured event is handed over directly, the sum is exact, it ends |
| disruptor benchmarks (`throughput.cpp`, `latency.cpp`) | SPSC ring, mutex ring, blocking slot | push/pop, publish/consume | two threads | full and empty tests, memory order, lost wake-ups | each is a bounded FIFO, its loops end |
| paired comparison, C++ (`paired_benchmark.cpp`) | `run_control`: phase numbers, plain fields, error; retained ring | warm-up and measured phases, pinning, validation, join | producer and consumer thread over the disruptor | phase hand-over, failure inside a phase | phases are whole, plain fields do not race, an error is rethrown, nobody waits for ever |
| paired comparison, Java (`PairedBenchmark.java`) | gate file, two workers | pin check, gate, deadline | the launcher, the external LMAX ring | deadlines on both sides | workers measure only when pinned |
| Java affinity launcher (`run_java_pinned.py`) | thread names, masks, gate, deadline | discover, pin, settle, open gate, audit, terminate | the JVM's threads | threads that come, go and rename themselves while they are listed | workers exactly pinned, helpers off their CPUs, no JVM left behind |
| benchmark runners (Python) | processes, CSV rows | pair order, validation, statistics | the binaries | partial output | all rows valid |
| `lls-info`, CMake | none | print | | | |

## Modules

| Module | Models |
|---|---|
| `MulticastStream` | abstract specification: a stream that every consumer receives completely, with bounded backlog |
| `Disruptor` | `single_producer_disruptor`, every shared access a step |
| `MulticastClient` | `examples/basic.cpp`, thread by thread, on `Disruptor` |
| `UdpEcho` | `run_udp` |
| `TcpEcho` | `run_tcp`, `run_client`, `send_all`, `receive_all` |
| `StreamSockets` | `send_all`, `receive_exact_blocking`, `receive_exact_busy_spin(_until)` of `N` |
| `DatagramSockets` | `receive_datagram_blocking`, `try_receive_datagram`, `receive_datagram_busy_spin(_until)` and the datagram sends of `N` |
| `SocketOptions` | observe, apply and rearm `TCP_NODELAY`, `SO_BUSY_POLL`, `TCP_QUICKACK` of `N` |
| `WaitStrategy` | `wait_strategy.cpp` and `adaptive_spin_wait`, on `Disruptor` |
| `BoundedFifo` | abstract specification of the benchmarks' queues |
| `SpscRing`, `MutexRing`, `BlockingSlot` | the three reference queues with the loops that drive them; each implements `BoundedFifo` |
| `PairedPhases` | `run_all_phases` of `paired_benchmark.cpp`, on `Disruptor` |
| `AffinityGate` | `run_java_pinned.py` and the JVM threads it pins |
| `DisruptorProofs` | arithmetic of sequences and slots, the disruptor's inductive invariant and its theorems |
| `MulticastClientProofs`, `WaitStrategyProofs`, `PairedComparisonProofs` | the programs on top of the disruptor: their invariants include the disruptor's; the last also has `AffinityGate` |
| `SocketProofs` | `StreamSockets`, `DatagramSockets`, `SocketOptions` |
| `UdpEchoProofs`, `TcpEchoProofs` | the two latency workloads |
| `BenchmarkQueuesProofs` | `SpscRing`, `MutexRing`, `BlockingSlot` |
| `MC*` | constants for TLC |

### Disruptor and MulticastStream

`published`, `consumers`, `events` and `producer_state` are the members of the
same names; `cursor[p]` holds `next_to_publish_`, `available_before_rescan_` and
`blocking_consumer_` of the publication path `p`, the disruptor itself (`Owner`)
or a `producer_handle`. The direct and the handle version of
`try_publish_batch` and `refresh_available_capacity` are the same code twice, so
they are the same actions with the path as a parameter; they differ in how they
find a slot (`EventAt` against `SpanAt`), and there the model differs too. The
call in progress (`call`) is cut where another thread can see a difference:

| Action | Code |
|---|---|
| `TryPublishBatch` | early returns and the test of the cached capacity |
| `CheckBlocker`, `ScanConsumer`, `FinishRefresh` | `refresh_available_capacity`, one step per load of a consumer position |
| `WriteEvent` | one writer call |
| `Publish` | cursor, capacity, release store, debug state |
| `MakeProducer`, `MoveProducer`, `DestroyProducer` | `make_producer`, the move constructor, the destructor with `synchronize_owner_state` |
| `MakeConsumer`, `DropConsumer` | a consumer handle's life |
| `ConsumeIndexed`, `ConsumeCached`, `ConsumeReloading` | the start of `consume_available`, by index, by handle from the cached boundary, by handle with a reload |
| `HandleEvent`, `Release` | one handler call; the release store of the position |

Sequences are numbers below `Wrap` with unsigned arithmetic. The payload of an
event is its own sequence, so a handler that reads a slot at the wrong time or
at the wrong index is caught by value.

*Memory order.* The model is not sequentially consistent. A load may return any
store that coherence still allows (`pubView`, `ackView`); an acquire load
records the value it synchronised with (`pubAcquired`, `ackAcquired`), and a
plain access is free of races exactly when the other thread's access is covered
by such a value. `NoWriteRace` and `NoReadRace` say that. Replacing either
acquire by a relaxed load breaks them; that is what their mutants do. A
consumer's own position and the producer's own cursor are only stored by the
thread that reads them.

*Contract.* The callers keep the module README's rules: one publication path
live at a time, one consumption path per index, no re-entry. Everything else is
free: counts, limits, alternation of paths, handles at any moment between calls.
`DropConsumer` and a later `ConsumeIndexed` model a consumer that changes path.
Moving a consumer handle renames it within its thread and changes nothing.

`MulticastStream` has two actions: a batch of `n` events is appended to every
consumer's pending list if each has room, and a consumer takes its oldest
pending event. `Disruptor` implements it (`ImplementsStream`) under a mapping
that reads the pending events of a consumer out of the *slots* between its
position and `published`: an overwritten or unwritten slot is a step the
abstract specification does not have.

### MulticastClient

The main thread and the consumer threads of the example call the actions of
`Disruptor`; `counted` and `consumed` are their local counters, `main` and
`thread` where they are. The batch of 64 is `BatchSize`, the 100,000 events are
`EventCount`; `EventCount` is no multiple of `BatchSize`, so the last batch is short.

### UdpEcho

`server` and `client` are the two threads with their counters, cut at every
point where the other thread or the network can interfere: cancellation check,
receive, echo, count on the server; send, wait, receive on the client. Note that
the server counts a request *after* it has echoed it. A datagram is abstracted
to what the checks in the code tell apart: too long, too short, bad header, bad
body, or whole with a sequence. Time is one flag: the deadline of the current
request has passed or not, and it may pass between the wait and the receive
(then the answer is late, `S:1345`). Loss happens at the send, delay is a
receive that does not see what is queued, and `Disturbances` bounds the copies,
swaps and strays. `server.messages`, CPU usage and the checksum do not influence
control and are left out.

### TcpEcho

Bytes carry their message's sequence and their offset. One step is one `send`
or `recv` that moves any number of bytes, up to what the kernel buffer
(`Buffer`, smaller than a message) has room for or holds. Buffers keep what the
last message left in them, as in the code, so a short receive is not masked.
Failing calls are steps of their own (`ServerFault`, `ClientFault`) without
fairness; only these, the watchdog included, set the history `faulty`. The
consequences of the other side's shutdown (`ServerPeerGone`, `ClientPeerGone`)
belong to the threads and leave it alone.

### StreamSockets and DatagramSockets

The capsule keeps no state between calls, so its correctness is about what a
caller can build on the results. `StreamSockets` has one sending and one
receiving caller who use them as they are meant: the sender goes on behind the
`bytes_sent` it was told, the receiver keeps the first `bytes_received` bytes of
its span and asks again. Bytes carry their place in the stream, the span is
modelled byte by byte, and one step is one `send` or `recv` with what the loop
does about it. An `EINTR` that is repeated changes nothing and is a stuttering
step; an `EINTR` or `EAGAIN` at which the stop predicate says yes returns
`stopped`. The predicate, or the deadline of an `_until` overload, is a flag
that turns TRUE during the call (`StopRequested`).

`DatagramSockets` separates `recvmsg` (`ReceiveDatagram`, `RecvmsgFails`) from
what `receive_datagram_once` and its three callers do with the errno
(`OnInterrupt`, `OnNotReady`, `OnError`), because the stop request can come
between the two. Once `recvmsg` has failed with an asynchronous error, such as
the refusal of a connected peer (`PeerRefuses`), the socket no longer has it: the
call in progress is the only one left to report it. A send of the same thread
(`SendFromHere`) may take it as well. `SendDatagram` is a peer's send; both have
the three outcomes of `send_result`: sent, an errno, or `message_size` for a
short write. The history variables `arrived` and `got` record what the kernel
queued and what `received` results handed out, `unreported` counts the
asynchronous errors that no result has carried yet. A datagram is its number: the
bytes, the size, the flags (`MSG_TRUNC` among them) and the source address that
`recvmsg` fills into a result decide nothing in these calls.

### SocketOptions

An apply is two system calls, so one step is one `setsockopt` or `getsockopt`
with what the helper does about the outcome, and several callers may work on the
same descriptor in between. The kernel may refuse, store something else
(`Adjusted`), or answer with the wrong length, and it leaves quick-ACK mode by
itself. `deviated` is a history: since this caller's `setsockopt` somebody made
the option differ from its request. `RacingAppliesAgree` is about applies whose
system calls interleave: each may read back its own value and succeed, and the
last to set the option decides; when all were told success, the socket must hold
what one of them asked for. Without the comparison after the read-back a value
that the kernel adjusted would be left that nobody knows of. An int has `2 * IntLimit` values and a
requested budget is wider, so the narrowing `static_cast` is modelled by what it
does.

### WaitStrategy

The producer and the consumer of both measurements call the actions of
`Disruptor`. `pause_count` is the member of `adaptive_spin_wait`; `idle` is a
history, the unsuccessful polls since the thread's last useful work, that
`PausesFollowIdlePolls` compares it with. In the latency measurement the producer
waits until `consumer_sequence(0)` has passed its event; that test reads a
position whose first value stands for nothing released, which is why the
warm-up of the code is longer than the ring.

### PairedPhases

The calling thread and `consumer_thread`, cut at every access to `run_control`.
Its atomics are written with release and read with acquire, each by one writer
(`failed` by either, to true only), in polling loops whose fruitless turns change
nothing: a stale read is one more such turn, so they are modelled by their latest
values. The plain fields are steps of their own, and `NoControlRace` says that
one is never accessed by both threads without a hand-over in between. Either
thread's pin may fail in any phase. Of the measured duration the validation asks
one thing, whether it is positive, so `elapsed` is 0 or 1: a phase may end before
the steady clock has advanced, the calling thread then throws and the consumer
that waits for the next phase gives up (`GiveUp`). `PhasesAreWhole` says that
this is the only way to fail validation.

### The reference queues

`SpscRing` has the memory order of `Disruptor`: a load may return any store that
coherence allows, and `NoSlotRace` says that acquired values cover the plain
accesses. A value is inside from the release of its push to its load. In
`MutexRing` locking, the accesses before the size, the change of the size (load
and store apart) and unlocking are steps, so that a missing lock would show. In
`BlockingSlot` waiting unlocks and sleeps at once, and a woken thread locks and
tests again. Each has a refinement mapping that reads the contents out of the
queue's own storage. The start gate of the benchmarks comes before and is left
out.

### AffinityGate

Launcher and JVM run concurrently. A thread of the JVM is born with its parent's
name and mask, names itself later, and may end; the launcher reads the names one
by one (`names`, `todo`), so its picture is never of one moment. It recognises
workers by name, pins them and everything else, looks again until nothing
changed, opens the gate and audits until the JVM ends. Both sides' deadlines may
pass at any time, and somebody else may once change a worker's mask
(`interfered`).

Behind the gate the workers go through `Phases` phases (`phaseNumber`): commanded,
ready, measured, halted, completed, each with the affinity checks of both
workers. A worker throws where the code can: main on its arguments, at the gate
when its time is up, in its affinity checks and when it verifies a phase
(`MainMayThrow`); the consumer at the gate, in its check and inside its processor
(`ConsumerMayThrow`). Main finds the consumer's error in the loop it waits in.
While it measures it need not: the claim policy blocking-next waits inside the
library (`RethrowWhileMeasuring` has no fairness). Left out: two launches that share a gate
path (its name is unique) and the reuse of a thread id within one listing.

## Runs

| Run | Instance | Shows |
|---|---|---|
| `disruptor` | 2 slots, 2 consumers, sequences below 8 starting at 7, batches of 0..3, limits 0, 1, 3; direct publication, both consumption paths | `TypeOK`, `NoWriteRace`, `NoReadRace`, `HandlerGetsItsEvent`, `PositionsAdvance`, `ImplementsStream` |
| `producer_handles` | 2 slots, 1 consumer, 2 handles and direct publication | `CapacityCacheSound`, `DebugStateTracksOwnership`, `ImplementsStream` |
| `multicast_client` | 4 slots, 2 consumers, 7 events in batches of 2, starting 2 before rollover | `ReturnsWithTheWholeStream`, `Terminates` |
| `udp_echo` | 1 warm-up and 2 measured requests, unconnected, 2 disturbances, failing calls | `AccountsAddUp`, `SamplesAreAnswers`, `AnomaliesAreReal`, `Terminates` |
| `tcp_echo` | 3 messages of 3 bytes, 2-byte buffers, spin watchdog, failing calls | `TypeOK`, `ThrowsOnlyOnFaults`, `Terminates` |
| `stream_sockets` | spans of 0, 1 and 3 bytes, a 2-byte kernel buffer, 4 bytes in all | `StreamIsExact`, `CloseLosesNothing`, `StreamSpinReturns` |
| `datagram_sockets` | 4 datagrams, a queue of 2, any number of asynchronous errors | `NothingSwallowed`, `ErrorsReportedOnce`, `InterruptionsHidden`, `DatagramSpinReturns` |
| `socket_options` | 2 callers, 3-bit ints, budgets of -1, 0, 2, the largest int, one more, and the two that narrowing takes to -1 and 0 | `NarrowingIsExact`, `ErrorsAreReal`, `RacingAppliesAgree` |
| `wait_strategy` | 4 slots, 10 events; 5 warm-up events and 4 samples; 2 pauses | `MeasuredHandoffsAreDirect`, `PausesFollowIdlePolls`, `Terminates` |
| `paired_phases` | 4 slots, 2 warm-ups of 2 events, 8 measured events, failing pins, a clock that may stand still | `NoControlRace`, `PhasesAreWhole`, `Terminates` |
| `spsc_ring` | 4 slots, positions below 8, 11 values | `NoSlotRace`, `ImplementsFifo`, `EndsWithChecksum` |
| `affinity_gate` | 2 workers, 1 helper thread, 2 phases; a phase may last for ever | `WorkersArePinned`, `LauncherTerminates`, `HelpersLeaveTheHotCpus` |

*Why the bounds are enough.* Two slots are the smallest ring with a batch that
crosses its end, a batch that fills it and a batch that does not fit; two
consumers are the fewest for which the blocker, the slowest consumer and the one
being scanned differ. `Wrap = 8` makes the stream go round the sequence range
and the ring many times, and the state space closes by itself: no counter is cut
off. Two producer handles suffice because the third state of interest, a
moved-from handle that outlives its successor, needs two. The theorems lift the
bounds for the safety properties. In `udp_echo` two measured requests are the
fewest for a late answer to meet a later request, two disturbances the fewest
for a copied datagram that is then swapped. In `tcp_echo` a buffer shorter than
a message forces partial sends and receives; the same holds for the span of 3 in
`stream_sockets`, whose 4 bytes are one more than a span, so that a call can be
resumed after a partial one. `datagram_sockets` fills and overflows its queue, and
a second asynchronous error can arrive while a call still holds the first. In
`socket_options` two callers are the fewest for one to set between the other's
set and get. Its budgets are a negative one, small ones, the largest int, the
value just beyond it and the last and first values before and after a full turn
of the unsigned range, which the conversion takes to -1 and 0; narrowing to the
smallest int is the case just beyond the largest.
`wait_strategy` warms up longer than its ring, as the code does. `paired_phases`
has two warm-ups, so that a phase follows one that was itself handed over, and a
measured phase twice as long as the ring. `spsc_ring` goes round its positions
more than once. The two phases of `affinity_gate` are a warm-up and the measured
one. Its one helper thread can be started by either worker, carry its name, and end between any two looks; a second one meets the
launcher in the same ways and makes the instance too large. The handles of
`producer_handles` and the callers of `socket_options` are interchangeable, so
symmetry over them is sound; no liveness is checked in these runs.

What must hold when a program ends is part of its termination property, and has
a name of its own under which it is proved: `UdpEcho` and `TcpEcho` end with
their server joined (`NoThreadLeftBehind`), `PairedPhases` with the result of the
measured phase or an exception (`ReturnsTheMeasuredPhase`), `WaitStrategy` and
`SpscRing` with the sum of all events (`ChecksumIsExact`), and the launcher of
`AffinityGate` never before its JVM (`NoJvmLeftBehind`).

`MutexRing` and `BlockingSlot` have no run: their safety is proved for every size,
and that their loops end is not claimed (the mutex ring's end only if the mutex is
granted fairly, which nothing in the code ensures).

*Deadlock* is checked in every run; the programs that end do so in an explicit
final stuttering step.

*Fairness.* `MulticastClient`: weak fairness of each thread (the operating
system runs them; each loop is a poll that never blocks) and of the visibility
of stores (the C++ standard asks that stores become visible in finite time).
`UdpEcho`: weak fairness of both threads and of time. `TcpEcho`: weak fairness
of both threads; a blocked `recv` or `send` is a disabled step. `StreamSockets` and
`DatagramSockets`: weak fairness of the receiving thread and of the stop request
(a deadline passes; a caller that never asks to stop is not promised a return).
`WaitStrategy`, `PairedPhases` and `SpscRing`: weak fairness of each thread and of
the visibility of stores. `AffinityGate`: weak fairness of the launcher, of the
signal that kills the JVM, of the deadline, and of the workers except for the end
of a phase, which may never come; helpers need not do anything.
No call is ever assumed to fail, and the watchdog is not assumed to fire.

## Proofs

`DisruptorProofs` proves, for every `Capacity`, `ConsumerCount`, `Wrap`, set of
handles and set of counts that satisfy the assumptions of `Disruptor`:

| Theorem | States |
|---|---|
| `TypeCorrect` | `Spec => []TypeOK` |
| `CapacityCacheCorrect` | `Spec => []CapacityCacheSound` |
| `DebugAssertsHold` | `Spec => []DebugStateTracksOwnership` |
| `WritesDoNotRace` | `Spec => []NoWriteRace` |
| `ReadsDoNotRace` | `Spec => []NoReadRace` |
| `HandlersGetTheirEvents` | `Spec => []HandlerGetsItsEvent` |
| `PositionsOnlyAdvance` | `Spec => PositionsAdvance` |
| `DisruptorIsAStream` | `Spec => ImplementsStream` |

*Assumptions.* `Capacity` and `ConsumerCount` are positive; `Wrap` is a multiple
of `Capacity` and more than twice as large. The code's static assertions give
more (a power of two that divides 2^64 and is at most half of it). Owner and
handles are distinct, and a blank event is no sequence.

*Argument.* None of these properties is inductive alone. The invariant `IInv`
adds, for every consumer and modulo `Wrap`, the order in which the five
knowledges about one stream stand:

    ackAcquired[c]  <=  each value in ackView[c]  <=  consumers[c]
        <=  what c is reading or has cached  <=  pubAcquired[c]
        <=  each value in pubView[c]  <=  published

all within `Capacity` of each other (`AckOrder`, `PubOrder`, `ConsumerInv`),
that the call in progress has looked at exactly the consumers before its index
and remembers the greatest lag (`CallInv`), that exactly one path owns the
producer state (`OneOwner`), and that every slot between a consumer and the
writer's position holds its sequence (`RingInv`). Distances are measured from a
fixed end (`Sub`), so the order survives rollover; the module starts with the
modular facts, among them that two sequences less than `Capacity` apart have
different slots and that both ways of finding a slot agree. `Invariance` proves
that `IInv` is kept, one step per action.

*Refinement.* A step of `Disruptor` maps to a step of `MulticastStream` at two
places only: `Publish` appends the batch, `HandleEvent` takes an event. With
`RingInv` the mapped pending list is the run of sequences between a consumer's
position and `published`, so a publication has to append exactly its batch and
every other step has to leave all lists alone, `WriteEvent` included.

The theorems about the other modules:

| Proof module | Theorem | States |
|---|---|---|
| `MulticastClientProofs` | `ClientInvariance` | `ClientSpec => []ClientInv` |
| | `EveryoneGetsTheStream` | `ClientSpec => []ReturnsWithTheWholeStream` |
| `WaitStrategyProofs` | `WaitInvariance` | `ClientSpec => []WaitInv` |
| | `SamplesAreDirectHandoffs` | `ClientSpec => []MeasuredHandoffsAreDirect` |
| | `PausesAreOfThisPeriod` | `ClientSpec => []PausesFollowIdlePolls` |
| | `EveryEventIsSummed` | `ClientSpec => []ChecksumIsExact` |
| `PairedComparisonProofs` | `PhasesInvariance` | `PhasesSpec => []PhasesInv` |
| | `ControlIsHandedOver` | `PhasesSpec => []NoControlRace` |
| | `PhasesDoNotOverlap` | `PhasesSpec => []PhasesAreWhole` |
| | `ResultIsTheMeasuredPhase` | `PhasesSpec => []ReturnsTheMeasuredPhase` |
| | `GateInvariance` | `GateSpec => []GateInv` |
| | `OpenGateMeansPinned` | `GateSpec => []WorkersArePinned` |
| | `LauncherReapsItsJvm` | `GateSpec => []NoJvmLeftBehind` |
| `UdpEchoProofs` | `UdpInvariance` | `Spec => []UdpInv` |
| | `UdpAccounts` | `Spec => []AccountsAddUp` |
| | `UdpSamples` | `Spec => []SamplesAreAnswers` |
| | `UdpAnomalies` | `Spec => []AnomaliesAreReal` |
| | `UdpJoinsItsServer` | `Spec => []NoThreadLeftBehind` |
| `TcpEchoProofs` | `TcpInvariance` | `Spec => []TcpInv` |
| | `TcpBuffersAreKept` | `Spec => []TypeOK` |
| | `TcpRaisesNoFalseAlarm` | `Spec => []ThrowsOnlyOnFaults` |
| | `TcpJoinsItsServer` | `Spec => []NoThreadLeftBehind` |
| `SocketProofs` | `StreamInvariance` | `StreamSpec => []StreamInv` |
| | `StreamExact` | `StreamSpec => []StreamIsExact` |
| | `PeerClosedIsFinal` | `StreamSpec => []CloseLosesNothing` |
| | `DatagramInvariance` | `DatagramSpec => []DatagramInv` |
| | `DatagramsAreDelivered` | `DatagramSpec => []NothingSwallowed` |
| | `AsynchronousErrorsAreReported` | `DatagramSpec => []ErrorsReportedOnce` |
| | `InterruptionsAreHidden` | `DatagramSpec => []InterruptionsHidden` |
| | `TypeCorrect` | `Spec => []TypeOK` |
| | `NarrowingKeepsTheRequest` | `Spec => []NarrowingIsExact` |
| | `ProtocolErrorsAreReal` | `Spec => []ErrorsAreReal` |
| | `BudgetsAreNeverNegative` | `Spec => []BudgetsAreDurations` |
| | `ApplierIsObeyed` | `Spec => []RacingAppliesAgree` |
| `BenchmarkQueuesProofs` | `SlotsDoNotRace` | `Spec => []NoSlotRace` |
| | `RingIsAFifo` | `Spec => ImplementsFifo` |
| | `RingSumsEveryValue` | `Spec => []ChecksumIsExact` |
| | `MutexRingIsAFifo` | `MutexSpec => RingImplementsFifo` |
| | `WakeupsAreNotLost` | `SlotSpec => []NoLostWakeup` |
| | `SlotIsAFifo` | `SlotSpec => SlotImplementsFifo` |

*MulticastClient* assumes a batch that fits the ring (`ClientAssumption`); the
stream may be longer than the sequence range. Every step of the program is one of
the disruptor's, so `IInv` carries over and with it that the program keeps the
contract. On top, `CountsAddUp` says that what a thread has consumed and what the
ring still holds for it is what the main thread has counted, and
`WithinTheStream` that a call never asks for more than remains.

*WaitStrategy* assumes, as the program's constants do, one consumer that starts
at 0, a stream that does not roll over, and a warm-up longer than the ring
(`ScenarioAssumption`). The last one carries the hand-off: before anything is
released `consumer_sequence(0)` is UINT64_MAX, so the loop's test is true for any
event; `HandedOff` says that this lets an event through unreleased only while
nothing has been released, that is within the first `Capacity` events, all of
which are warm-up. `SumInv` relates the consumer's count and sum to its position.

*PairedPhases* assumes what `parse_arguments` accepts (`SettingsAssumption`).
`ControlInv` is the protocol: by where the two threads are it bounds how far
`commanded_phase`, `ready_phase` and `completed_phase` are apart, and says who
has failed and what is left to rethrow. `StreamInv` lays the phases out in the
stream: phase `p` starts at `(p - 1) * WarmupEvents`, the ring holds events of the
current phase only, and the consumer's measurement is that of the events it has
handled, checksum included, so that of the four tests of the validation only
that of the duration can fail. The proof shows that `completed_phase` alone keeps the
phases apart; the producer's test of the consumer position in `Drain` is not
needed for it. `EndInv` adds that a join without an error follows a completed last
phase.

*AffinityGate* holds for every set of helper threads (`CpuAssumption`: the CPUs
differ and housekeeping has one). `GateInv` says which names a thread can have by
how far the workers are (`WhoIsCalledWhat`: a helper born of a worker carries the
worker's name for a while), that a second reading finds the workers under their
own names (`ReadAgain`), and that the picked threads are therefore the workers and
were found in their places before the gate was opened (`PinnedThen`).

*UdpEcho* holds for any number of requests and of disturbances and any strays
from elsewhere (`UdpAssumption`). `UdpInv` has unconditional parts (`Places`,
`Answers`: an answer was echoed by the server and is counted unless the server
fails; `InOrder`; `Highs`) and three that hold as long as the network behaves in
one way: without strays only this run's messages are around (`OwnTraffic`),
without strays and copies every request is in one place at a time (`Once`), without
strays and swaps everything is in request order (`Ordered`). A counted anomaly
then contradicts one of them, so the network did misbehave.

*TcpEcho* assumes a positive message and buffer size (`TcpAssumption`). As long as
nothing is `faulty` both threads are in lockstep: in the same exchange, or the
server has counted it and waits, or the client has validated an echo that the
server has not counted yet. In each the bytes on the wire are the piece of the
message in flight (`IsPiece`) between what the receiver has and what the sender
has sent, and the buffers' prefixes hold that message, whatever the previous one
left behind them. Only then can a validation or a shutdown not throw.

*StreamSockets*: the bytes handed out, held in the span and on the wire, one after
the other, are the bytes the sender was told were accepted, in order
(`StreamInv`); and nothing is on the wire once `peer_closed` was reported.
*DatagramSockets*: a call in progress carries no error yet (`DatagramInv`), so an
asynchronous error it has taken is still counted in `unreported`, and whichever
way it returns then carries it. Both hold for all sizes (`StreamAssumption`,
`DatagramAssumption`).

*SocketOptions* assumes an int of at least two bits, integer budgets, and a
kernel that stores ints. `IInv` adds that a helper in progress has no error yet,
that a request which will be read back is not negative, and that a caller whose
option differs from its request already has `deviated` set; every
`setsockopt` has to establish that for the other callers too. It assumes at least
one caller. `AppliesInv` extends `RacingAppliesAgree` to callers between their two
system calls: whoever moved last has its read-back still to come or has just found
what it requested.

*SpscRing* assumes that the capacity divides the range of the positions and that
the range exceeds the capacity by more than one; with `Capacity + 1 = Wrap` the
test for a full ring would compute 0. `IInv` orders the knowledge of both
threads as in the disruptor, each side measured from the end that the other
thread moves. The refinement needs that slots less than `Capacity` apart differ
(`SlotsDiffer`) and that a stored value waits in its slot (`StoredInv`). On the
refinement rests the sum: the values inside are consecutive, so each value that
comes out is the number of those before it (`SumInv`).

*MutexRing*: the theorem assumes a positive capacity (`SizeAssumption`). Its
invariant says that whoever is inside a method holds the mutex, that `size_` is
the difference of completed calls and still equal to the register of the thread
about to change it, and that the indices are as far apart as there are values
inside. Up to one lap a remainder is a comparison (`RemainderIsRound`), which makes the
rest linear.

*BlockingSlot* needs only that a sleeper is at its lock: then a notification
leaves nobody asleep.

*Only model-checked.* Liveness: the eventual part of `Terminates` and
`LauncherTerminates`, `HelpersLeaveTheHotCpus`, `StreamSpinReturns`,
`DatagramSpinReturns` and `EndsWithChecksum`. They rest on fairness and ENABLED,
which TLAPS does not support. Every other property of the runs has a theorem.

## Not modelled

* The values of timestamps, CPU usage, percentiles and CSV rows, and the choice of
  CPUs. Of a duration only its sign is modelled, where a validation tests it.
* What a datagram result says of its datagram beyond that there is one.
* Failures the code's contract excludes: two publication paths at once,
  callbacks that throw, destruction while threads run.
* A readable poll followed by a blocking `recvmsg` that finds nothing (`S:536`):
  Linux checks the checksum of a datagram before it reports a blocking UDP socket
  readable, and the server alone reads its socket, so the datagram is there.
* The latency loop of the paired comparison, which is the hand-off of
  `WaitStrategy`, and the disruptor's own loops in its benchmarks, which are those
  of `MulticastClient` with other batch sizes.
* The LMAX ring of the Java comparison, an external library.
* The socket-latency driver (`S`, `main` and its helpers): one thread that checks
  options, orders the workloads and prints rows, each a function of one call.
* The benchmark runners and the summary scripts: one process after the other, then
  pure functions of text files.
* `lls-info`, `compiler_info.hpp`, CMake: facts chosen by the preprocessor.

## Plan

1. Done: `MulticastStream`, `Disruptor`, `MulticastClient` and their theorems, the
   two latency workloads, the socket capsule with its options,
   the wait strategies, the reference queues with their refinement proofs, the
   paired phases, the affinity launcher.
2. Done: theorems for every safety invariant, action property and refinement
   that a run checks, and for the safety half of every termination property.
3. An abstract byte stream that `StreamSockets` and `TcpEcho` both implement, so
   that the exact-length loops are verified once for both.
4. The sum that the mutex ring and the blocking slot deliver, as for `SpscRing`.
