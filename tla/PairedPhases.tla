----------------------------- MODULE PairedPhases -----------------------------
(***************************************************************************)
(* run_all_phases of benchmarks/comparisons/disruptor/cpp/                 *)
(* paired_benchmark.cpp: one producer and one consumer run WarmupRuns      *)
(* warm-up phases and a measured one over a retained disruptor, handing    *)
(* the phases to each other through the atomics and the plain fields of    *)
(* run_control.  Each thread pins itself again in every phase, and a pin   *)
(* that fails throws.  The disruptor is the module Disruptor, step for     *)
(* step.                                                                   *)
(*                                                                         *)
(* The atomics are read with acquire and written with release, each flag   *)
(* by one thread (failed by either, to TRUE only), and read in polling     *)
(* loops whose fruitless turns change nothing, so a stale read is one more *)
(* such turn; they are modelled by their latest values.  Accesses to the   *)
(* plain fields are steps of their own.                                    *)
(***************************************************************************)
EXTENDS Disruptor

CONSTANTS WarmupRuns,
          WarmupEvents,     \* settings.warmup_events
          Events,           \* settings.events
          ProducerBatch,
          DrainLimit,
          Producer          \* the producer handle

\* The one consumer of the ring.
Reader == 0

TotalPhases == WarmupRuns + 1

\* What parse_arguments accepts: whole batches, positions that do not wrap.
ASSUME SettingsAssumption ==
    /\ ConsumerCount = 1 /\ InitialPositions = {0}
    /\ WarmupRuns \in Nat
    /\ ProducerBatch \in 1..Capacity /\ DrainLimit \in 1..Capacity
    /\ WarmupEvents \in Nat \ {0} /\ WarmupEvents % ProducerBatch = 0
    /\ Events \in Nat \ {0} /\ Events % ProducerBatch = 0
    /\ WarmupRuns * WarmupEvents + Events < Wrap
    /\ Producer \in Handles

VARIABLES
    commanded_phase, ready_phase, completed_phase, failed,      \* atomics
    phase_event_count, phase_measurement, consumer_error,       \* plain
    producer,   \* where the calling thread is
    phase,      \* its loop index
    posted,     \* its local published
    final,      \* its final_consumer_position
    elapsed,    \* end_ns - begin_ns: 0 when the clock has not advanced
    thrown,     \* what it has caught: "none", "pin", "validation", "consumer"
    consumer,   \* where consumer_thread is
    turn,       \* its loop index
    current     \* its measurement: first_sequence, event_count, result

control      == <<commanded_phase, ready_phase, completed_phase, failed>>
plain        == <<phase_event_count, phase_measurement, consumer_error>>
producerSide == <<producer, phase, posted, final, elapsed, thrown>>
consumerSide == <<consumer, turn, current>>
allVars      == <<vars, control, plain, producerSide, consumerSide>>

NoResult == [first_sequence |-> 0, event_count |-> 0, consumed |-> 0,
             checksum |-> 0, mismatch |-> FALSE]

PhasesInit ==
    /\ Init
    /\ commanded_phase = 0 /\ ready_phase = 0 /\ completed_phase = 0
    /\ failed = FALSE
    /\ phase_event_count = 0 /\ phase_measurement = NoResult
    /\ consumer_error = FALSE
    /\ producer = "new" /\ phase = 1 /\ posted = 0 /\ final = 0
    /\ elapsed = 0 /\ thrown = "none"
    /\ consumer = "new" /\ turn = 1 /\ current = NoResult

Mul(x, y) == (x * y) % Wrap

\* Mutant: the product is halved after it may have wrapped.
MultipliesFirst(count) == Mul(count, count - 1) \div 2

\* expected_checksum: the triangular sum modulo 2^64, halved before the product.
ExpectedChecksum(count) ==
    IF count % 2 = 0 THEN Mul(count \div 2, count - 1)
                     ELSE Mul(count, (count - 1) \div 2)

EventCount == IF phase = TotalPhases THEN Events ELSE WarmupEvents

------------------------------------------------------------------------------
(* The calling thread.                                                     *)

At(from, to) == producer = from /\ producer' = to

MakeHandle ==
    /\ At("new", "count")
    /\ MakeProducer(Producer)
    /\ UNCHANGED <<control, plain, phase, posted, final, elapsed, thrown,
                   consumerSide>>

\* control.phase_event_count = event_count
SetEventCount ==
    /\ At("count", "command")
    /\ phase_event_count' = EventCount
    /\ UNCHANGED <<vars, control, phase_measurement, consumer_error,
                   phase, posted, final, elapsed, thrown, consumerSide>>

Command ==
    /\ At("command", "ready")
    /\ commanded_phase' = phase
    /\ UNCHANGED <<vars, ready_phase, completed_phase, failed, plain,
                   phase, posted, final, elapsed, thrown, consumerSide>>

SeeReady ==
    /\ At("ready", "pin")
    /\ ready_phase = phase
    /\ UNCHANGED <<vars, control, plain, phase, posted, final, elapsed, thrown,
                   consumerSide>>

Pin ==
    /\ At("pin", "publish")
    /\ posted' = 0
    /\ final' = Add(published, EventCount)
    /\ UNCHANGED <<vars, control, plain, phase, elapsed, thrown, consumerSide>>

PinThrows ==
    /\ At("pin", "catch")
    /\ thrown' = "pin"
    /\ UNCHANGED <<vars, control, plain, phase, posted, final, elapsed,
                   consumerSide>>

TryPublish ==
    /\ producer = "publish" /\ posted < EventCount
    /\ TryPublishBatch(Producer, ProducerBatch)
    /\ UNCHANGED <<control, plain, producerSide, consumerSide>>

\* Inside try_publish_batch; after a rejection failed is looked at.
InsideTryPublish ==
    /\ CheckBlocker \/ ScanConsumer \/ FinishRefresh \/ WriteEvent
    /\ producer' = IF call'.pc = "idle" THEN "rejected" ELSE producer
    /\ UNCHANGED <<control, plain, phase, posted, final, elapsed, thrown,
                   consumerSide>>

Retry ==
    /\ At("rejected", "publish")
    /\ ~failed
    /\ UNCHANGED <<vars, control, plain, phase, posted, final, elapsed, thrown,
                   consumerSide>>

Published ==
    /\ Publish
    /\ posted' = posted + ProducerBatch
    /\ UNCHANGED <<control, plain, producer, phase, final, elapsed, thrown,
                   consumerSide>>

AllPublished ==
    /\ At("publish", "drain")
    /\ call.pc = "idle" /\ posted >= EventCount
    /\ UNCHANGED <<vars, control, plain, phase, posted, final, elapsed, thrown,
                   consumerSide>>

\* Mutant: the measurement is taken as soon as the last position is released.
DrainSkipsCompleted ==
    /\ producer = "drain"
    /\ \E v \in ackView[Reader] :
        /\ AcquireConsumer(Reader, v)
        /\ \/ v < final /\ UNCHANGED <<producer, elapsed>>
           \/ v >= final /\ producer' = "validate" /\ elapsed' \in {0, 1}
    /\ UNCHANGED <<events, producerVars, consumerVars, pubVars, control, plain,
                   phase, posted, final, thrown, consumerSide>>

\* while (stream.consumer_position(0) < final_consumer_position); then end_ns.
\* A short phase may end before the steady clock has advanced.
Drain ==
    /\ producer = "drain"
    /\ \E v \in ackView[Reader] :
        /\ AcquireConsumer(Reader, v)
        /\ \/ v < final /\ UNCHANGED <<producer, elapsed>>
           \/ v >= final /\ producer' = "completed" /\ elapsed' \in {0, 1}
    /\ UNCHANGED <<events, producerVars, consumerVars, pubVars, control, plain,
                   phase, posted, final, thrown, consumerSide>>

SeeCompleted ==
    /\ At("completed", "validate")
    /\ completed_phase = phase
    /\ UNCHANGED <<vars, control, plain, phase, posted, final, elapsed, thrown,
                   consumerSide>>

Valid(result) == /\ elapsed > 0
                 /\ result.consumed = EventCount
                 /\ result.checksum = ExpectedChecksum(EventCount)
                 /\ ~result.mismatch

\* auto current = control.phase_measurement, and its validation.
Validate ==
    /\ producer = "validate"
    /\ IF ~Valid(phase_measurement)
         THEN producer' = "catch" /\ thrown' = "validation" /\ UNCHANGED phase
         ELSE /\ UNCHANGED thrown
              /\ IF phase = TotalPhases
                   THEN producer' = "join" /\ UNCHANGED phase
                   ELSE producer' = "count" /\ phase' = phase + 1
    /\ UNCHANGED <<vars, control, plain, posted, final, elapsed, consumerSide>>

\* A turn of one of the four polling loops that sees failed.
Rethrow ==
    /\ producer \in {"ready", "rejected", "drain", "completed"}
    /\ producer = "ready" => ready_phase # phase
    /\ producer = "completed" => completed_phase # phase
    /\ failed
    /\ producer' = "catch" /\ thrown' = "consumer"
    /\ UNCHANGED <<vars, control, plain, phase, posted, final, elapsed,
                   consumerSide>>

\* Mutant: the handler joins without telling the consumer.
CatchSilently ==
    /\ At("catch", "join")
    /\ UNCHANGED <<vars, control, plain, phase, posted, final, elapsed, thrown,
                   consumerSide>>

Catch ==
    /\ At("catch", "join")
    /\ failed' = TRUE
    /\ UNCHANGED <<vars, commanded_phase, ready_phase, completed_phase, plain,
                   phase, posted, final, elapsed, thrown, consumerSide>>

\* consumer_thread.join(); then rethrow, or return measured.
Join ==
    /\ producer = "join"
    /\ consumer = "returned"
    /\ DestroyProducer(Producer)
    /\ producer' = IF thrown # "none" \/ consumer_error THEN "threw" ELSE "returned"
    /\ UNCHANGED <<control, plain, phase, posted, final, elapsed, thrown,
                   consumerSide>>

CallingThread ==
    \/ MakeHandle \/ SetEventCount \/ Command \/ SeeReady \/ Pin
    \/ TryPublish \/ InsideTryPublish \/ Retry \/ Published \/ AllPublished
    \/ Drain \/ SeeCompleted \/ Validate \/ Rethrow \/ Catch \/ Join

------------------------------------------------------------------------------
(* consumer_thread.                                                        *)

Goes(from, to) == consumer = from /\ consumer' = to

MakeItsHandle ==
    /\ Goes("new", "waiting")
    /\ producer # "new"
    /\ MakeConsumer(Reader)
    /\ UNCHANGED <<control, plain, producerSide, turn, current>>

SeeCommand ==
    /\ Goes("waiting", "pin")
    /\ commanded_phase = turn
    /\ UNCHANGED <<vars, control, plain, producerSide, turn, current>>

ConsumerPins ==
    /\ Goes("pin", "read")
    /\ UNCHANGED <<vars, control, plain, producerSide, turn, current>>

\* first_sequence and the plain phase_event_count.
ReadPhase ==
    /\ Goes("read", "ready")
    /\ current' = [NoResult EXCEPT !.first_sequence = chandle[Reader].next,
                                   !.event_count = phase_event_count]
    /\ UNCHANGED <<vars, control, plain, producerSide, turn>>

TellReady ==
    /\ Goes("ready", "consume")
    /\ ready_phase' = turn
    /\ UNCHANGED <<vars, commanded_phase, completed_phase, failed, plain,
                   producerSide, turn, current>>

Consume ==
    /\ consumer = "consume" /\ current.consumed < current.event_count
    /\ ConsumeCached(Reader, DrainLimit) \/ ConsumeReloading(Reader, DrainLimit)
    /\ consumer' = IF take'[Reader].reading THEN consumer ELSE "empty"
    /\ UNCHANGED <<control, plain, producerSide, turn, current>>

PollAgain ==
    /\ Goes("empty", "consume")
    /\ ~failed
    /\ UNCHANGED <<vars, control, plain, producerSide, turn, current>>

\* The handler.  The writer stores the place of the event within its phase.
Handle ==
    LET t == take[Reader]
        sequence == Add(t.first, t.index)
        value == Sub(events[ConsumeSlot(Reader)], Sub(final, EventCount))
    IN  /\ HandleEvent(Reader)
        /\ current' = [current EXCEPT
                !.consumed = @ + 1,
                !.checksum = Add(@, value),
                !.mismatch = \/ @
                             \/ value # current.consumed
                             \/ sequence # Add(current.first_sequence,
                                               current.consumed)]
        /\ UNCHANGED <<control, plain, producerSide, consumer, turn>>

Consumed ==
    /\ Release(Reader)
    /\ UNCHANGED <<control, plain, producerSide, consumerSide>>

ConsumedAll ==
    /\ Goes("consume", "store")
    /\ ~take[Reader].reading
    /\ current.consumed >= current.event_count
    /\ UNCHANGED <<vars, control, plain, producerSide, turn, current>>

\* control.phase_measurement = current
StoreMeasurement ==
    /\ Goes("store", "report")
    /\ phase_measurement' = current
    /\ UNCHANGED <<vars, control, phase_event_count, consumer_error,
                   producerSide,
                   turn, current>>

TellCompleted ==
    /\ consumer = "report"
    /\ completed_phase' = turn
    /\ IF turn = TotalPhases
         THEN consumer' = "leave" /\ UNCHANGED turn
         ELSE consumer' = "waiting" /\ turn' = turn + 1
    /\ UNCHANGED <<vars, commanded_phase, ready_phase, failed, plain,
                   producerSide, current>>

\* A turn of one of its two polling loops that sees failed.
GiveUp ==
    /\ Goes(consumer, "leave")
    /\ consumer = "empty" \/ (consumer = "waiting" /\ commanded_phase # turn)
    /\ failed
    /\ UNCHANGED <<vars, control, plain, producerSide, turn, current>>

ConsumerPinThrows ==
    /\ Goes("pin", "throw")
    /\ UNCHANGED <<vars, control, plain, producerSide, turn, current>>

\* consumer_error = std::current_exception()
StoreError ==
    /\ Goes("throw", "fail")
    /\ consumer_error' = TRUE
    /\ UNCHANGED <<vars, control, phase_event_count, phase_measurement,
                   producerSide, turn, current>>

TellFailed ==
    /\ Goes("fail", "leave")
    /\ failed' = TRUE
    /\ UNCHANGED <<vars, commanded_phase, ready_phase, completed_phase, plain,
                   producerSide, turn, current>>

\* The consumer handle goes out of scope and the thread ends.
Leave ==
    /\ Goes("leave", "returned")
    /\ DropConsumer(Reader)
    /\ UNCHANGED <<control, plain, producerSide, turn, current>>

ConsumerThread ==
    \/ MakeItsHandle \/ SeeCommand \/ ConsumerPins \/ ReadPhase \/ TellReady
    \/ Consume \/ PollAgain \/ Handle \/ Consumed \/ ConsumedAll
    \/ StoreMeasurement \/ TellCompleted \/ GiveUp \/ StoreError \/ TellFailed
    \/ Leave

Memory == /\ PublishedPropagates(Reader) \/ ReleasePropagates(Reader)
          /\ UNCHANGED <<control, plain, producerSide, consumerSide>>

Ended == producer \in {"returned", "threw"} /\ UNCHANGED allVars

PhasesNext == \/ CallingThread \/ ConsumerThread \/ Memory
              \/ PinThrows \/ ConsumerPinThrows
              \/ Ended

\* Both threads run on, stores become visible; no pin has to fail.
Fairness == /\ WF_allVars(CallingThread) /\ WF_allVars(ConsumerThread)
            /\ WF_allVars(Memory)

PhasesSpec == PhasesInit /\ [][PhasesNext]_allVars /\ Fairness

------------------------------------------------------------------------------
\* The plain fields of run_control are never accessed by both threads at once:
\* commanded_phase hands phase_event_count over, completed_phase hands
\* phase_measurement over, in every phase and whoever fails.  A thread that sees
\* failed finds an exception to rethrow: rethrow_exception of a null
\* consumer_error would be undefined.
NoControlRace ==
    /\ producer = "count" => consumer # "read"
    /\ producer = "validate" => consumer # "store"
    /\ consumer = "throw" => ~failed
    /\ thrown = "consumer" => consumer_error

\* Phases do not overlap: a phase is commanded only when the consumer has
\* released all events of the one before.  So the copy of phase_measurement that
\* is validated always has the whole phase's count, order and checksum, the
\* checksum's wrap-around included: a phase fails validation only for a clock
\* that did not advance in it.
PhasesAreWhole ==
    /\ thrown = "validation" => elapsed = 0
    /\ producer \in {"count", "command", "ready", "pin"} =>
          consumers[Reader] = published /\ ~take[Reader].reading

\* A measurement is returned only when nothing failed, and it is the measured
\* phase's own, not what a warm-up left behind.
ReturnsTheMeasuredPhase ==
    producer = "returned" =>
        /\ ~failed /\ ~consumer_error
        /\ phase_measurement.event_count = Events
        /\ phase_measurement.first_sequence = WarmupRuns * WarmupEvents

\* Whichever thread fails in whichever phase, the other notices, the consumer is
\* joined and the call ends, with that measurement or an exception.
Terminates == /\ []ReturnsTheMeasuredPhase
              /\ <>(producer \in {"returned", "threw"})
==============================================================================
