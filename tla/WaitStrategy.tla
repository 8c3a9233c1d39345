----------------------------- MODULE WaitStrategy -----------------------------
(***************************************************************************)
(* benchmarks/scenarios/wait_strategy.cpp: a producer and one consumer     *)
(* over a disruptor, each backing off with an adaptive_spin_wait when a    *)
(* poll has found nothing.  measure_throughput publishes as fast as it     *)
(* can; measure_latency waits after each event until the consumer has      *)
(* released it.  The disruptor is the module Disruptor, step for step;     *)
(* busy_spin_wait and yield_wait keep no state and are not told apart.     *)
(***************************************************************************)
EXTENDS Disruptor

CONSTANTS EventCount,    \* event_count of the throughput measurement
          WarmupCount,   \* warmup_count and
          SampleCount,   \* sample_count of the latency measurement
          PauseLimit

Threads == {"producer", "consumer"}

\* The one consumer of the ring.
Reader == 0

\* Positions start at zero and none is used twice, as far as 2^64 reaches; the
\* warm-up is longer than the ring (10'000 against 1024).
ASSUME ScenarioAssumption ==
    /\ ConsumerCount = 1 /\ InitialPositions = {0}
    /\ EventCount \in 1..(Wrap - 1)
    /\ WarmupCount \in Nat /\ WarmupCount > Capacity /\ SampleCount \in Nat
    /\ WarmupCount + SampleCount < Wrap
    /\ PauseLimit \in Nat \ {0}

VARIABLES measuring,    \* "throughput" or "latency"
          start,        \* the start gate
          producer,     \* "new", "publishing", "handoff", "joined"
          consumer,     \* "waiting", "polling", "returned"
          sequence,     \* events the producer's loop is done with
          consumed,     \* the consumer's local count
          checksum,     \* sum of the values the handler was given
          pause_count,  \* per thread: pause_count_ of its wait strategy
          idle          \* per thread, history: unsuccessful polls since its last
                        \* useful work, counted up to PauseLimit

clientVars == <<measuring, start, producer, consumer, sequence, consumed,
                checksum, pause_count, idle>>
allVars == <<vars, clientVars>>

Total == IF measuring = "throughput" THEN EventCount ELSE WarmupCount + SampleCount

ClientInit ==
    /\ Init
    /\ measuring \in {"throughput", "latency"}
    /\ start = FALSE
    /\ producer = "new" /\ consumer = "waiting"
    /\ sequence = 0 /\ consumed = 0 /\ checksum = 0
    /\ pause_count = [t \in Threads |-> 0]
    /\ idle = [t \in Threads |-> 0]

------------------------------------------------------------------------------
(* adaptive_spin_wait.                                                     *)

\* wait(): pause and count up to PauseLimit, then yield without counting.
Wait(t) ==
    /\ pause_count' = [pause_count EXCEPT ![t] = IF @ < PauseLimit THEN @ + 1 ELSE @]
    /\ idle' = [idle EXCEPT ![t] = IF @ < PauseLimit THEN @ + 1 ELSE @]

Reset(t) == pause_count' = [pause_count EXCEPT ![t] = 0]

Useful(t) == idle' = [idle EXCEPT ![t] = 0]

------------------------------------------------------------------------------
(* The producer, which is the thread that called measure_....              *)

OpenGate ==
    /\ producer = "new"
    /\ start' = TRUE
    /\ producer' = "publishing"
    /\ UNCHANGED <<vars, measuring, consumer, sequence, consumed, checksum,
                   pause_count, idle>>

\* try_publish is a batch of one.
TryPublish ==
    /\ producer = "publishing" /\ sequence < Total
    /\ TryPublishBatch(Owner, 1)
    /\ UNCHANGED clientVars

\* Inside try_publish; a rejection returns FALSE and the producer waits.
InsideTryPublish ==
    /\ CheckBlocker \/ ScanConsumer \/ FinishRefresh \/ WriteEvent
    /\ IF call'.pc = "idle" THEN Wait("producer") ELSE UNCHANGED <<pause_count, idle>>
    /\ UNCHANGED <<measuring, start, producer, consumer, sequence, consumed, checksum>>

\* try_publish returns TRUE.
Published ==
    /\ Publish
    /\ Reset("producer") /\ Useful("producer")
    /\ IF measuring = "latency"
         THEN producer' = "handoff" /\ UNCHANGED sequence
         ELSE sequence' = sequence + 1 /\ UNCHANGED producer
    /\ UNCHANGED <<measuring, start, consumer, consumed, checksum>>

\* consumer_sequence(0): UINT64_MAX before the first release.
ConsumerSequence(v) == Sub(v, 1)

\* Mutant: the loop waits for the predecessor of the event.
AwaitsPredecessor(v) == ConsumerSequence(v) + 1 < sequence

\* Mutant: the loop waits for one event more than was published.
AwaitsSuccessor(v) == ConsumerSequence(v) <= sequence

NotReleased(v) == ConsumerSequence(v) < sequence

\* Mutant: the strategy is not reset after the hand-off.
HandoffWithoutReset ==
    /\ producer = "handoff"
    /\ \E v \in ackView[Reader] :
        /\ AcquireConsumer(Reader, v)
        /\ IF NotReleased(v)
             THEN Wait("producer") /\ UNCHANGED <<producer, sequence>>
             ELSE /\ Useful("producer")
                  /\ producer' = "publishing" /\ sequence' = sequence + 1
                  /\ UNCHANGED pause_count
    /\ UNCHANGED <<events, producerVars, consumerVars, pubVars,
                   measuring, start, consumer, consumed, checksum>>

\* One turn of the hand-off loop of measure_latency.
Handoff ==
    /\ producer = "handoff"
    /\ \E v \in ackView[Reader] :
        /\ AcquireConsumer(Reader, v)
        /\ IF NotReleased(v)
             THEN Wait("producer") /\ UNCHANGED <<producer, sequence>>
             ELSE /\ Reset("producer") /\ Useful("producer")
                  /\ producer' = "publishing" /\ sequence' = sequence + 1
    /\ UNCHANGED <<events, producerVars, consumerVars, pubVars,
                   measuring, start, consumer, consumed, checksum>>

Join ==
    /\ producer = "publishing" /\ sequence = Total
    /\ consumer = "returned"
    /\ producer' = "joined"
    /\ UNCHANGED <<vars, measuring, start, consumer, sequence, consumed, checksum,
                   pause_count, idle>>

ProducerThread == \/ OpenGate \/ TryPublish \/ InsideTryPublish \/ Published
                  \/ Handoff \/ Join

------------------------------------------------------------------------------
(* The consumer.                                                           *)

AwaitGate ==
    /\ consumer = "waiting"
    /\ IF start THEN /\ Reset("consumer") /\ Useful("consumer")
                     /\ consumer' = "polling"
                ELSE Wait("consumer") /\ UNCHANGED consumer
    /\ UNCHANGED <<vars, measuring, start, producer, sequence, consumed, checksum>>

PollOn == consumed < Total

\* try_consume(0): at most one event, or the consumer waits.
Poll ==
    /\ consumer = "polling" /\ PollOn
    /\ ConsumeIndexed(Reader, 1)
    /\ IF take'[Reader].reading THEN UNCHANGED <<pause_count, idle>>
                                ELSE Wait("consumer")
    /\ UNCHANGED <<measuring, start, producer, consumer, sequence, consumed, checksum>>

Handle ==
    /\ HandleEvent(Reader)
    /\ checksum' = checksum + events[ConsumeSlot(Reader)]
    /\ UNCHANGED <<measuring, start, producer, consumer, sequence, consumed,
                   pause_count, idle>>

\* try_consume returns TRUE.
Consumed ==
    /\ Release(Reader)
    /\ consumed' = consumed + 1
    /\ Reset("consumer") /\ Useful("consumer")
    /\ UNCHANGED <<measuring, start, producer, consumer, sequence, checksum>>

Return ==
    /\ consumer = "polling" /\ ~take[Reader].reading /\ ~PollOn
    /\ consumer' = "returned"
    /\ UNCHANGED <<vars, measuring, start, producer, sequence, consumed, checksum,
                   pause_count, idle>>

ConsumerThread == AwaitGate \/ Poll \/ Handle \/ Consumed \/ Return

Memory == /\ PublishedPropagates(Reader) \/ ReleasePropagates(Reader)
          /\ UNCHANGED clientVars

Ended == producer = "joined" /\ UNCHANGED allVars

ClientNext == ProducerThread \/ ConsumerThread \/ Memory \/ Ended

\* Both threads run again and again (no wait blocks), stores become visible.
Fairness == /\ WF_allVars(ProducerThread) /\ WF_allVars(ConsumerThread)
            /\ WF_allVars(Memory)

ClientSpec == ClientInit /\ [][ClientNext]_allVars /\ Fairness

------------------------------------------------------------------------------
\* Every measured sample is one hand-off: when the producer writes an event past
\* the warm-up, the consumer has released all events before it, although the
\* loop of measure_latency lets the first events through unreleased, because
\* consumer_sequence(0) is UINT64_MAX until the first release.
MeasuredHandoffsAreDirect ==
    /\ measuring = "latency" /\ call.pc = "write" /\ sequence >= WarmupCount
    => consumers[Reader] = published

\* A thread's pauses are those of its current idle period: it yields only after
\* PauseLimit polls in a row found nothing, and each new period starts with
\* pauses, over all the ways in which a poll of either loop can succeed.
PausesFollowIdlePolls == pause_count = idle

\* Once the threads are joined every event has been taken, once, and the
\* checksum that main compares is the sum of the published values.
ChecksumIsExact ==
    producer = "joined" =>
        consumed = Total /\ 2 * checksum = Total * (Total - 1)

\* Waiting for each event's release, and the consumer's polling, come to an end,
\* and then the measurement has seen each event exactly once.
Terminates == []ChecksumIsExact /\ <>(producer = "joined")
==============================================================================
