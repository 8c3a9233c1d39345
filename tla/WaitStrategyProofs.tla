-------------------------- MODULE WaitStrategyProofs --------------------------
(***************************************************************************)
(* benchmarks/scenarios/wait_strategy.cpp: pauses belong to the idle       *)
(* period they are counted in, and every measured latency sample is one    *)
(* direct hand-off, for every ring size, number of events and pause limit. *)
(***************************************************************************)
EXTENDS WaitStrategy, DisruptorProofs

USE Bounds, ConsumersAssumption

------------------------------------------------------------------------------
(* The inductive invariant: the disruptor's, and where the producer's loop *)
(* stands relative to the positions.                                       *)

WaitTypes ==
    /\ measuring \in {"throughput", "latency"}
    /\ producer \in {"new", "publishing", "handoff", "joined"}
    /\ sequence \in Nat

\* The loop index is the end of the stream, but for the event being handed off.
SequenceIsPublished ==
    published = IF producer = "handoff" THEN sequence + 1 ELSE sequence

\* try_publish is called, and an event handed off, only inside the loop.
InsideTheLoop ==
    /\ sequence <= Total
    /\ call.pc # "idle" => /\ producer = "publishing" /\ sequence < Total
                           /\ call.count = 1
    /\ producer = "handoff" => measuring = "latency" /\ sequence < Total

\* No position of this program rolls over.
NothingWraps == ackAcquired[Reader] <= published

\* The hand-off loop lets an event through unreleased only while nothing has
\* been released, so within the first Capacity events.
HandedOff ==
    measuring = "latency" /\ producer \in {"new", "publishing"}
    => consumers[Reader] = published \/ sequence <= Capacity

WaitInv == /\ IInv /\ WaitTypes /\ PausesFollowIdlePolls
           /\ SequenceIsPublished /\ InsideTheLoop /\ NothingWraps /\ HandedOff

------------------------------------------------------------------------------
\* The scenario's ring has one consumer, and its positions stay below Wrap.
LEMMA Scenario ==
    /\ Consumers = {Reader} /\ Reader \in Consumers /\ Owner \in Paths
    /\ WaitTypes => Total \in Nat /\ Total < Wrap
  <1>1. Consumers = {Reader}
    <2>1. ConsumerCount - 1 = 0
      BY ScenarioAssumption
    <2>2. \A c : c \in 0..0 <=> c = 0
      OBVIOUS
    <2> QED
      BY <2>1, <2>2 DEF Consumers, Reader
  <1>2. WaitTypes => Total \in Nat /\ Total < Wrap
    BY ScenarioAssumption DEF WaitTypes, Total
  <1> QED
    BY <1>1, <1>2 DEF Paths

\* wait() counts what an unsuccessful poll adds, reset() forgets it after useful
\* work, and no other step touches either.
LEMMA PausesKept ==
    ASSUME PausesFollowIdlePolls, NEW t \in Threads,
           \/ Wait(t)
           \/ Reset(t) /\ Useful(t)
           \/ UNCHANGED <<pause_count, idle>>
    PROVE  PausesFollowIdlePolls'
  BY DEF PausesFollowIdlePolls, Wait, Reset, Useful

\* A release the producer learns of lies behind the end of the stream.
LEMMA LearnedIsPublished ==
    ASSUME WaitInv, NEW v \in SequenceType,
           Sub(published, v) <= Sub(published, ackAcquired[Reader])
    PROVE  v <= published /\ Sub(published, v) = published - v
  <1>1. /\ published \in SequenceType /\ ackAcquired[Reader] \in SequenceType
    <2>1. IInv /\ Reader \in Consumers
      BY Scenario DEF WaitInv
    <2> QED
      BY <2>1, Window
  <1>0. ackAcquired[Reader] <= published
    BY DEF WaitInv, NothingWraps
  <1>2. SubIs(published, v) /\ SubIs(published, ackAcquired[Reader])
    BY <1>1, SubCases
  <1> QED
    BY <1>0, <1>1, <1>2 DEF SubIs, SequenceType

\* A step that moves neither a position nor the producer's loop keeps the
\* invariant, if the disruptor's is kept.
LEMMA QuietStep ==
    ASSUME WaitInv, IInv', PausesFollowIdlePolls',
           UNCHANGED <<published, consumers, measuring, producer, sequence>>,
           \/ ackAcquired' = ackAcquired
           \/ Sub(published, ackAcquired'[Reader])
                <= Sub(published, ackAcquired[Reader]),
           \/ call' = call
           \/ call'.pc = "idle"
           \/ call.pc # "idle" /\ call'.count = call.count
           \/ producer = "publishing" /\ sequence < Total /\ call'.count = 1
    PROVE  WaitInv'
  <1>1. NothingWraps'
    <2>1. CASE ackAcquired' = ackAcquired
      BY <2>1 DEF WaitInv, NothingWraps
    <2>2. CASE Sub(published, ackAcquired'[Reader])
                 <= Sub(published, ackAcquired[Reader])
      <3>1. ackAcquired'[Reader] \in SequenceType
        BY Scenario DEF IInv, TypeOK
      <3>2. ackAcquired'[Reader] <= published
        BY <2>2, <3>1, LearnedIsPublished
      <3> QED
        BY <3>2 DEF NothingWraps
    <2> QED
      BY <2>1, <2>2
  <1>2. InsideTheLoop'
    BY DEF WaitInv, InsideTheLoop, Total
  <1>3. WaitTypes' /\ SequenceIsPublished' /\ HandedOff'
    BY DEF WaitInv, WaitTypes, SequenceIsPublished, HandedOff
  <1> QED
    BY <1>1, <1>2, <1>3 DEF WaitInv

\* refresh_available_capacity learns of releases and forgets none.
LEMMA InsideLearns ==
    ASSUME IInv, CheckBlocker \/ ScanConsumer \/ FinishRefresh \/ WriteEvent
    PROVE  \/ ackAcquired' = ackAcquired
           \/ Sub(published, ackAcquired'[Reader])
                <= Sub(published, ackAcquired[Reader])
  <1>1. CASE CheckBlocker
    <2>1. call.pc # "idle" /\ published' = published
      BY <1>1 DEF CheckBlocker, pubVars
    <2>2. cursor[call.path].blocker \in Consumers
      BY <2>1, CallPath
    <2>3. PICK v : AcquireConsumer(cursor[call.path].blocker, v)
      BY <1>1 DEF CheckBlocker
    <2> QED
      BY <2>1, <2>2, <2>3, AcquireConsumerKeeps, Scenario
  <1>2. CASE ScanConsumer
    <2>1. call.index < ConsumerCount /\ published' = published
      BY <1>2 DEF ScanConsumer, pubVars
    <2>3. call.index \in Consumers
      BY <2>1 DEF IInv, TypeOK, CallType, Consumers
    <2>2. PICK v : AcquireConsumer(call.index, v)
      BY <1>2 DEF ScanConsumer
    <2> QED
      BY <2>1, <2>2, <2>3, AcquireConsumerKeeps, Scenario
  <1>3. CASE FinishRefresh \/ WriteEvent
    BY <1>3 DEF FinishRefresh, WriteEvent, ackVars
  <1> QED
    BY <1>1, <1>2, <1>3

------------------------------------------------------------------------------
(* The producer's loop.                                                    *)

\* try_publish, from its call to the return of TRUE.
LEMMA PublicationStep ==
    ASSUME WaitInv, OpenGate \/ TryPublish \/ InsideTryPublish \/ Published
    PROVE  WaitInv'
  <1>1. /\ IInv /\ WaitTypes /\ PausesFollowIdlePolls /\ InsideTheLoop
        /\ Total \in Nat /\ Total < Wrap
        /\ "producer" \in Threads
    BY Scenario DEF WaitInv, Threads
  <1>2. CASE OpenGate
    <2>1. UNCHANGED vars /\ UNCHANGED <<pause_count, idle, measuring, sequence>>
      BY <1>2 DEF OpenGate
    <2>2. /\ UNCHANGED <<published, consumers, call, ackAcquired>>
          /\ producer = "new" /\ producer' = "publishing"
      BY <1>2, <2>1 DEF OpenGate, vars, producerVars, pubVars, ackVars
    <2>3. IInv'
      BY <1>1, <2>1, StutterStep
    <2>4. PausesFollowIdlePolls'
      BY <1>1, <2>1, PausesKept
    <2>5. WaitTypes' /\ SequenceIsPublished' /\ InsideTheLoop' /\ NothingWraps'
      BY <2>1, <2>2 DEF WaitInv, WaitTypes, SequenceIsPublished, InsideTheLoop,
                        NothingWraps, Total
    <2>6. HandedOff'
      BY <2>1, <2>2 DEF WaitInv, HandedOff
    <2> QED
      BY <2>3, <2>4, <2>5, <2>6 DEF WaitInv
  <1>3. CASE TryPublish
    <2>1. /\ TryPublishBatch(Owner, 1)
          /\ producer = "publishing" /\ sequence < Total
          /\ UNCHANGED <<pause_count, idle, measuring, producer, sequence>>
      BY <1>3 DEF TryPublish, clientVars
    <2>2. IInv'
      BY <1>1, <2>1, Scenario, TryPublishBatchStep
    <2>3. UNCHANGED <<published, consumers, ackAcquired>> /\ call'.count = 1
      BY <2>1 DEF TryPublishBatch, Calling, pubVars, ackVars
    <2>4. PausesFollowIdlePolls'
      BY <1>1, <2>1, PausesKept
    <2> QED
      BY <2>1, <2>2, <2>3, <2>4, QuietStep
  <1>4. CASE InsideTryPublish
    <2>1. /\ CheckBlocker \/ ScanConsumer \/ FinishRefresh \/ WriteEvent
          /\ Wait("producer") \/ UNCHANGED <<pause_count, idle>>
          /\ UNCHANGED <<measuring, producer, sequence>>
      BY <1>4 DEF InsideTryPublish
    <2>2. /\ IInv' /\ UNCHANGED <<published, consumers>> /\ call.pc # "idle"
          /\ call'.pc = "idle" \/ call'.count = call.count
      BY <1>1, <2>1, InsideACall DEF pubVars
    <2>3. \/ ackAcquired' = ackAcquired
          \/ Sub(published, ackAcquired'[Reader])
               <= Sub(published, ackAcquired[Reader])
      BY <1>1, <2>1, InsideLearns
    <2>4. PausesFollowIdlePolls'
      BY <1>1, <2>1, PausesKept
    <2> QED
      BY <2>1, <2>2, <2>3, <2>4, QuietStep
  <1>5. CASE Published
    <2>1. /\ Publish /\ Reset("producer") /\ Useful("producer")
          /\ UNCHANGED measuring
          /\ \/ /\ measuring = "latency" /\ producer' = "handoff"
                /\ sequence' = sequence
             \/ /\ measuring # "latency" /\ sequence' = sequence + 1
                /\ producer' = producer
      BY <1>5 DEF Published
    <2>2. IInv'
      BY <1>1, <2>1, PublishStep
    <2>3. /\ call.pc # "idle" /\ call'.pc = "idle"
          /\ ackAcquired' = ackAcquired
      BY <2>1 DEF Publish, Idle, Calling, ackVars
    <2>4. /\ producer = "publishing" /\ sequence < Total /\ call.count = 1
          /\ published = sequence
      BY <2>3 DEF WaitInv, InsideTheLoop, SequenceIsPublished
    <2>5. published' = sequence + 1
      <3>1. published' = Add(published, 1)
        BY <1>1, <2>1, <2>4, PublishMoves
      <3>2. sequence \in SequenceType /\ 1 \in SequenceType
        BY <1>1, <2>4 DEF WaitTypes, SequenceType
      <3>3. AddIs(sequence, 1)
        BY <3>2, AddCases
      <3> QED
        BY <1>1, <2>4, <3>1, <3>3 DEF AddIs, WaitTypes
    <2>6. PausesFollowIdlePolls'
      BY <1>1, <2>1, PausesKept
    <2>7. WaitTypes' /\ SequenceIsPublished' /\ InsideTheLoop' /\ HandedOff'
      BY <1>1, <2>1, <2>3, <2>4, <2>5
         DEF WaitTypes, SequenceIsPublished, InsideTheLoop, HandedOff, Total
    <2>8. NothingWraps'
      <3>1. ackAcquired[Reader] \in SequenceType
        BY <1>1, Scenario DEF IInv, TypeOK
      <3> QED
        BY <1>1, <2>3, <2>4, <2>5, <3>1
           DEF WaitInv, NothingWraps, WaitTypes, SequenceType
    <2> QED
      BY <2>2, <2>6, <2>7, <2>8 DEF WaitInv
  <1> QED
    BY <1>2, <1>3, <1>4, <1>5

\* One turn of the hand-off loop.  It ends with the event released, or because
\* consumer_sequence(0) is still UINT64_MAX.
LEMMA HandoffStep ==
    ASSUME WaitInv, Handoff
    PROVE  WaitInv'
  <1>1. /\ IInv /\ WaitTypes /\ PausesFollowIdlePolls /\ InsideTheLoop
        /\ Total \in Nat /\ Total < Wrap
        /\ "producer" \in Threads /\ Reader \in Consumers
    BY Scenario DEF WaitInv, Threads
  <1>2. /\ producer = "handoff" /\ measuring = "latency" /\ sequence < Total
        /\ call.pc = "idle" /\ published = sequence + 1
    BY <1>1 DEF Handoff, WaitInv, InsideTheLoop, SequenceIsPublished
  <1>3. PICK v \in ackView[Reader] :
          /\ AcquireConsumer(Reader, v)
          /\ IF NotReleased(v)
               THEN Wait("producer") /\ UNCHANGED <<producer, sequence>>
               ELSE /\ Reset("producer") /\ Useful("producer")
                    /\ producer' = "publishing" /\ sequence' = sequence + 1
    BY DEF Handoff
  <1>4. /\ UNCHANGED <<events, producerVars, consumerVars, pubVars>>
        /\ UNCHANGED <<measuring, published, call>>
    BY DEF Handoff, pubVars, producerVars
  <1>5. IInv'
    BY <1>1, <1>2, <1>3, <1>4, ReadPositionStep
  <1>6. /\ v \in SequenceType /\ consumers' = consumers
        /\ ackAcquired'[Reader] = v
        /\ Sub(published, v) \in 0..Capacity
        /\ Sub(published, v) <= Sub(published, ackAcquired[Reader])
        /\ Sub(published, consumers[Reader]) <= Sub(published, v)
    <2>1. Sub(published, consumers[Reader]) <= Sub(published, v)
      BY <1>1, <1>3 DEF IInv, AckOrder
    <2> QED
      BY <1>1, <1>3, <1>4, <2>1, AcquireConsumerKeeps
  <1>7. v <= published /\ Sub(published, v) = published - v
    BY <1>6, LearnedIsPublished
  <1>8. CASE NotReleased(v)
    <2>1. Wait("producer") /\ UNCHANGED <<producer, sequence>>
      BY <1>3, <1>8
    <2>2. PausesFollowIdlePolls'
      BY <1>1, <2>1, PausesKept
    <2> QED
      BY <1>4, <1>5, <1>6, <2>1, <2>2, QuietStep
  <1>9. CASE ~NotReleased(v)
    <2>1. /\ Reset("producer") /\ Useful("producer")
          /\ producer' = "publishing" /\ sequence' = sequence + 1
      BY <1>3, <1>9
    <2>2. PausesFollowIdlePolls'
      BY <1>1, <2>1, PausesKept
    <2>3. SubIs(v, 1) /\ 1 \in SequenceType
      <3>1. 1 \in SequenceType
        BY DEF SequenceType
      <3> QED
        BY <1>6, <3>1, SubCases
    <2>4. v = published \/ v = 0
      BY <1>1, <1>2, <1>6, <1>7, <1>9, <2>3
         DEF NotReleased, ConsumerSequence, SubIs, SequenceType, WaitTypes
    <2>5. v = published => consumers[Reader] = published
      <3>1. /\ published \in SequenceType /\ consumers[Reader] \in SequenceType
            /\ Sub(published, consumers[Reader]) \in 0..Capacity
        BY <1>1, Window
      <3> QED
        BY <1>6, <1>7, <3>1, SubZero
    <2>6. v = 0 => sequence + 1 <= Capacity
      BY <1>1, <1>2, <1>6, <1>7 DEF WaitTypes
    <2>7. HandedOff'
      BY <1>2, <1>4, <1>6, <2>1, <2>4, <2>5, <2>6 DEF HandedOff
    <2>8. WaitTypes' /\ SequenceIsPublished' /\ InsideTheLoop'
      BY <1>1, <1>2, <1>4, <2>1
         DEF WaitTypes, SequenceIsPublished, InsideTheLoop, Total
    <2>9. NothingWraps'
      BY <1>4, <1>6, <1>7 DEF NothingWraps
    <2> QED
      BY <1>5, <2>2, <2>7, <2>8, <2>9 DEF WaitInv
  <1> QED
    BY <1>8, <1>9

------------------------------------------------------------------------------
(* The consumer's loop, and the end.                                       *)

\* Steps that leave the disruptor and the producer's loop alone.
LEMMA OutsideStep ==
    ASSUME WaitInv, PausesFollowIdlePolls', UNCHANGED vars,
           UNCHANGED <<measuring, producer, sequence>>
    PROVE  WaitInv'
  <1>1. IInv'
    BY StutterStep DEF WaitInv
  <1>2. UNCHANGED <<published, consumers, call, ackAcquired>>
    BY DEF vars, producerVars, pubVars, ackVars
  <1> QED
    BY <1>1, <1>2, QuietStep

\* The producer joins the consumer.
LEMMA JoinStep ==
    ASSUME WaitInv, Join
    PROVE  WaitInv'
  <1>1. /\ UNCHANGED vars /\ UNCHANGED <<pause_count, idle, measuring, sequence>>
        /\ producer = "publishing" /\ producer' = "joined" /\ sequence = Total
    BY DEF Join
  <1>2. UNCHANGED <<published, consumers, call, ackAcquired>>
    BY <1>1 DEF vars, producerVars, pubVars, ackVars
  <1>3. IInv' /\ PausesFollowIdlePolls'
    BY <1>1, StutterStep DEF WaitInv, PausesFollowIdlePolls
  <1>4. sequence \in Nat /\ Total \in Nat
    BY Scenario DEF WaitInv, WaitTypes
  <1>5. WaitTypes' /\ SequenceIsPublished' /\ NothingWraps' /\ HandedOff'
    BY <1>1, <1>2
       DEF WaitInv, WaitTypes, SequenceIsPublished, NothingWraps, HandedOff
  <1>6. InsideTheLoop'
    BY <1>1, <1>2, <1>4 DEF WaitInv, InsideTheLoop, Total
  <1> QED
    BY <1>3, <1>5, <1>6 DEF WaitInv

\* The consumer's thread and the memory between the two.
LEMMA ConsumptionStep ==
    ASSUME WaitInv, ConsumerThread \/ Memory
    PROVE  WaitInv'
  <1>1. /\ IInv /\ PausesFollowIdlePolls
        /\ "consumer" \in Threads /\ Reader \in Consumers
    BY Scenario DEF WaitInv, Threads
  <1>2. UNCHANGED <<measuring, producer, sequence>>
    BY DEF ConsumerThread, Memory, AwaitGate, Poll, Handle, Consumed, Return,
           clientVars
  <1>3. CASE AwaitGate \/ Return
    <2>1. /\ UNCHANGED vars
          /\ \/ Wait("consumer")
             \/ Reset("consumer") /\ Useful("consumer")
             \/ UNCHANGED <<pause_count, idle>>
      BY <1>3 DEF AwaitGate, Return
    <2>2. PausesFollowIdlePolls'
      BY <1>1, <2>1, PausesKept
    <2> QED
      BY <1>2, <2>1, <2>2, OutsideStep
  <1>4. CASE Poll \/ Handle \/ Memory
    <2>1. Wait("consumer") \/ UNCHANGED <<pause_count, idle>>
      BY <1>4 DEF Poll, Handle, Memory, clientVars
    <2>2. PausesFollowIdlePolls'
      BY <1>1, <2>1, PausesKept
    <2>3. \/ ConsumeIndexed(Reader, 1) \/ HandleEvent(Reader)
          \/ PublishedPropagates(Reader) \/ ReleasePropagates(Reader)
      BY <1>4 DEF Poll, Handle, Memory
    <2>4. IInv'
      BY <1>1, <2>3, ConsumeIndexedStep, HandleEventStep,
         PublishedPropagatesStep, ReleasePropagatesStep
    <2>5. UNCHANGED <<published, consumers, call, ackAcquired>>
      BY <2>3 DEF ConsumeIndexed, HandleEvent, PublishedPropagates,
                  ReleasePropagates, AcquirePublished, producerVars, pubVars,
                  ackVars
    <2> QED
      BY <1>2, <2>2, <2>4, <2>5, QuietStep
  <1>5. CASE Consumed
    <2>1. Release(Reader) /\ Reset("consumer") /\ Useful("consumer")
      BY <1>5 DEF Consumed
    <2>2. PausesFollowIdlePolls'
      BY <1>1, <2>1, PausesKept
    <2>3. IInv'
      BY <1>1, <2>1, ReleaseStep
    <2>4. UNCHANGED <<published, call, ackAcquired>>
      BY <2>1 DEF Release, producerVars, pubVars
    <2>5. consumers[Reader] = published => consumers'[Reader] = published
      <3>1. /\ take[Reader].count \in Nat
            /\ take[Reader].count <= Sub(published, consumers[Reader])
            /\ Sub(published, consumers'[Reader])
                 = Sub(published, consumers[Reader]) - take[Reader].count
        BY <1>1, <2>1, ReleaseMoves
      <3>2. /\ published \in SequenceType /\ consumers[Reader] \in SequenceType
            /\ consumers'[Reader] \in SequenceType
        BY <1>1, <2>3 DEF IInv, TypeOK
      <3>3. /\ consumers[Reader] = published
               => Sub(published, consumers[Reader]) = 0
            /\ Sub(published, consumers'[Reader]) = 0
               => consumers'[Reader] = published
        BY <3>2, SubZero
      <3> QED
        BY <3>1, <3>3
    <2>6. WaitTypes' /\ SequenceIsPublished' /\ NothingWraps' /\ HandedOff'
      BY <1>2, <2>4, <2>5
         DEF WaitInv, WaitTypes, SequenceIsPublished, NothingWraps, HandedOff
    <2>7. InsideTheLoop'
      BY <1>2, <2>4 DEF WaitInv, InsideTheLoop, Total
    <2> QED
      BY <2>2, <2>3, <2>6, <2>7 DEF WaitInv
  <1> QED
    BY <1>3, <1>4, <1>5 DEF ConsumerThread

------------------------------------------------------------------------------
\* Both measurements keep the disruptor's contract, and the producer's loop
\* stays in step with the positions.
THEOREM WaitInvariance == ClientSpec => []WaitInv
  <1>1. ClientInit => WaitInv
    <2> SUFFICES ASSUME ClientInit
                 PROVE  WaitInv
      OBVIOUS
    <2>1. IInv
      BY InitIInv DEF ClientInit
    <2>2. /\ published = 0 /\ consumers[Reader] = 0 /\ ackAcquired[Reader] = 0
          /\ call.pc = "idle"
      BY Scenario, ScenarioAssumption DEF ClientInit, Init, Idle, Calling
    <2>3. WaitTypes /\ PausesFollowIdlePolls
      BY DEF ClientInit, WaitTypes, PausesFollowIdlePolls
    <2>4. Total \in Nat
      BY <2>3, Scenario
    <2> QED
      BY <2>1, <2>2, <2>3, <2>4
         DEF ClientInit, WaitInv, SequenceIsPublished, InsideTheLoop,
             NothingWraps, HandedOff
  <1>2. WaitInv /\ [ClientNext]_allVars => WaitInv'
    <2> SUFFICES ASSUME WaitInv, [ClientNext]_allVars
                 PROVE  WaitInv'
      OBVIOUS
    <2>1. CASE UNCHANGED allVars
      BY <2>1, OutsideStep
         DEF allVars, clientVars, WaitInv, PausesFollowIdlePolls
    <2> QED
      BY <2>1, PublicationStep, HandoffStep, JoinStep, ConsumptionStep
         DEF ClientNext, ProducerThread, Ended
  <1> QED
    BY <1>1, <1>2, PTL DEF ClientSpec

\* Every measured sample is one direct hand-off, because the warm-up is longer
\* than the ring: the events that UINT64_MAX lets through unreleased all belong
\* to it.
THEOREM SamplesAreDirectHandoffs == ClientSpec => []MeasuredHandoffsAreDirect
  <1>1. WaitInv => MeasuredHandoffsAreDirect
    BY ScenarioAssumption
       DEF WaitInv, WaitTypes, InsideTheLoop, HandedOff,
           MeasuredHandoffsAreDirect
  <1> QED
    BY <1>1, WaitInvariance, PTL

\* A thread yields only after PauseLimit polls in a row found nothing.
THEOREM PausesAreOfThisPeriod == ClientSpec => []PausesFollowIdlePolls
  <1>1. WaitInv => PausesFollowIdlePolls
    BY DEF WaitInv
  <1> QED
    BY <1>1, WaitInvariance, PTL

------------------------------------------------------------------------------
(* What the consumer has summed.                                           *)

\* How many events the handler has been given.
Summed == consumed + (IF take[Reader].reading THEN take[Reader].index ELSE 0)

\* The count is the position, which does not roll over, and the sum is that of
\* the events before it; the consumer returns with all of them.
SumInv ==
    /\ consumed \in Nat /\ consumed <= Total /\ consumers[Reader] = consumed
    /\ take[Reader].reading => /\ consumer = "polling" /\ consumed < Total
                               /\ take[Reader].count = 1
                               /\ take[Reader].index \in {0, 1}
    /\ checksum \in Nat /\ 2 * checksum = Summed * (Summed - 1)
    /\ consumer = "returned" => consumed = Total
    /\ producer = "joined" => consumer = "returned"

\* n more to a sum of the numbers below n is the sum of the numbers up to n.
LEMMA NextSum ==
    ASSUME NEW n \in Nat, NEW s \in Nat, 2 * s = n * (n - 1)
    PROVE  2 * (s + n) = (n + 1) * ((n + 1) - 1)
  <1> DEFINE x == n * (n - 1)
  <1>1. (n + 1) * ((n + 1) - 1) = x + 2 * n /\ x \in Int
    OBVIOUS
  <1>2. 2 * s = x
    OBVIOUS
  <1> HIDE DEF x
  <1> QED
    BY <1>1, <1>2

\* A step that neither takes nor releases an event.
LEMMA SumFrame ==
    ASSUME SumInv,
           UNCHANGED <<consumers, take, consumed, checksum, measuring>>,
           consumer' = consumer \/ consumer = "waiting",
           consumer' = "returned" => consumed' = Total',
           producer' = "joined" => consumer' = "returned"
    PROVE  SumInv'
  <1>1. Total' = Total /\ Summed' = Summed
    BY DEF Total, Summed
  <1> QED
    BY <1>1 DEF SumInv

\* The producer's steps, and the memory between the two.
LEMMA SumProducerStep ==
    ASSUME WaitInv, SumInv, ProducerThread \/ Memory \/ UNCHANGED allVars
    PROVE  SumInv'
  <1>1. IInv
    BY DEF WaitInv
  <1>2. UNCHANGED <<consumer, consumed, checksum, measuring>>
    BY DEF ProducerThread, OpenGate, TryPublish, InsideTryPublish, Published,
           Handoff, Join, Memory, clientVars, allVars
  <1>3. UNCHANGED <<consumers, take>>
    <2>1. CASE OpenGate \/ Join \/ UNCHANGED allVars
      BY <2>1 DEF OpenGate, Join, allVars, vars, ackVars, consumerVars
    <2>2. CASE TryPublish
      BY <2>2 DEF TryPublish, TryPublishBatch, ackVars, consumerVars
    <2>3. CASE InsideTryPublish
      BY <1>1, <2>3, InsideACall DEF InsideTryPublish, consumerVars
    <2>4. CASE Published
      BY <1>1, <2>4, PublishMoves DEF Published, Publish, consumerVars
    <2>5. CASE Handoff
      BY <2>5 DEF Handoff, AcquireConsumer, consumerVars
    <2>6. CASE Memory
      BY <2>6 DEF Memory, PublishedPropagates, ReleasePropagates, ackVars,
                  consumerVars
    <2> QED
      BY <2>1, <2>2, <2>3, <2>4, <2>5, <2>6 DEF ProducerThread
  <1>4. producer' = "joined" => consumer = "returned"
    BY DEF SumInv, ProducerThread, OpenGate, TryPublish, InsideTryPublish,
           Published, Handoff, Join, Memory, clientVars, allVars
  <1>5. Total' = Total
    BY <1>2 DEF Total
  <1> QED
    BY <1>2, <1>3, <1>4, <1>5, SumFrame DEF SumInv

\* try_consume(0) takes one event or none.
LEMMA SumPollStep ==
    ASSUME WaitInv, SumInv, Poll
    PROVE  SumInv'
  <1>1. /\ IInv /\ Reader \in Consumers
        /\ take \in [Consumers -> TakeType] /\ consumers[Reader] \in SequenceType
    BY Scenario DEF WaitInv, IInv, TypeOK
  <1>2. /\ consumer = "polling" /\ consumed < Total /\ ConsumeIndexed(Reader, 1)
        /\ UNCHANGED <<measuring, producer, consumer, consumed, checksum>>
    BY DEF Poll, PollOn
  <1>3. PICK v \in pubView[Reader] :
          take' = [take EXCEPT ![Reader] =
                     Taking(consumers[Reader], v, 1, "index")]
    BY <1>2 DEF ConsumeIndexed
  <1>4. v \in SequenceType /\ Sub(v, consumers[Reader]) \in 0..Capacity
    <2>1. Sub(v, consumers[Reader]) <= Sub(published, consumers[Reader])
      BY <1>1 DEF IInv, PubOrder
    <2>2. v \in SequenceType
      BY <1>1 DEF IInv, TypeOK
    <2>3. Sub(v, consumers[Reader]) \in SequenceType
      BY <1>1, <2>2, ArithmeticType
    <2>4. Sub(published, consumers[Reader]) \in 0..Capacity
      BY <1>1, Window
    <2> QED
      BY <2>1, <2>2, <2>3, <2>4 DEF SequenceType
  <1>5. take'[Reader] = Taking(consumers[Reader], v, 1, "index")
    BY <1>1, <1>3
  <1>6. take'[Reader].reading => /\ take'[Reader].index = 0
                                 /\ take'[Reader].count = 1
    <2>1. CASE Sub(v, consumers[Reader]) = 0
      BY <1>5, <2>1 DEF Taking, NotReading
    <2>2. CASE Sub(v, consumers[Reader]) # 0
      BY <1>4, <1>5, <2>2 DEF Taking
    <2> QED
      BY <2>1, <2>2
  <1>7. consumers' = consumers /\ ~take[Reader].reading
    BY <1>2 DEF ConsumeIndexed, ackVars
  <1>8. Summed' = Summed /\ Total' = Total
    BY <1>2, <1>6, <1>7 DEF Summed, Total, SumInv
  <1> QED
    BY <1>2, <1>6, <1>7, <1>8 DEF SumInv

\* The handler is given the event at the consumer's position, whose value is
\* its sequence.
LEMMA SumHandleStep ==
    ASSUME WaitInv, SumInv, Handle
    PROVE  SumInv'
  <1>1. /\ IInv /\ Reader \in Consumers /\ take \in [Consumers -> TakeType]
        /\ consumers[Reader] \in SequenceType
    BY Scenario DEF WaitInv, IInv, TypeOK
  <1>2. /\ take[Reader].reading /\ take[Reader].index < take[Reader].count
        /\ take' = [take EXCEPT ![Reader].index = @ + 1]
        /\ checksum' = checksum + events[ConsumeSlot(Reader)]
        /\ UNCHANGED <<consumers, measuring, producer, consumer, consumed>>
    BY DEF Handle, HandleEvent, ackVars
  <1>3. /\ take[Reader].count = 1 /\ take[Reader].index = 0
        /\ consumed \in Nat /\ checksum \in Nat /\ Summed = consumed
    BY <1>2 DEF SumInv, Summed
  <1>4. events[ConsumeSlot(Reader)] = consumed
    <2>1. events[ConsumeSlot(Reader)] = Add(take[Reader].first, take[Reader].index)
      BY <1>1, <1>2, HandlersReadTheirSlots DEF HandlerGetsItsEvent
    <2>2. take[Reader].first = consumers[Reader]
      BY <1>1, <1>2 DEF IInv, ConsumerInv
    <2>3. AddIs(consumers[Reader], 0)
      <3>1. 0 \in SequenceType
        BY DEF SequenceType
      <3> QED
        BY <1>1, <3>1, AddCases
    <2> QED
      BY <1>1, <1>3, <2>1, <2>2, <2>3 DEF AddIs, SumInv, SequenceType
  <1>5. /\ take'[Reader].reading /\ take'[Reader].index = 1
        /\ take'[Reader].count = 1
    BY <1>1, <1>2, <1>3 DEF TakeType
  <1>6. Summed' = consumed + 1 /\ Total' = Total
    BY <1>2, <1>5 DEF Summed, Total
  <1>7. checksum' \in Nat /\ 2 * checksum' = (consumed + 1) * ((consumed + 1) - 1)
    BY <1>2, <1>3, <1>4, NextSum DEF SumInv
  <1> QED
    BY <1>2, <1>3, <1>5, <1>6, <1>7 DEF SumInv

\* The release counts the event.
LEMMA SumReleaseStep ==
    ASSUME WaitInv, SumInv, Consumed
    PROVE  SumInv'
  <1>1. /\ IInv /\ Reader \in Consumers /\ take \in [Consumers -> TakeType]
        /\ consumers \in [Consumers -> SequenceType]
        /\ Total \in Nat /\ Total < Wrap
    BY Scenario DEF WaitInv, IInv, TypeOK
  <1>2. /\ Release(Reader) /\ consumed' = consumed + 1
        /\ UNCHANGED <<measuring, producer, consumer, checksum>>
    BY DEF Consumed
  <1>3. /\ take[Reader].reading /\ take[Reader].index = take[Reader].count
        /\ ~take'[Reader].reading
    BY <1>1, <1>2 DEF Release, NotReading
  <1>4. /\ take[Reader].count = 1 /\ consumed \in Nat /\ consumed < Total
        /\ consumer = "polling"
    BY <1>3 DEF SumInv
  <1>5. consumers'[Reader] = consumed + 1
    <2>1. consumers'[Reader] = Add(consumers[Reader], 1)
      BY <1>1, <1>2, <1>4, ReleaseMoves
    <2>2. consumers[Reader] \in SequenceType /\ 1 \in SequenceType
      BY <1>1 DEF SequenceType
    <2>3. AddIs(consumers[Reader], 1)
      BY <2>2, AddCases
    <2> QED
      BY <1>1, <1>4, <2>1, <2>3 DEF AddIs, SumInv
  <1>6. Summed' = Summed /\ Total' = Total
    BY <1>2, <1>3, <1>4 DEF Summed, Total
  <1> QED
    BY <1>1, <1>2, <1>3, <1>4, <1>5, <1>6 DEF SumInv

\* Both measurements have seen every event once when they end; the sum is the
\* one main compares the throughput checksums with ("correct checksums").
THEOREM EveryEventIsSummed == ClientSpec => []ChecksumIsExact
  <1>1. ClientInit => SumInv
    <2> SUFFICES ASSUME ClientInit
                 PROVE  SumInv
      OBVIOUS
    <2>1. consumers[Reader] = 0 /\ ~take[Reader].reading
      BY Scenario, ScenarioAssumption DEF ClientInit, Init, NotReading
    <2>2. Total \in Nat
      BY Scenario DEF ClientInit, WaitTypes
    <2> QED
      BY <2>1, <2>2 DEF ClientInit, SumInv, Summed
  <1>2. ASSUME WaitInv, SumInv, [ClientNext]_allVars
        PROVE  SumInv'
    <2>1. CASE AwaitGate
      <3>1. /\ UNCHANGED <<consumers, take, consumed, checksum, measuring>>
            /\ UNCHANGED producer
            /\ consumer = "waiting" /\ consumer' \in {"waiting", "polling"}
        BY <2>1 DEF AwaitGate, vars, ackVars, consumerVars
      <3> QED
        BY <1>2, <3>1, SumFrame DEF SumInv
    <2>2. CASE Return
      <3>1. /\ UNCHANGED <<consumers, take, consumed, checksum, measuring>>
            /\ UNCHANGED producer
            /\ consumer = "polling" /\ consumer' = "returned"
            /\ ~take[Reader].reading /\ ~(consumed < Total)
        BY <2>2 DEF Return, PollOn, vars, ackVars, consumerVars
      <3>2. consumed = Total /\ Total' = Total /\ Summed' = Summed
        <4>1. Total \in Nat
          BY <1>2, Scenario DEF WaitInv
        <4> QED
          BY <1>2, <3>1, <4>1 DEF SumInv, Total, Summed
      <3> QED
        BY <1>2, <3>1, <3>2 DEF SumInv
    <2> QED
      BY <1>2, <2>1, <2>2, SumProducerStep, SumPollStep, SumHandleStep,
         SumReleaseStep DEF ClientNext, ConsumerThread, Ended
  <1>3. SumInv => ChecksumIsExact
    <2> SUFFICES ASSUME SumInv, producer = "joined"
                 PROVE  consumed = Total /\ 2 * checksum = Total * (Total - 1)
      BY DEF ChecksumIsExact
    <2>1. consumed = Total /\ consumer = "returned"
      BY DEF SumInv
    <2>2. Summed = Total
      BY <2>1 DEF SumInv, Summed
    <2> QED
      BY <2>1, <2>2 DEF SumInv
  <1> QED
    BY <1>1, <1>2, <1>3, WaitInvariance, PTL DEF ClientSpec
==============================================================================
