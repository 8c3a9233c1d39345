------------------------ MODULE MulticastClientProofs ------------------------
(***************************************************************************)
(* examples/basic.cpp: every consumer thread returns with the whole stream *)
(* for every number of events and consumers, every batch and ring size and *)
(* every first position.                                                   *)
(***************************************************************************)
EXTENDS MulticastClient, DisruptorProofs

------------------------------------------------------------------------------
(* The inductive invariant: the disruptor's, which holds because the       *)
(* program keeps the contract, and how the program's counts follow it.     *)

ClientTypes ==
    /\ counted \in Nat /\ consumed \in [Consumers -> Nat]
    /\ thread \in [Consumers -> {"new", "waiting", "polling", "returned"}]

\* What a thread has not counted yet is what the ring still holds for it.
CountsAddUp ==
    \A c \in Consumers :
        consumed[c] + Sub(published, consumers[c]) = counted

\* No batch reaches beyond the stream.
WithinTheStream ==
    /\ counted <= EventCount
    /\ call.pc # "idle" => counted + call.count <= EventCount

ReturnedHasCounted ==
    \A c \in Consumers : thread[c] = "returned" => consumed[c] >= EventCount

ClientInv == /\ IInv /\ ClientTypes
             /\ CountsAddUp /\ WithinTheStream /\ ReturnedHasCounted

------------------------------------------------------------------------------
\* A step that moves no position and counts nothing, and whose call, if it has
\* one, asks for no more than remains.
Uncounted ==
    /\ UNCHANGED <<published, consumers, counted, consumed>>
    /\ \/ call' = call
       \/ call'.pc = "idle"
       \/ call.pc # "idle" /\ call'.count = call.count
       \/ counted + call'.count <= EventCount

\* Such a step keeps the invariant when the disruptor's is kept.
LEMMA UncountedStep ==
    ASSUME ClientInv, IInv', Uncounted, thread' = thread
    PROVE  ClientInv'
  BY DEF ClientInv, ClientTypes, CountsAddUp, WithinTheStream,
         ReturnedHasCounted, Uncounted

\* The steps of main.
LEMMA MainStep ==
    ASSUME ClientInv, MainThread
    PROVE  ClientInv'
  <1>1. /\ IInv /\ ClientTypes /\ WithinTheStream /\ call \in CallType
        /\ Producer \in Handles /\ Producer \in Paths
        /\ EventCount \in Nat /\ BatchSize \in Nat
    BY ClientAssumption DEF ClientInv, IInv, TypeOK, Paths
  <1>2. CASE OpenGate
    <2>1. UNCHANGED vars /\ UNCHANGED <<thread, counted, consumed>>
      BY <1>2 DEF OpenGate
    <2>2. IInv'
      BY <1>1, <2>1, StutterStep
    <2> QED
      BY <2>1, <2>2, UncountedStep
         DEF Uncounted, vars, producerVars, pubVars, ackVars
  <1>3. CASE MakeHandle \/ JoinAll
    <2>1. /\ MakeProducer(Producer) \/ DestroyProducer(Producer)
          /\ UNCHANGED <<thread, counted, consumed>>
      BY <1>3 DEF MakeHandle, JoinAll
    <2>2. IInv'
      BY <1>1, <2>1, MakeProducerStep, DestroyProducerStep
    <2>3. UNCHANGED <<published, consumers, call>>
      BY <2>1 DEF MakeProducer, DestroyProducer, pubVars, ackVars
    <2> QED
      BY <2>1, <2>2, <2>3, UncountedStep DEF Uncounted
  <1>4. CASE TryPublishNext
    <2>1. /\ TryPublishBatch(Producer, NextBatch) /\ counted < EventCount
          /\ UNCHANGED <<thread, counted, consumed>>
      BY <1>4 DEF TryPublishNext, clientVars
    <2>2. NextBatch \in Nat /\ counted + NextBatch <= EventCount
      BY <1>1, <2>1 DEF NextBatch, ClientTypes
    <2>3. IInv'
      BY <1>1, <2>1, <2>2, TryPublishBatchStep
    <2>4. UNCHANGED <<published, consumers>> /\ call'.count = NextBatch
      BY <2>1 DEF TryPublishBatch, Calling, pubVars, ackVars
    <2> QED
      BY <2>1, <2>2, <2>3, <2>4, UncountedStep DEF Uncounted
  <1>5. CASE InsideTryPublish
    <2>1. UNCHANGED <<thread, counted, consumed>>
      BY <1>5 DEF InsideTryPublish, clientVars
    <2>2. /\ IInv' /\ UNCHANGED <<published, consumers>> /\ call.pc # "idle"
          /\ call'.pc = "idle" \/ call'.count = call.count
      BY <1>1, <1>5, InsideACall DEF InsideTryPublish, pubVars
    <2> QED
      BY <2>1, <2>2, UncountedStep DEF Uncounted
  <1>6. CASE CountPublished
    <2>1. /\ Publish /\ counted' = counted + call.count
          /\ UNCHANGED <<thread, consumed>>
      BY <1>6 DEF CountPublished
    <2>2. IInv'
      BY <1>1, <2>1, PublishStep
    <2>3. /\ call.count \in Nat /\ consumers' = consumers
          /\ \A c \in Consumers : Sub(published', consumers[c])
                                    = Sub(published, consumers[c]) + call.count
      BY <1>1, <2>1, PublishMoves
    <2>4. call.pc # "idle" /\ call'.pc = "idle"
      BY <2>1 DEF Publish, Idle, Calling
    <2>5. ClientTypes' /\ ReturnedHasCounted' /\ WithinTheStream'
      BY <1>1, <2>1, <2>3, <2>4
         DEF ClientInv, ClientTypes, ReturnedHasCounted, WithinTheStream
    <2>6. CountsAddUp'
      <3> SUFFICES ASSUME NEW c \in Consumers
                   PROVE  consumed'[c] + Sub(published', consumers'[c]) = counted'
        BY DEF CountsAddUp
      <3>1. /\ consumed[c] \in Nat /\ Sub(published, consumers[c]) \in Nat
            /\ consumed[c] + Sub(published, consumers[c]) = counted
        BY <1>1, Window DEF ClientInv, ClientTypes, CountsAddUp
      <3> QED
        BY <2>1, <2>3, <3>1
    <2> QED
      BY <2>2, <2>5, <2>6 DEF ClientInv
  <1> QED
    BY <1>2, <1>3, <1>4, <1>5, <1>6 DEF MainThread

\* The steps of consumer c's thread and of the memory it reads.
LEMMA ThreadStep ==
    ASSUME ClientInv, NEW c \in Consumers, ConsumerThread(c) \/ Memory(c)
    PROVE  ClientInv'
  <1>1. /\ IInv /\ ClientTypes /\ CountsAddUp /\ EventCount \in Nat
        /\ BatchSize \in Nat
    BY ClientAssumption DEF ClientInv
  <1>2. CASE MakeItsHandle(c) \/ PassGate(c) \/ Return(c)
    <2>1. /\ MakeConsumer(c) \/ UNCHANGED vars \/ DropConsumer(c)
          /\ UNCHANGED <<counted, consumed>>
      BY <1>2 DEF MakeItsHandle, PassGate, Return
    <2>2. IInv'
      BY <1>1, <2>1, MakeConsumerStep, StutterStep, DropConsumerStep
    <2>3. UNCHANGED <<published, consumers, call>>
      BY <2>1 DEF MakeConsumer, DropConsumer, vars, producerVars, pubVars, ackVars
    <2>4. ClientTypes' /\ ReturnedHasCounted'
      BY <1>2, <2>1
         DEF MakeItsHandle, PassGate, Return, ClientInv, ClientTypes,
             ReturnedHasCounted
    <2> QED
      BY <2>1, <2>2, <2>3, <2>4
         DEF ClientInv, CountsAddUp, WithinTheStream
  <1>3. CASE Poll(c) \/ HandleOne(c) \/ Memory(c)
    <2>1. UNCHANGED <<thread, counted, consumed>>
      BY <1>3 DEF Poll, HandleOne, Memory, clientVars
    <2>2. IInv'
      BY <1>1, <1>3, ConsumeCachedStep, ConsumeReloadingStep, HandleEventStep,
         PublishedPropagatesStep, ReleasePropagatesStep
         DEF Poll, HandleOne, Memory
    <2>3. UNCHANGED <<published, consumers, call>>
      BY <1>3 DEF Poll, HandleOne, Memory, ConsumeCached, ConsumeReloading,
                  HandleEvent, PublishedPropagates, ReleasePropagates,
                  AcquirePublished, producerVars, pubVars, ackVars
    <2> QED
      BY <2>1, <2>2, <2>3, UncountedStep DEF Uncounted
  <1>4. CASE CountConsumed(c)
    <2>1. /\ Release(c) /\ UNCHANGED <<thread, counted>>
          /\ consumed' = [consumed EXCEPT ![c] = @ + take[c].count]
      BY <1>4 DEF CountConsumed
    <2>2. IInv'
      BY <1>1, <2>1, ReleaseStep
    <2>3. /\ take[c].count \in Nat /\ published' = published
          /\ consumers' = [consumers EXCEPT ![c] = Add(@, take[c].count)]
          /\ Sub(published, consumers'[c])
               = Sub(published, consumers[c]) - take[c].count
      BY <1>1, <2>1, ReleaseMoves
    <2>4. /\ \A d \in Consumers \ {c} : /\ consumed'[d] = consumed[d]
                                        /\ consumers'[d] = consumers[d]
          /\ consumed'[c] = consumed[c] + take[c].count
          /\ consumed' \in [Consumers -> Nat]
      BY <1>1, <2>1, <2>3 DEF ClientTypes, IInv, TypeOK
    <2>5. CountsAddUp'
      <3>1. /\ consumed[c] \in Nat /\ Sub(published, consumers[c]) \in Nat
            /\ consumed[c] + Sub(published, consumers[c]) = counted
        BY <1>1, Window DEF ClientTypes, CountsAddUp
      <3>2. consumed'[c] + Sub(published, consumers'[c]) = counted
        BY <2>3, <2>4, <3>1
      <3> QED
        BY <1>1, <2>1, <2>3, <2>4, <3>2 DEF CountsAddUp
    <2>6. call' = call
      BY <2>1 DEF Release, producerVars
    <2>7. ReturnedHasCounted'
      BY <1>1, <2>1, <2>3, <2>4 DEF ClientInv, ClientTypes, ReturnedHasCounted
    <2> QED
      BY <1>1, <2>1, <2>2, <2>4, <2>5, <2>6, <2>7
         DEF ClientInv, ClientTypes, WithinTheStream
  <1> QED
    BY <1>2, <1>3, <1>4 DEF ConsumerThread

\* The program keeps the disruptor's contract, so the disruptor's invariant is
\* the program's too, and its counts follow the positions.
THEOREM ClientInvariance == ClientSpec => []ClientInv
  <1>1. ClientInit => ClientInv
    <2> SUFFICES ASSUME ClientInit
                 PROVE  ClientInv
      OBVIOUS
    <2>1. IInv
      BY InitIInv DEF ClientInit
    <2>2. /\ \A c \in Consumers : Sub(published, consumers[c]) = 0
          /\ call.pc = "idle"
      <3>1. /\ \A c \in Consumers : consumers[c] = published
            /\ call.pc = "idle"
        BY DEF ClientInit, Init, Idle, Calling
      <3> QED
        BY <2>1, <3>1, SubZero DEF IInv, TypeOK
    <2> QED
      BY <2>1, <2>2, ClientAssumption
         DEF ClientInit, ClientInv, ClientTypes, CountsAddUp, WithinTheStream,
             ReturnedHasCounted
  <1>2. ClientInv /\ [ClientNext]_allVars => ClientInv'
    <2> SUFFICES ASSUME ClientInv, [ClientNext]_allVars
                 PROVE  ClientInv'
      OBVIOUS
    <2>1. CASE UNCHANGED allVars
      <3>1. UNCHANGED vars /\ UNCHANGED <<thread, counted, consumed>>
        BY <2>1 DEF allVars, clientVars
      <3>2. IInv'
        BY <3>1, StutterStep DEF ClientInv
      <3> QED
        BY <3>1, <3>2, UncountedStep
           DEF Uncounted, vars, producerVars, pubVars, ackVars
    <2> QED
      BY <2>1, MainStep, ThreadStep DEF ClientNext, Ended
  <1> QED
    BY <1>1, <1>2, PTL DEF ClientSpec

\* A consumer thread that returns has taken the whole stream and nothing else,
\* however the polls of any number of consumers cut it into batches and however
\* often publication was refused.
THEOREM EveryoneGetsTheStream == ClientSpec => []ReturnsWithTheWholeStream
  <1>1. ClientInv => ReturnsWithTheWholeStream
    <2> SUFFICES ASSUME ClientInv, NEW c \in Consumers, thread[c] = "returned"
                 PROVE  /\ consumed[c] = EventCount /\ counted = EventCount
                        /\ consumers[c] = published
      BY DEF ReturnsWithTheWholeStream
    <2>1. /\ consumed[c] \in Nat /\ counted \in Nat /\ EventCount \in Nat
          /\ consumed[c] >= EventCount /\ counted <= EventCount
          /\ consumed[c] + Sub(published, consumers[c]) = counted
      BY ClientAssumption
         DEF ClientInv, ClientTypes, CountsAddUp, WithinTheStream,
             ReturnedHasCounted
    <2>2. /\ Sub(published, consumers[c]) \in Nat
          /\ published \in SequenceType /\ consumers[c] \in SequenceType
      BY Window DEF ClientInv
    <2>3. /\ consumed[c] = EventCount /\ counted = EventCount
          /\ Sub(published, consumers[c]) = 0
      BY <2>1, <2>2
    <2> QED
      BY <2>2, <2>3, SubZero
  <1> QED
    BY <1>1, ClientInvariance, PTL
==============================================================================
