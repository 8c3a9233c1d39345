------------------------ MODULE PairedComparisonProofs ------------------------
(***************************************************************************)
(* The paired comparison of the disruptors, for every value of the         *)
(* constants.  C++: the phases of run_all_phases hand run_control over     *)
(* without a race, do not overlap and validate.  Java: run_java_pinned.py  *)
(* pins the threads that run the workers' code, however many other threads *)
(* the JVM has, whenever they start and whatever names they inherit.       *)
(***************************************************************************)
EXTENDS PairedPhases, AffinityGate, DisruptorProofs

------------------------------------------------------------------------------
(* run_all_phases: the protocol of run_control.                            *)

\* Where the calling thread has not commanded its phase yet, where it has seen
\* the consumer ready, and where it has failed or is done.
Uncommanded == {"new", "count", "command"}
Running     == {"pin", "publish", "rejected", "drain", "completed", "validate"}
Over        == {"catch", "join", "threw", "returned"}

\* Where the consumer is inside a phase: before it has told so, and after; and
\* where it no longer takes part.
Preparing == {"pin", "read", "ready", "throw", "fail"}
Consuming == {"consume", "empty", "store", "report"}
Gone      == {"leave", "returned"}

PhaseTypes ==
    /\ phase \in 1..TotalPhases /\ turn \in 1..TotalPhases
    /\ commanded_phase \in Nat /\ ready_phase \in Nat /\ completed_phase \in Nat
    /\ failed \in BOOLEAN /\ consumer_error \in BOOLEAN
    /\ producer \in Uncommanded \cup {"ready"} \cup Running \cup Over
    /\ consumer \in {"new", "waiting"} \cup Preparing \cup Consuming \cup Gone

\* The calling thread's phase, against what both have told.
CallerInStep ==
    /\ commanded_phase = IF producer \in Uncommanded THEN phase - 1 ELSE phase
    /\ completed_phase \in {phase - 1, phase}
    /\ producer \in Uncommanded => completed_phase = phase - 1
    /\ producer = "validate" => completed_phase = phase
    /\ \/ producer \in Running
       \/ producer \in Over /\ thrown # "consumer"
       => ready_phase = phase

\* The consumer's turn, against the same.
ConsumerInStep ==
    /\ consumer \in Preparing \cup Consuming =>
         /\ turn = phase /\ commanded_phase = phase
         /\ completed_phase = phase - 1
    /\ consumer \in {"new", "waiting"} => completed_phase = turn - 1
    /\ consumer \in {"new", "waiting"} \cup Preparing => ready_phase = turn - 1
    /\ consumer \in Consuming => ready_phase = turn

\* Who has failed, and what is left to rethrow.
FailuresAreTold ==
    /\ failed => \/ consumer_error /\ consumer \in Gone
                 \/ producer \in Over /\ thrown # "none"
    /\ thrown \in {"none", "pin", "validation", "consumer"}
    /\ thrown # "none" => producer \in Over
    /\ thrown = "consumer" => consumer_error
    /\ consumer_error => consumer \in {"fail"} \cup Gone
    /\ consumer = "fail" => consumer_error
    /\ producer = "catch" => thrown # "none"

ControlInv == PhaseTypes /\ CallerInStep /\ ConsumerInStep /\ FailuresAreTold

------------------------------------------------------------------------------
(* The phases in the stream.                                               *)

\* The position at which the phase starts.
Base == (phase - 1) * WarmupEvents

Index == IF take[Reader].reading THEN take[Reader].index ELSE 0

\* The sum of the first n values of a phase.
Triangle(n) == (n * (n - 1)) \div 2

\* The ring holds events of the current phase only.
PhaseInTheStream ==
    /\ Base <= consumers[Reader] /\ consumers[Reader] <= published
    /\ published <= Base + EventCount
    /\ published # Base => final = Base + EventCount
    /\ producer \in Uncommanded \cup {"ready", "pin"} => published = Base

\* The publication loop.
PostedBatches ==
    /\ posted \in Nat /\ posted % ProducerBatch = 0
    /\ producer \in {"publish", "rejected", "drain", "completed", "validate"} =>
         /\ final = Base + EventCount /\ published = Base + posted
         /\ posted <= EventCount
    /\ producer \in {"drain", "completed", "validate"} => posted = EventCount
    /\ call.pc # "idle" => /\ producer = "publish" /\ posted < EventCount
                           /\ call.count = ProducerBatch
    /\ producer \notin {"new", "count"} => phase_event_count = EventCount

\* The measurement of the first n events of a phase.
Measured(n) == [first_sequence |-> Base, event_count |-> EventCount,
                consumed |-> n, checksum |-> Triangle(n) % Wrap,
                mismatch |-> FALSE]

\* The consumer's measurement is that of the events it has handled, and what it
\* leaves behind is that of the whole phase.
ConsumerMeasures ==
    /\ consumer \in {"ready"} \cup Consuming =>
         /\ current.consumed \in Nat /\ current = Measured(current.consumed)
         /\ consumers[Reader] + Index = Base + current.consumed
    /\ consumer \in {"store", "report"} => current.consumed = EventCount
    /\ consumer = "report" => phase_measurement = current
    /\ completed_phase = phase =>
         /\ consumers[Reader] = Base + EventCount
         /\ phase_measurement = Measured(EventCount)
    /\ elapsed \in {0, 1} /\ (thrown = "validation" => elapsed = 0)

\* The two handles live as long as their threads need them.
HandlesLive ==
    /\ chandle[Reader].live <=> consumer \notin {"new", "returned"}
    /\ take[Reader].reading => consumer = "consume" /\ take[Reader].count >= 1

StreamInv == PhaseInTheStream /\ PostedBatches /\ ConsumerMeasures /\ HandlesLive

PhasesInv == IInv /\ ControlInv /\ StreamInv

USE Bounds, ConsumersAssumption

------------------------------------------------------------------------------
(* Numbers.                                                                *)

\* What parse_arguments grants, for the phase the calling thread is in.
LEMMA Settings ==
    /\ WarmupRuns \in Nat /\ WarmupEvents \in Nat \ {0} /\ Events \in Nat \ {0}
    /\ ProducerBatch \in Nat \ {0} /\ DrainLimit \in Nat \ {0}
    /\ Consumers = {Reader} /\ Reader \in Consumers
    /\ Producer \in Handles /\ Producer \in Paths
    /\ EventCount \in Nat \ {0} /\ EventCount % ProducerBatch = 0
    /\ TotalPhases = WarmupRuns + 1
  <1>1. Consumers = {Reader}
    <2>1. ConsumerCount - 1 = 0
      BY SettingsAssumption
    <2>2. \A c : c \in 0..0 <=> c = 0
      OBVIOUS
    <2> QED
      BY <2>1, <2>2 DEF Consumers, Reader
  <1>2. EventCount = Events \/ EventCount = WarmupEvents
    BY DEF EventCount
  <1> QED
    BY <1>1, <1>2, SettingsAssumption DEF Paths, TotalPhases

\* Products are monotone.
LEMMA ProductMonotone ==
    ASSUME NEW a \in Nat, NEW b \in Nat, NEW w \in Nat, a <= b
    PROVE  a * w <= b * w
  <1>1. PICK d \in Nat : b = a + d
    BY b - a \in Nat
  <1>2. b * w = a * w + d * w /\ d * w \in Nat /\ a * w \in Nat
    BY <1>1
  <1> QED
    BY <1>2

\* No position of any phase rolls over, and the next phase starts where this
\* one ends.
LEMMA BaseFits ==
    ASSUME phase \in 1..TotalPhases
    PROVE  /\ Base \in Nat /\ Base + EventCount < Wrap
           /\ phase # TotalPhases => phase * WarmupEvents = Base + EventCount
  <1> DEFINE w == WarmupEvents
             r == WarmupRuns
             p == phase - 1
  <1>1. w \in Nat \ {0} /\ r \in Nat /\ p \in Nat /\ p <= r /\ Events \in Nat \ {0}
    BY Settings
  <1>2. r * w + Events < Wrap
    BY SettingsAssumption
  <1>3. Base = p * w
    BY DEF Base
  <1>4. CASE phase = TotalPhases
    <2>1. p = r /\ EventCount = Events
      BY <1>4, Settings DEF EventCount
    <2>2. p * w = r * w
      BY <2>1
    <2>3. r * w \in Nat
      BY <1>1
    <2> HIDE DEF w, r, p
    <2> QED
      BY <1>1, <1>2, <1>3, <1>4, <2>1, <2>2, <2>3
  <1>5. CASE phase # TotalPhases
    <2>1. p + 1 <= r /\ EventCount = w /\ phase = p + 1
      BY <1>5, Settings DEF EventCount
    <2> HIDE DEF r, p
    <2>2. (p + 1) * w = p * w + w /\ p * w \in Nat /\ p + 1 \in Nat
      BY <1>1
    <2>3. (p + 1) * w <= r * w /\ r * w \in Nat
      BY <1>1, <2>1, <2>2, ProductMonotone
    <2>4. Base + EventCount = p * w + w
      BY <1>3, <2>1
    <2> QED
      BY <1>1, <1>2, <1>3, <2>1, <2>2, <2>3, <2>4
  <1> QED
    BY <1>4, <1>5

\* Whole batches: one more fits as long as the phase is not published.
LEMMA BatchFits ==
    ASSUME NEW b \in Nat \ {0}, NEW n \in Nat, NEW e \in Nat,
           n % b = 0, e % b = 0, n < e
    PROVE  n + b <= e /\ (n + b) % b = 0
  <1> DEFINE q == n \div b
             k == e \div b
  <1>1. /\ q \in Nat /\ n = b * q
        /\ k \in Nat /\ e = b * k
    OBVIOUS
  <1> HIDE DEF q, k
  <1>2. q < k
    <2>1. ASSUME k <= q
          PROVE  FALSE
      <3>1. k * b <= q * b
        BY <1>1, <2>1, ProductMonotone
      <3> QED
        BY <1>1, <3>1
    <2> QED
      BY <1>1, <2>1
  <1>3. (q + 1) * b <= k * b
    BY <1>1, <1>2, ProductMonotone
  <1>4. (q + 1) * b = n + b
    BY <1>1
  <1>5. ((q + 1) * b + 0) % b = 0
    <2> DEFINE m == q + 1
    <2>1. m \in Int /\ 0 \in 0..(b - 1)
      BY <1>1
    <2> HIDE DEF m
    <2>2. (m * b + 0) % b = 0
      BY <2>1, RemainderUnique
    <2> QED
      BY <2>2 DEF m
  <1> QED
    BY <1>1, <1>3, <1>4, <1>5

\* The sum grows by the value of the next event.
LEMMA TriangleNext ==
    ASSUME NEW n \in Nat
    PROVE  Triangle(n) \in Nat /\ Triangle(n + 1) = Triangle(n) + n
  <1> DEFINE x == n * (n - 1)
  <1>1. (n + 1) * ((n + 1) - 1) = x + 2 * n /\ x \in Nat
    <2>1. (n + 1) * ((n + 1) - 1) = x + 2 * n
      OBVIOUS
    <2>2. x \in Nat
      OBVIOUS
    <2> QED
      BY <2>1, <2>2
  <1> HIDE DEF x
  <1>2. (x + 2 * n) \div 2 = (x \div 2) + n /\ x \div 2 \in Nat
    BY <1>1
  <1>3. Triangle(n) = x \div 2
    BY DEF Triangle, x
  <1> QED
    BY <1>1, <1>2, <1>3 DEF Triangle

\* expected_checksum, which halves before it multiplies, is that sum.
LEMMA ExpectedIsTriangle ==
    ASSUME NEW n \in Nat
    PROVE  ExpectedChecksum(n) = Triangle(n) % Wrap
  <1> DEFINE k == n \div 2
  <1>1. k \in Nat
    OBVIOUS
  <1>2. CASE n % 2 = 0
    <2>1. n = 2 * k
      BY <1>2
    <2>2. n * (n - 1) = 2 * (k * (n - 1)) /\ k * (n - 1) \in Int
      <3> HIDE DEF k
      <3> QED
        BY <1>1, <2>1
    <2>3. Triangle(n) = k * (n - 1)
      <3> DEFINE y == k * (n - 1)
      <3>1. n * (n - 1) = 2 * y /\ y \in Int
        BY <2>2
      <3> HIDE DEF y, k
      <3>2. (2 * y) \div 2 = y
        BY <3>1
      <3> QED
        BY <3>1, <3>2 DEF Triangle, y
    <2> QED
      BY <1>2, <2>3 DEF ExpectedChecksum, Mul
  <1>3. CASE n % 2 # 0
    <2>1. n = 2 * k + 1 /\ (n - 1) \div 2 = k
      BY <1>3
    <2>2. n * (n - 1) = 2 * (n * k) /\ n * k \in Int
      <3> HIDE DEF k
      <3> QED
        BY <1>1, <2>1
    <2>3. Triangle(n) = n * k
      <3> DEFINE y == n * k
      <3>1. n * (n - 1) = 2 * y /\ y \in Int
        BY <2>2
      <3> HIDE DEF y, k
      <3>2. (2 * y) \div 2 = y
        BY <3>1
      <3> QED
        BY <3>1, <3>2 DEF Triangle, y
    <2> QED
      BY <1>3, <2>1, <2>3 DEF ExpectedChecksum, Mul
  <1> QED
    BY <1>2, <1>3

\* The checksum is accumulated modulo Wrap.
LEMMA SumWraps ==
    ASSUME NEW a \in Nat, NEW n \in 0..(Wrap - 1)
    PROVE  Add(a % Wrap, n) = (a + n) % Wrap
  <1> DEFINE q == a \div Wrap
             r == a % Wrap
  <1>1. q \in Nat /\ r \in 0..(Wrap - 1) /\ a = q * Wrap + r
    OBVIOUS
  <1> HIDE DEF q, r
  <1>2. CASE r + n < Wrap
    <2>1. a + n = q * Wrap + (r + n)
      BY <1>1
    <2>2. (q * Wrap + (r + n)) % Wrap = r + n
      <3> DEFINE t == r + n
      <3>1. t \in 0..(Wrap - 1) /\ q \in Int /\ Wrap \in Nat \ {0}
        BY <1>1, <1>2
      <3> HIDE DEF t
      <3>2. (q * Wrap + t) % Wrap = t
        BY <3>1, RemainderUnique
      <3> QED
        BY <3>2 DEF t
    <2>3. (r + n) % Wrap = r + n
      BY <1>1, <1>2
    <2> QED
      BY <2>1, <2>2, <2>3 DEF Add, r
  <1>3. CASE r + n >= Wrap
    <2>1. a + n = (q + 1) * Wrap + (r + n - Wrap)
      BY <1>1
    <2>2. ((q + 1) * Wrap + (r + n - Wrap)) % Wrap = r + n - Wrap
      <3> DEFINE t == r + n - Wrap
                 m == q + 1
      <3>1. t \in 0..(Wrap - 1) /\ m \in Int /\ Wrap \in Nat \ {0}
        BY <1>1, <1>3
      <3> HIDE DEF t, m
      <3>2. (m * Wrap + t) % Wrap = t
        BY <3>1, RemainderUnique
      <3> QED
        BY <3>2 DEF t, m
    <2>3. (r + n) % Wrap = r + n - Wrap
      BY <1>1, <1>3
    <2> QED
      BY <2>1, <2>2, <2>3 DEF Add, r
  <1> QED
    BY <1>1, <1>2, <1>3

------------------------------------------------------------------------------
(* The protocol is kept: no step needs to know of the stream.              *)

USE DEF Uncommanded, Running, Over, Preparing, Consuming, Gone

\* The calling thread's steps.
LEMMA CallerKeepsControl ==
    ASSUME ControlInv, CallingThread \/ PinThrows,
           call.pc # "idle" => producer = "publish"
    PROVE  ControlInv'
  <1> USE Settings DEF ControlInv, PhaseTypes, CallerInStep, ConsumerInStep,
                       FailuresAreTold
  <1>1. CASE MakeHandle
    BY <1>1 DEF MakeHandle, At, control, plain, consumerSide
  <1>2. CASE SetEventCount
    BY <1>2 DEF SetEventCount, At, control, plain, consumerSide
  <1>3. CASE Command
    BY <1>3 DEF Command, At, control, plain, consumerSide
  <1>4. CASE SeeReady
    BY <1>4 DEF SeeReady, At, control, plain, consumerSide
  <1>5. CASE Pin
    BY <1>5 DEF Pin, At, control, plain, consumerSide
  <1>6. CASE PinThrows
    BY <1>6 DEF PinThrows, At, control, plain, consumerSide
  <1>7. CASE Retry
    BY <1>7 DEF Retry, At, control, plain, consumerSide
  <1>8. CASE AllPublished
    BY <1>8 DEF AllPublished, At, control, plain, consumerSide
  <1>9. CASE SeeCompleted
    BY <1>9 DEF SeeCompleted, At, control, plain, consumerSide
  <1>10. CASE Validate
    BY <1>10 DEF Validate, At, control, plain, consumerSide
  <1>11. CASE Rethrow
    BY <1>11 DEF Rethrow, At, control, plain, consumerSide
  <1>12. CASE Catch
    BY <1>12 DEF Catch, At, control, plain, consumerSide
  <1>13. CASE Join
    BY <1>13 DEF Join, At, control, plain, consumerSide
  <1>14. CASE TryPublish \/ InsideTryPublish \/ Published \/ Drain
    <2>1. InsideTryPublish => call.pc # "idle"
      BY DEF InsideTryPublish, CheckBlocker, ScanConsumer, FinishRefresh,
             WriteEvent
    <2>2. /\ UNCHANGED <<control, plain, phase, thrown, consumerSide>>
          /\ \/ producer' = producer
             \/ producer = "publish" /\ producer' = "rejected"
             \/ producer = "drain" /\ producer' = "completed"
      BY <1>14, <2>1
         DEF TryPublish, InsideTryPublish, Published, Drain, producerSide
    <2> QED
      BY <2>2 DEF control, plain, consumerSide
  <1> QED
    BY <1>1, <1>2, <1>3, <1>4, <1>5, <1>6, <1>7, <1>8, <1>9, <1>10, <1>11,
       <1>12, <1>13, <1>14 DEF CallingThread

\* The consumer's steps.
LEMMA ConsumerKeepsControl ==
    ASSUME ControlInv, ConsumerThread \/ ConsumerPinThrows
    PROVE  ControlInv'
  <1> USE Settings DEF ControlInv, PhaseTypes, CallerInStep, ConsumerInStep,
                       FailuresAreTold
  <1>1. CASE MakeItsHandle
    BY <1>1 DEF MakeItsHandle, Goes, control, plain, producerSide
  <1>2. CASE SeeCommand
    BY <1>2 DEF SeeCommand, Goes, control, plain, producerSide
  <1>3. CASE ConsumerPins
    BY <1>3 DEF ConsumerPins, Goes, control, plain, producerSide
  <1>4. CASE ReadPhase
    BY <1>4 DEF ReadPhase, Goes, control, plain, producerSide
  <1>5. CASE TellReady
    BY <1>5 DEF TellReady, Goes, control, plain, producerSide
  <1>6. CASE Consume
    BY <1>6 DEF Consume, Goes, control, plain, producerSide
  <1>7. CASE PollAgain
    BY <1>7 DEF PollAgain, Goes, control, plain, producerSide
  <1>8. CASE ConsumedAll
    BY <1>8 DEF ConsumedAll, Goes, control, plain, producerSide
  <1>9. CASE StoreMeasurement
    BY <1>9 DEF StoreMeasurement, Goes, control, plain, producerSide
  <1>10. CASE TellCompleted
    BY <1>10 DEF TellCompleted, Goes, control, plain, producerSide
  <1>11. CASE GiveUp
    BY <1>11 DEF GiveUp, Goes, control, plain, producerSide
  <1>12. CASE ConsumerPinThrows
    BY <1>12 DEF ConsumerPinThrows, Goes, control, plain, producerSide
  <1>13. CASE StoreError
    BY <1>13 DEF StoreError, Goes, control, plain, producerSide
  <1>14. CASE TellFailed
    BY <1>14 DEF TellFailed, Goes, control, plain, producerSide
  <1>15. CASE Leave
    BY <1>15 DEF Leave, Goes, control, plain, producerSide
  <1>16. CASE Handle \/ Consumed
    BY <1>16 DEF Handle, Consumed, control, plain, producerSide, consumerSide
  <1> QED
    BY <1>1, <1>2, <1>3, <1>4, <1>5, <1>6, <1>7, <1>8, <1>9, <1>10, <1>11,
       <1>12, <1>13, <1>14, <1>15, <1>16 DEF ConsumerThread

------------------------------------------------------------------------------
(* The stream, seen from the phases.                                       *)

\* The numbers the steps below compare.
LEMMA PhaseNumbers ==
    ASSUME PhasesInv
    PROVE  /\ published \in SequenceType /\ consumers[Reader] \in SequenceType
           /\ published \in Nat /\ consumers[Reader] \in Nat
           /\ Base \in Nat /\ EventCount \in Nat \ {0}
           /\ Base + EventCount < Wrap
           /\ Sub(published, consumers[Reader]) = published - consumers[Reader]
           /\ phase \in 1..TotalPhases
           /\ take[Reader].reading \in BOOLEAN
           /\ take[Reader].count \in Nat /\ take[Reader].index \in Nat
  <1>1. IInv /\ Reader \in Consumers /\ phase \in 1..TotalPhases
    BY Settings DEF PhasesInv, ControlInv, PhaseTypes
  <1>2. published \in SequenceType /\ consumers[Reader] \in SequenceType
    BY <1>1, Window
  <1>3. consumers[Reader] <= published
    BY DEF PhasesInv, StreamInv, PhaseInTheStream
  <1>4. SubIs(published, consumers[Reader])
    BY <1>2, SubCases
  <1>5. Sub(published, consumers[Reader]) = published - consumers[Reader]
    BY <1>2, <1>3, <1>4 DEF SubIs, SequenceType
  <1>6. published \in Nat /\ consumers[Reader] \in Nat
    BY <1>2 DEF SequenceType
  <1>7. Base \in Nat /\ Base + EventCount < Wrap /\ EventCount \in Nat \ {0}
    BY <1>1, BaseFits, Settings
  <1>8. take[Reader] \in TakeType
    BY <1>1 DEF IInv, TypeOK
  <1> QED
    BY <1>1, <1>2, <1>5, <1>6, <1>7, <1>8 DEF TakeType

\* A step that stays in its phase and moves nothing in the ring.
StreamStands ==
    UNCHANGED <<published, consumers, phase, call, chandle, take>>

\* The steps of the calling thread outside the disruptor, within a phase.
LEMMA CallerPlainStep ==
    ASSUME PhasesInv, UNCHANGED vars,
           \/ SetEventCount \/ Command \/ SeeReady \/ Pin \/ PinThrows
           \/ Retry \/ AllPublished \/ SeeCompleted \/ Rethrow \/ Catch
    PROVE  StreamInv'
  <1> USE DEF PhasesInv, StreamInv
  <1>1. StreamStands
    BY DEF StreamStands, vars, producerVars, consumerVars, pubVars, ackVars,
           SetEventCount, Command, SeeReady, Pin, PinThrows, Retry,
           AllPublished, SeeCompleted, Rethrow, Catch
  <1>2. UNCHANGED <<Base, EventCount, Index>>
    BY <1>1 DEF StreamStands, Base, EventCount, Index
  <1>3. UNCHANGED <<consumer, current, phase_measurement, completed_phase>>
    BY DEF SetEventCount, Command, SeeReady, Pin, PinThrows, Retry,
           AllPublished, SeeCompleted, Rethrow, Catch, control, plain,
           consumerSide
  <1>4. ConsumerMeasures' /\ HandlesLive'
    <2>1. elapsed' = elapsed /\ (thrown' = thrown \/ thrown' # "validation")
      BY DEF SetEventCount, Command, SeeReady, Pin, PinThrows, Retry,
             AllPublished, SeeCompleted, Rethrow, Catch
    <2>2. \A n : Measured(n)' = Measured(n)
      BY <1>2 DEF Measured
    <2> QED
      BY <1>1, <1>2, <1>3, <2>1, <2>2
         DEF StreamStands, ConsumerMeasures, HandlesLive
  <1>5. CASE Pin
    <2>1. final' = Base + EventCount /\ published = Base
      <3>1. AddIs(published, EventCount) /\ published = Base
        <4>1. published = Base /\ EventCount \in SequenceType
          BY <1>5, PhaseNumbers DEF Pin, At, PhaseInTheStream, SequenceType
        <4> QED
          BY <4>1, PhaseNumbers, AddCases
      <3> QED
        BY <1>5, <3>1, PhaseNumbers DEF Pin, AddIs
    <2>2. 0 % ProducerBatch = 0
      BY Settings
    <2> QED
      BY <1>1, <1>2, <1>4, <1>5, <2>1, <2>2, PhaseNumbers
         DEF Pin, At, StreamStands, PhaseInTheStream, PostedBatches, plain
  <1>6. CASE ~Pin
    <2>1. UNCHANGED <<posted, final>>
      BY <1>6 DEF SetEventCount, Command, SeeReady, PinThrows, Retry,
                  AllPublished, SeeCompleted, Rethrow, Catch
    <2>2. PhaseInTheStream'
      BY <1>1, <1>2, <1>6, <2>1
         DEF StreamStands, PhaseInTheStream, SetEventCount, Command, SeeReady,
             PinThrows, Retry, AllPublished, SeeCompleted, Rethrow, Catch, At
    <2>3. ASSUME SetEventCount
          PROVE  PostedBatches'
      BY <1>1, <1>2, <2>1, <2>3
         DEF SetEventCount, At, StreamStands, PostedBatches
    <2>4. ASSUME AllPublished
          PROVE  PostedBatches'
      <3>1. /\ producer = "publish" /\ producer' = "drain" /\ posted >= EventCount
            /\ phase_event_count' = phase_event_count /\ call.pc = "idle"
        BY <2>4 DEF AllPublished, At, plain
      <3> QED
        BY <1>1, <1>2, <2>1, <3>1, PhaseNumbers DEF StreamStands, PostedBatches
    <2>5. ASSUME ~SetEventCount /\ ~AllPublished
          PROVE  PostedBatches'
      <3>1. /\ producer \notin {"new", "count", "publish"}
            /\ phase_event_count' = phase_event_count
            /\ \/ producer' \in {"ready", "pin", "catch", "join"}
               \/ producer = "rejected" /\ producer' = "publish"
               \/ producer = "completed" /\ producer' = "validate"
        BY <1>6, <2>5 DEF Command, SeeReady, PinThrows, Retry, SeeCompleted,
                          Rethrow, Catch, At, plain
      <3> QED
        BY <1>1, <1>2, <2>1, <3>1 DEF StreamStands, PostedBatches
    <2> QED
      BY <1>4, <2>2, <2>3, <2>4, <2>5
  <1> QED
    BY <1>5, <1>6

\* Validation fails only for a clock that stood still; otherwise the next phase
\* starts where this one has ended.
LEMMA ValidateStep ==
    ASSUME PhasesInv, Validate
    PROVE  StreamInv'
  <1> USE DEF PhasesInv, StreamInv
  <1>1. /\ producer = "validate" /\ completed_phase = phase
        /\ published = Base + EventCount /\ consumers[Reader] = published
        /\ call.pc = "idle" /\ posted \in Nat /\ posted % ProducerBatch = 0
        /\ phase_measurement = Measured(EventCount)
        /\ phase_event_count = EventCount /\ final = Base + EventCount
        /\ elapsed \in {0, 1} /\ thrown = "none"
    BY DEF Validate, ControlInv, CallerInStep, FailuresAreTold, PostedBatches,
           ConsumerMeasures
  <1>2. consumer \notin {"ready"} \cup Consuming /\ phase \in Nat
    BY <1>1, PhaseNumbers DEF ControlInv, ConsumerInStep
  <1>3. Valid(phase_measurement) <=> elapsed # 0
    BY <1>1, PhaseNumbers, ExpectedIsTriangle DEF Valid, Measured
  <1>4. /\ UNCHANGED <<published, consumers, call, chandle, take>>
        /\ UNCHANGED <<consumer, current, phase_measurement, phase_event_count>>
        /\ UNCHANGED <<completed_phase, posted, final, elapsed>>
        /\ thrown' = "validation" => elapsed = 0
        /\ \/ producer' \in {"catch", "join"} /\ phase' = phase
           \/ producer' = "count" /\ phase' = phase + 1 /\ phase # TotalPhases
    BY <1>1, <1>3 DEF Validate, vars, control, plain, consumerSide, producerVars,
                consumerVars, pubVars, ackVars
  <1>5. CASE producer' \in {"catch", "join"} /\ phase' = phase
    <2>1. UNCHANGED <<Base, EventCount, Index>> /\ \A n : Measured(n)' = Measured(n)
      BY <1>4, <1>5 DEF Base, EventCount, Index, Measured
    <2> QED
      BY <1>1, <1>2, <1>4, <1>5, <2>1
         DEF PhaseInTheStream, PostedBatches, ConsumerMeasures, HandlesLive
  <1>6. CASE producer' = "count" /\ phase' = phase + 1 /\ phase # TotalPhases
    <2>1. phase' \in 1..TotalPhases /\ Base' = phase * WarmupEvents
      <3>1. phase \in 1..TotalPhases
        BY PhaseNumbers
      <3>2. TotalPhases \in Nat
        BY Settings
      <3>3. phase' \in 1..TotalPhases /\ phase' - 1 = phase
        BY <1>6, <3>1, <3>2
      <3> QED
        BY <3>3 DEF Base
    <2>2. Base' = published
      BY <1>1, <1>6, <2>1, PhaseNumbers, BaseFits
    <2>3. EventCount' \in Nat
      BY Settings DEF EventCount
    <2>4. PhaseInTheStream'
      BY <1>1, <1>4, <1>6, <2>2, <2>3, PhaseNumbers DEF PhaseInTheStream
    <2>5. PostedBatches' /\ HandlesLive'
      BY <1>1, <1>4, <1>6 DEF PostedBatches, HandlesLive
    <2>6. ConsumerMeasures'
      BY <1>1, <1>2, <1>4, <1>6 DEF ConsumerMeasures
    <2> QED
      BY <2>4, <2>5, <2>6
  <1> QED
    BY <1>4, <1>5, <1>6

\* Making and dropping the producer handle.
LEMMA HandleLifeStep ==
    ASSUME PhasesInv, MakeHandle \/ Join
    PROVE  IInv' /\ StreamInv'
  <1> USE DEF PhasesInv, StreamInv
  <1>1. /\ MakeProducer(Producer) \/ DestroyProducer(Producer)
        /\ UNCHANGED <<control, plain, phase, posted, final, elapsed, thrown,
                       consumerSide>>
        /\ \/ producer = "new" /\ producer' = "count"
           \/ producer = "join" /\ producer' \in {"threw", "returned"}
    BY DEF MakeHandle, Join, At
  <1>2. IInv'
    BY <1>1, Settings, MakeProducerStep, DestroyProducerStep
  <1>3. StreamStands
    BY <1>1 DEF StreamStands, MakeProducer, DestroyProducer, consumerVars,
                pubVars, ackVars
  <1>4. UNCHANGED <<Base, EventCount, Index>>
    BY <1>3 DEF StreamStands, Base, EventCount, Index
  <1>5. \A n : Measured(n)' = Measured(n)
    BY <1>4 DEF Measured
  <1>6. PhaseInTheStream' /\ PostedBatches' /\ HandlesLive'
    BY <1>1, <1>3, <1>4
       DEF StreamStands, PhaseInTheStream, PostedBatches, HandlesLive, plain,
           consumerSide
  <1>7. ConsumerMeasures'
    BY <1>1, <1>3, <1>4, <1>5
       DEF StreamStands, ConsumerMeasures, control, plain, consumerSide
  <1> QED
    BY <1>2, <1>6, <1>7

\* The publication loop of a phase.
LEMMA PublishingStep ==
    ASSUME PhasesInv, TryPublish \/ InsideTryPublish \/ Published \/ Drain
    PROVE  IInv' /\ StreamInv'
  <1> USE DEF PhasesInv, StreamInv
  <1>1. UNCHANGED <<phase, final, thrown, consumer, current, phase_measurement,
                    completed_phase, phase_event_count>>
    BY DEF TryPublish, InsideTryPublish, Published, Drain, control, plain,
           producerSide, consumerSide
  <1>2. /\ IInv'
        /\ UNCHANGED <<consumers, take>> /\ chandle' = chandle
        /\ \/ /\ UNCHANGED <<published, posted>>
              /\ \/ producer' = producer
                 \/ producer = "drain" /\ producer' = "completed"
                 \/ /\ producer = "publish" /\ producer' = "rejected"
                    /\ call'.pc = "idle"
              /\ \/ call'.pc = "idle"
                 \/ /\ producer = "publish" /\ posted < EventCount
                    /\ call'.count = ProducerBatch
           \/ Published
    <2>1. CASE TryPublish
      <3>1. /\ TryPublishBatch(Producer, ProducerBatch)
            /\ producer = "publish" /\ posted < EventCount
            /\ UNCHANGED <<producer, posted>>
        BY <2>1 DEF TryPublish, producerSide
      <3>2. IInv'
        BY <3>1, Settings, TryPublishBatchStep
      <3> QED
        BY <3>1, <3>2
           DEF TryPublishBatch, Calling, consumerVars, pubVars, ackVars
    <2>2. CASE InsideTryPublish
      <3>1. /\ CheckBlocker \/ ScanConsumer \/ FinishRefresh \/ WriteEvent
            /\ producer' = IF call'.pc = "idle" THEN "rejected" ELSE producer
            /\ posted' = posted
        BY <2>2 DEF InsideTryPublish
      <3>2. /\ IInv' /\ UNCHANGED <<pubVars, consumers, consumerVars>>
            /\ call.pc # "idle"
            /\ call'.pc = "idle" \/ call'.count = call.count
        BY <3>1, InsideACall
      <3>3. /\ producer = "publish" /\ posted < EventCount
            /\ call.count = ProducerBatch
        BY <3>2 DEF PostedBatches
      <3> QED
        BY <3>1, <3>2, <3>3 DEF pubVars, consumerVars
    <2>3. CASE Drain
      <3>1. PICK v \in ackView[Reader] :
              /\ AcquireConsumer(Reader, v)
              /\ \/ v < final /\ UNCHANGED producer
                 \/ v >= final /\ producer' = "completed"
        BY <2>3 DEF Drain
      <3>2. /\ UNCHANGED <<events, producerVars, consumerVars, pubVars>>
            /\ posted' = posted /\ producer = "drain"
        BY <2>3 DEF Drain
      <3>3. call.pc = "idle"
        BY <3>2 DEF PostedBatches
      <3>4. IInv'
        BY <3>1, <3>2, <3>3, Settings, ReadPositionStep
      <3> QED
        BY <3>1, <3>2, <3>3, <3>4
           DEF AcquireConsumer, producerVars, consumerVars, pubVars
    <2>4. CASE Published
      <3>1. Publish
        BY <2>4 DEF Published
      <3>2. IInv'
        BY <3>1, PublishStep
      <3> QED
        BY <2>4, <3>1, <3>2 DEF Publish, consumerVars, ackVars
    <2> QED
      BY <2>1, <2>2, <2>3, <2>4
  <1>3. UNCHANGED <<Base, EventCount, Index>>
    BY <1>1, <1>2 DEF Base, EventCount, Index
  <1>4. ConsumerMeasures' /\ HandlesLive'
    <2>1. \A n : Measured(n)' = Measured(n)
      BY <1>3 DEF Measured
    <2>2. elapsed' \in {0, 1} /\ thrown = "none"
      <3>1. producer \in {"publish", "drain"}
        BY InsideACall
           DEF TryPublish, InsideTryPublish, Published, Publish, Drain,
               PostedBatches
      <3>2. elapsed' \in {0, 1}
        BY DEF TryPublish, InsideTryPublish, Published, Drain, producerSide,
               ConsumerMeasures
      <3> QED
        BY <3>1, <3>2 DEF ControlInv, FailuresAreTold
    <2> QED
      BY <1>1, <1>2, <1>3, <2>1, <2>2 DEF ConsumerMeasures, HandlesLive
  <1>5. CASE ~Published
    <2>1. PhaseInTheStream'
      BY <1>1, <1>2, <1>3, <1>5 DEF PhaseInTheStream
    <2>2. PostedBatches'
      BY <1>1, <1>2, <1>3, <1>5 DEF PostedBatches
    <2> QED
      BY <1>2, <1>4, <2>1, <2>2
  <1>6. CASE Published
    <2>1. /\ Publish /\ posted' = posted + ProducerBatch /\ producer' = producer
      BY <1>6 DEF Published
    <2>2. call.pc # "idle" /\ call'.pc = "idle"
      BY <2>1 DEF Publish, Idle, Calling
    <2>3. /\ producer = "publish" /\ posted < EventCount
          /\ call.count = ProducerBatch /\ published = Base + posted
          /\ posted \in Nat /\ posted % ProducerBatch = 0
          /\ final = Base + EventCount
      BY <2>2 DEF PostedBatches
    <2>4. /\ posted + ProducerBatch <= EventCount
          /\ (posted + ProducerBatch) % ProducerBatch = 0
      BY <2>3, Settings, BatchFits
    <2>5. published' = published + ProducerBatch
      <3>1. published' = Add(published, ProducerBatch)
        BY <2>1, <2>3, PublishMoves
      <3>2. ProducerBatch \in SequenceType
        BY <2>3, <2>4, PhaseNumbers, Settings DEF SequenceType
      <3>3. AddIs(published, ProducerBatch)
        BY <3>2, PhaseNumbers, AddCases
      <3> QED
        BY <2>3, <2>4, <3>1, <3>3, PhaseNumbers, Settings DEF AddIs
    <2>6. posted' \in Nat /\ posted' % ProducerBatch = 0
      BY <2>1, <2>3, <2>4, Settings
    <2>7. PhaseInTheStream'
      BY <1>1, <1>2, <1>3, <2>1, <2>3, <2>4, <2>5, PhaseNumbers, Settings
         DEF PhaseInTheStream
    <2>8. PostedBatches'
      BY <1>1, <1>3, <2>1, <2>2, <2>3, <2>4, <2>5, <2>6, PhaseNumbers, Settings
         DEF PostedBatches
    <2> QED
      BY <1>2, <1>4, <2>7, <2>8
  <1> QED
    BY <1>2, <1>4, <1>5, <1>6

\* The consumer's steps leave the calling thread's part of the stream alone, as
\* long as they release nothing.
LEMMA CallerFrame ==
    ASSUME PhasesInv, UNCHANGED <<published, consumers, call>>,
           UNCHANGED <<producerSide, phase_event_count>>
    PROVE  /\ PhaseInTheStream' /\ PostedBatches'
           /\ UNCHANGED <<Base, EventCount>> /\ \A n : Measured(n)' = Measured(n)
  <1>1. UNCHANGED <<Base, EventCount>>
    BY DEF producerSide, Base, EventCount
  <1>2. \A n : Measured(n)' = Measured(n)
    BY <1>1 DEF Measured
  <1>3. PhaseInTheStream' /\ PostedBatches'
    BY <1>1 DEF PhasesInv, StreamInv, PhaseInTheStream, PostedBatches,
                producerSide
  <1> QED
    BY <1>1, <1>2, <1>3

\* While the consumer prepares, the calling thread waits for it.
LEMMA PreparingIsAwaited ==
    ASSUME ControlInv, consumer \in {"pin", "read"}
    PROVE  producer = "ready"
  BY DEF ControlInv, PhaseTypes, CallerInStep, ConsumerInStep, FailuresAreTold

\* The consumer's steps outside the disruptor.
LEMMA ConsumerPlainStep ==
    ASSUME PhasesInv, UNCHANGED vars,
           \/ SeeCommand \/ ConsumerPins \/ ReadPhase \/ TellReady \/ PollAgain
           \/ ConsumedAll \/ StoreMeasurement \/ TellCompleted \/ GiveUp
           \/ ConsumerPinThrows \/ StoreError \/ TellFailed
    PROVE  StreamInv'
  <1> USE DEF PhasesInv, StreamInv
  <1>1. /\ UNCHANGED <<published, consumers, call, chandle, take>>
        /\ UNCHANGED <<producerSide, phase_event_count>>
    BY DEF vars, producerVars, consumerVars, pubVars, ackVars, SeeCommand,
           ConsumerPins, ReadPhase, TellReady, PollAgain, ConsumedAll,
           StoreMeasurement, TellCompleted, GiveUp, ConsumerPinThrows,
           StoreError, TellFailed, plain
  <1>2. /\ PhaseInTheStream' /\ PostedBatches' /\ UNCHANGED <<Base, EventCount>>
        /\ \A n : Measured(n)' = Measured(n)
    BY <1>1, CallerFrame
  <1>3. Index' = Index /\ phase' = phase /\ UNCHANGED <<elapsed, thrown>>
    BY <1>1 DEF Index, producerSide
  <1>4. consumer # "consume" => Index = 0
    BY DEF HandlesLive, Index
  <1>5. HandlesLive'
    BY <1>1, PhaseNumbers
       DEF HandlesLive, SeeCommand, ConsumerPins, ReadPhase, TellReady,
           PollAgain, ConsumedAll, StoreMeasurement, TellCompleted, GiveUp,
           ConsumerPinThrows, StoreError, TellFailed, Goes
  <1>6. ConsumerMeasures'
    <2> USE DEF ConsumerMeasures
    <2>1. CASE ReadPhase
      <3>1. /\ consumer = "read" /\ consumer' = "ready"
            /\ UNCHANGED <<completed_phase, phase_measurement>>
            /\ current' = [NoResult EXCEPT !.first_sequence = chandle[Reader].next,
                                           !.event_count = phase_event_count]
        BY <2>1 DEF ReadPhase, Goes, control, plain
      <3>2. producer = "ready" /\ published = Base /\ phase_event_count = EventCount
        BY <3>1, PreparingIsAwaited DEF PhaseInTheStream, PostedBatches
      <3>3. consumers[Reader] = Base
        BY <3>2, PhaseNumbers DEF PhaseInTheStream
      <3>4. chandle[Reader].next = Base
        BY <3>1, <3>3, Settings DEF HandlesLive, IInv, ConsumerInv
      <3>5. Triangle(0) % Wrap = 0
        BY DEF Triangle
      <3>6. current' = Measured(0) /\ current'.consumed = 0
        BY <3>1, <3>2, <3>4, <3>5 DEF NoResult, Measured
      <3> QED
        BY <1>1, <1>2, <1>3, <1>4, <3>1, <3>3, <3>6, PhaseNumbers
    <2>2. CASE ConsumedAll
      <3>1. /\ consumer = "consume" /\ consumer' = "store"
            /\ ~take[Reader].reading /\ current.consumed >= current.event_count
            /\ UNCHANGED <<completed_phase, phase_measurement, current>>
        BY <2>2 DEF ConsumedAll, Goes, control, plain
      <3>2. /\ current.consumed \in Nat /\ current.event_count = EventCount
            /\ consumers[Reader] + 0 = Base + current.consumed
        BY <3>1 DEF Measured, Index
      <3>3. current.consumed = EventCount
        <4>1. /\ consumers[Reader] <= published /\ published <= Base + EventCount
              /\ consumers[Reader] \in Nat /\ published \in Nat
              /\ Base \in Nat /\ EventCount \in Nat
          BY PhaseNumbers DEF PhaseInTheStream
        <4>2. current.consumed <= EventCount
          BY <3>2, <4>1
        <4> QED
          BY <3>1, <3>2, <4>1, <4>2
      <3> QED
        BY <1>1, <1>2, <1>3, <3>1, <3>3
    <2>3. CASE StoreMeasurement
      <3>1. /\ consumer = "store" /\ consumer' = "report"
            /\ phase_measurement' = current
            /\ UNCHANGED <<completed_phase, current>>
        BY <2>3 DEF StoreMeasurement, Goes, control
      <3>2. completed_phase # phase
        BY <3>1, PhaseNumbers DEF ControlInv, ConsumerInStep
      <3> QED
        BY <1>1, <1>2, <1>3, <3>1, <3>2
    <2>4. CASE TellCompleted
      <3>1. /\ consumer = "report" /\ consumer' \in {"leave", "waiting"}
            /\ UNCHANGED <<phase_measurement, current>>
        BY <2>4 DEF TellCompleted, plain
      <3>2. /\ consumers[Reader] = Base + EventCount
            /\ phase_measurement = Measured(EventCount)
        BY <1>4, <3>1, PhaseNumbers
      <3> QED
        BY <1>1, <1>2, <1>3, <3>1, <3>2
    <2>5. CASE ~ReadPhase /\ ~ConsumedAll /\ ~StoreMeasurement /\ ~TellCompleted
      <3>1. /\ UNCHANGED <<phase_measurement, current, completed_phase>>
            /\ \/ consumer' \in {"pin", "read", "leave", "throw", "fail"}
               \/ /\ consumer \in {"ready", "empty"} /\ consumer' = "consume"
        BY <2>5 DEF SeeCommand, ConsumerPins, TellReady, PollAgain, GiveUp,
                    ConsumerPinThrows, StoreError, TellFailed, Goes, control,
                    plain
      <3> QED
        BY <1>1, <1>2, <1>3, <3>1
    <2> QED
      BY <2>1, <2>2, <2>3, <2>4, <2>5
  <1> QED
    BY <1>2, <1>5, <1>6

\* The consumer's handle, its polls and the memory it reads: nothing is handled.
LEMMA PollingStep ==
    ASSUME PhasesInv, MakeItsHandle \/ Leave \/ Consume \/ Memory
    PROVE  IInv' /\ StreamInv'
  <1> USE DEF PhasesInv, StreamInv
  <1>1. \/ MakeConsumer(Reader) \/ DropConsumer(Reader)
        \/ ConsumeCached(Reader, DrainLimit) \/ ConsumeReloading(Reader, DrainLimit)
        \/ PublishedPropagates(Reader) \/ ReleasePropagates(Reader)
    BY DEF MakeItsHandle, Leave, Consume, Memory
  <1>2. IInv'
    BY <1>1, Settings, MakeConsumerStep, DropConsumerStep, ConsumeCachedStep,
       ConsumeReloadingStep, PublishedPropagatesStep, ReleasePropagatesStep
  <1>3. UNCHANGED <<published, consumers, call>>
    BY <1>1 DEF MakeConsumer, DropConsumer, ConsumeCached, ConsumeReloading,
                PublishedPropagates, ReleasePropagates, AcquirePublished,
                producerVars, pubVars, ackVars
  <1>4. /\ UNCHANGED <<producerSide, phase_event_count, phase_measurement>>
        /\ UNCHANGED <<completed_phase, current>>
    BY DEF MakeItsHandle, Leave, Consume, Memory, control, plain, consumerSide
  <1>5. /\ PhaseInTheStream' /\ PostedBatches' /\ UNCHANGED <<Base, EventCount>>
        /\ \A n : Measured(n)' = Measured(n)
    BY <1>3, <1>4, CallerFrame
  <1>6. phase' = phase /\ UNCHANGED <<elapsed, thrown>>
    BY <1>4 DEF producerSide
  <1>7. IInv /\ Reader \in Consumers /\ chandle[Reader] \in HandleType
    BY Settings DEF IInv, TypeOK
  <1>8. CASE MakeItsHandle \/ Leave \/ Memory
    <2>1. /\ take' = take
          /\ \/ MakeItsHandle /\ consumer = "new" /\ consumer' = "waiting"
                /\ chandle'[Reader].live
             \/ Leave /\ consumer = "leave" /\ consumer' = "returned"
                /\ ~chandle'[Reader].live
             \/ Memory /\ consumer' = consumer /\ chandle' = chandle
      <3>1. chandle \in [Consumers -> HandleType]
        BY DEF IInv, TypeOK
      <3> QED
        BY <1>7, <1>8, <3>1
           DEF MakeItsHandle, Leave, Memory, Goes, MakeConsumer, DropConsumer,
               NoHandle, PublishedPropagates, ReleasePropagates, consumerVars,
               consumerSide
    <2>2. Index' = Index
      BY <2>1 DEF Index
    <2>3. ConsumerMeasures'
      BY <1>3, <1>4, <1>5, <1>6, <2>1, <2>2 DEF ConsumerMeasures
    <2>4. HandlesLive'
      BY <2>1 DEF HandlesLive
    <2> QED
      BY <1>2, <1>5, <2>3, <2>4
  <1>9. CASE Consume
    <2>1. /\ consumer = "consume"
          /\ consumer' = IF take'[Reader].reading THEN consumer ELSE "empty"
          /\ ConsumeCached(Reader, DrainLimit) \/ ConsumeReloading(Reader, DrainLimit)
      BY <1>9 DEF Consume
    <2>2. ~take[Reader].reading /\ chandle[Reader].live
      BY <2>1 DEF ConsumeCached, ConsumeReloading
    <2>3. PICK a : /\ a = chandle[Reader].cached \/ a \in pubView[Reader]
                   /\ take' = [take EXCEPT ![Reader] =
                         Taking(chandle[Reader].next, a, DrainLimit, "handle")]
      BY <2>1 DEF ConsumeCached, ConsumeReloading
    <2>4. /\ a \in SequenceType /\ Sub(a, consumers[Reader]) <= Capacity
          /\ chandle[Reader].next = consumers[Reader]
      <3>1. /\ chandle[Reader].next = consumers[Reader]
            /\ Sub(chandle[Reader].cached, consumers[Reader])
                 <= Sub(pubAcquired[Reader], consumers[Reader])
        BY <1>7, <2>2 DEF IInv, ConsumerInv
      <3>2. /\ chandle[Reader].cached \in SequenceType
            /\ pubView[Reader] \subseteq SequenceType
        BY <1>7 DEF IInv, TypeOK, HandleType
      <3>3. a \in pubView[Reader] => Sub(a, consumers[Reader])
                                       <= Sub(published, consumers[Reader])
        BY <1>7 DEF IInv, PubOrder
      <3>4. /\ Sub(pubAcquired[Reader], consumers[Reader]) \in 0..Capacity
            /\ Sub(published, consumers[Reader]) \in 0..Capacity
            /\ consumers[Reader] \in SequenceType
        BY <1>7, Window
      <3>5. a \in SequenceType /\ Sub(a, consumers[Reader]) \in SequenceType
        BY <2>3, <3>2, <3>4, ArithmeticType
      <3> QED
        BY <2>3, <3>1, <3>3, <3>4, <3>5 DEF SequenceType
    <2>5. take'[Reader] = Taking(consumers[Reader], a, DrainLimit, "handle")
      BY <1>7, <2>3, <2>4 DEF IInv, TypeOK
    <2>6. take'[Reader].reading => /\ take'[Reader].index = 0
                                   /\ take'[Reader].count >= 1
      <3>1. consumers[Reader] \in SequenceType /\ DrainLimit \in Nat \ {0}
        BY PhaseNumbers, Settings
      <3> QED
        BY <2>4, <2>5, <3>1, TakingResult
    <2>7. Index' = Index
      BY <2>2, <2>6 DEF Index
    <2>8. chandle'[Reader].live
      <3>1. chandle \in [Consumers -> HandleType]
        BY DEF IInv, TypeOK
      <3> QED
        BY <1>7, <2>1, <2>2, <3>1 DEF ConsumeCached, ConsumeReloading, HandleType
    <2>9. ConsumerMeasures'
      BY <1>3, <1>4, <1>5, <1>6, <2>1, <2>7 DEF ConsumerMeasures
    <2>10. HandlesLive'
      BY <2>1, <2>6, <2>8 DEF HandlesLive
    <2> QED
      BY <1>2, <1>5, <2>9, <2>10
  <1> QED
    BY <1>8, <1>9

\* The handler: the value is the event's place within its phase, the sequence
\* its place in the stream, and both are the next of the phase.
LEMMA HandleStep ==
    ASSUME PhasesInv, Handle
    PROVE  IInv' /\ StreamInv'
  <1> USE DEF PhasesInv, StreamInv
  <1> DEFINE t == take[Reader]
             sequence == Add(t.first, t.index)
             value == Sub(events[ConsumeSlot(Reader)], Sub(final, EventCount))
  <1>0. PICK n : n = current.consumed
    OBVIOUS
  <1>1. /\ HandleEvent(Reader) /\ Reader \in Consumers
        /\ UNCHANGED <<control, plain, producerSide, consumer, turn>>
    BY Settings DEF Handle
  <1>2. IInv'
    BY <1>1, HandleEventStep
  <1>3. /\ t.reading /\ t.index < t.count
        /\ take' = [take EXCEPT ![Reader].index = @ + 1]
        /\ UNCHANGED <<published, consumers, call, chandle>>
    BY <1>1 DEF HandleEvent, producerVars, pubVars, ackVars
  <1>4. /\ PhaseInTheStream' /\ PostedBatches' /\ UNCHANGED <<Base, EventCount>>
        /\ \A m : Measured(m)' = Measured(m)
    <2>1. UNCHANGED phase_event_count
      BY <1>1 DEF plain
    <2> QED
      BY <1>1, <1>3, <2>1, CallerFrame
  <1>5. /\ consumer = "consume" /\ n \in Nat /\ current = Measured(n)
        /\ consumers[Reader] + t.index = Base + n
    BY <1>0, <1>3 DEF HandlesLive, ConsumerMeasures, Index
  <1>6. /\ t.index \in Nat /\ t.count \in Nat /\ t.first = consumers[Reader]
        /\ t.count <= published - consumers[Reader]
    <2>1. /\ t.first = consumers[Reader]
          /\ t.count <= Sub(pubAcquired[Reader], consumers[Reader])
      BY <1>1, <1>3 DEF IInv, ConsumerInv
    <2>2. /\ Sub(pubAcquired[Reader], consumers[Reader])
               <= Sub(published, consumers[Reader])
          /\ Sub(pubAcquired[Reader], consumers[Reader]) \in 0..Capacity
          /\ Sub(published, consumers[Reader]) \in 0..Capacity
      BY <1>1, Window
    <2>3. /\ t.index \in Nat /\ t.count \in Nat
          /\ Sub(published, consumers[Reader]) = published - consumers[Reader]
      BY PhaseNumbers
    <2> HIDE DEF t
    <2> QED
      BY <2>1, <2>2, <2>3
  <1>7. /\ Base + n < published /\ published <= Base + EventCount
        /\ final = Base + EventCount /\ n < EventCount /\ n < Wrap
        /\ Base + n < Wrap
    <2>1. Base + n < published
      <3> HIDE DEF t
      <3> QED
        BY <1>3, <1>5, <1>6, PhaseNumbers
    <2>2. published <= Base + EventCount /\ (published # Base => final = Base + EventCount)
      BY DEF PhaseInTheStream
    <2>3. /\ published \in Nat /\ Base \in Nat /\ EventCount \in Nat /\ n \in Nat
          /\ Base + EventCount < Wrap
      BY <1>5, PhaseNumbers
    <2> QED
      BY <2>1, <2>2, <2>3
  <1>8. sequence = Base + n /\ events[ConsumeSlot(Reader)] = Base + n
    <2>1. events[ConsumeSlot(Reader)] = sequence
      BY <1>1, <1>3, HandlersReadTheirSlots DEF HandlerGetsItsEvent
    <2>2. /\ t.first + t.index = Base + n /\ t.first \in SequenceType
          /\ t.index \in SequenceType
      <3>1. consumers[Reader] \in Nat /\ Base \in Nat
        BY PhaseNumbers
      <3> QED
        BY <1>5, <1>6, <1>7, <3>1 DEF SequenceType
    <2>3. AddIs(t.first, t.index)
      BY <2>2, AddCases
    <2>4. sequence = Base + n
      BY <1>7, <2>2, <2>3 DEF AddIs
    <2> QED
      BY <2>1, <2>4
  <1>9. value = n /\ Add(Base, n) = Base + n
    <2>1. /\ Base \in SequenceType /\ EventCount \in SequenceType
          /\ final \in SequenceType /\ Base + n \in SequenceType
          /\ n \in SequenceType
      BY <1>5, <1>7, PhaseNumbers DEF SequenceType
    <2>2. SubIs(final, EventCount) /\ SubIs(Base + n, Base) /\ AddIs(Base, n)
      BY <2>1, SubCases, AddCases
    <2>3. Sub(final, EventCount) = Base
      BY <1>7, <2>1, <2>2, PhaseNumbers DEF SubIs
    <2>4. Sub(Base + n, Base) = n
      BY <1>5, <2>2, PhaseNumbers DEF SubIs
    <2>5. Add(Base, n) = Base + n
      BY <1>7, <2>2 DEF AddIs
    <2> QED
      BY <1>8, <2>3, <2>4, <2>5
  <1>10. Add(Triangle(n) % Wrap, n) = Triangle(n + 1) % Wrap
    <2>1. Triangle(n) \in Nat /\ Triangle(n + 1) = Triangle(n) + n
      BY <1>5, TriangleNext
    <2>2. n \in 0..(Wrap - 1)
      BY <1>5, <1>7
    <2>3. Add(Triangle(n) % Wrap, n) = (Triangle(n) + n) % Wrap
      BY <2>1, <2>2, SumWraps
    <2> QED
      BY <2>1, <2>3
  <1>11. current' = Measured(n + 1)
    <2>1. current' = [current EXCEPT
                !.consumed = @ + 1,
                !.checksum = Add(@, value),
                !.mismatch = \/ @
                             \/ value # current.consumed
                             \/ sequence # Add(current.first_sequence,
                                               current.consumed)]
      BY DEF Handle
    <2>2. /\ current.checksum = Triangle(n) % Wrap /\ current.mismatch = FALSE
          /\ current.first_sequence = Base
      BY <1>5 DEF Measured
    <2>3. Add(current.checksum, value) = Triangle(n + 1) % Wrap
      BY <1>9, <1>10, <2>2
    <2>4. (\/ current.mismatch
           \/ value # current.consumed
           \/ sequence # Add(current.first_sequence, current.consumed)) = FALSE
      BY <1>0, <1>8, <1>9, <2>2
    <2> HIDE DEF value, sequence
    <2>5. current' = [current EXCEPT !.consumed = n + 1,
                                     !.checksum = Triangle(n + 1) % Wrap,
                                     !.mismatch = FALSE]
      BY <1>0, <2>1, <2>3, <2>4
    <2> DEFINE sum == Triangle(n + 1) % Wrap
               old == Triangle(n) % Wrap
               next == n + 1
    <2>6. /\ current = [first_sequence |-> Base, event_count |-> EventCount,
                        consumed |-> n, checksum |-> old, mismatch |-> FALSE]
          /\ current' = [current EXCEPT !.consumed = next, !.checksum = sum,
                                        !.mismatch = FALSE]
      BY <1>5, <2>5 DEF Measured
    <2>7. Measured(n + 1) = [first_sequence |-> Base, event_count |-> EventCount,
                             consumed |-> next, checksum |-> sum,
                             mismatch |-> FALSE]
      BY DEF Measured
    <2> HIDE DEF sum, old, next
    <2>8. current' \in [first_sequence : {Base}, event_count : {EventCount},
                        consumed : {next}, checksum : {sum}, mismatch : {FALSE}]
      BY <2>6
    <2>9. current' = [first_sequence |-> Base, event_count |-> EventCount,
                      consumed |-> next, checksum |-> sum, mismatch |-> FALSE]
      BY <2>8
    <2> QED
      BY <2>7, <2>9
  <1>12. take'[Reader].reading /\ take'[Reader].index = t.index + 1
         /\ take'[Reader].count = t.count
    <2>1. take \in [Consumers -> TakeType]
      BY DEF IInv, TypeOK
    <2> QED
      BY <1>1, <1>3, <2>1 DEF TakeType
  <1>13. HandlesLive'
    BY <1>1, <1>3, <1>12 DEF HandlesLive
  <1>14. ConsumerMeasures'
    <2>1. /\ current'.consumed = n + 1 /\ n + 1 \in Nat
          /\ current' = Measured(n + 1)'
      <3>1. current'.consumed = n + 1
        BY <1>11 DEF Measured
      <3> QED
        BY <1>4, <1>5, <1>11, <3>1
    <2>2. consumers'[Reader] + Index' = Base' + current'.consumed
      <3>1. Index' = t.index + 1 /\ consumers[Reader] \in Nat /\ Base \in Nat
        BY <1>12, PhaseNumbers DEF Index
      <3> QED
        BY <1>3, <1>4, <1>5, <1>6, <2>1, <3>1
    <2>3. /\ consumer' = "consume" /\ phase' = phase
          /\ UNCHANGED <<elapsed, thrown>>
          /\ UNCHANGED <<completed_phase, phase_measurement>>
      BY <1>1, <1>5 DEF control, plain, producerSide
    <2>4. completed_phase # phase
      BY <1>5, PhaseNumbers DEF ControlInv, ConsumerInStep
    <2>5. current'.consumed \in Nat
      BY <2>1
    <2> HIDE DEF t
    <2> QED
      BY <2>1, <2>2, <2>3, <2>4, <2>5 DEF ConsumerMeasures
  <1> QED
    BY <1>2, <1>4, <1>13, <1>14

\* A release, after which the consumer's position is where its count says.
LEMMA ConsumedStep ==
    ASSUME PhasesInv, Consumed
    PROVE  IInv' /\ StreamInv'
  <1> USE DEF PhasesInv, StreamInv
  <1>1. Release(Reader) /\ Reader \in Consumers
    BY Settings DEF Consumed
  <1>2. IInv'
    BY <1>1, ReleaseStep
  <1>3. /\ UNCHANGED <<completed_phase, phase_measurement, phase_event_count>>
        /\ UNCHANGED <<producer, phase, posted, final, elapsed, thrown,
                       consumer, current>>
    BY DEF Consumed, control, plain, producerSide, consumerSide
  <1>4. /\ take[Reader].reading /\ take[Reader].index = take[Reader].count
        /\ ~take'[Reader].reading
        /\ UNCHANGED <<published, call>>
        /\ chandle'[Reader].live = chandle[Reader].live
    <2>1. take \in [Consumers -> TakeType] /\ chandle \in [Consumers -> HandleType]
      BY DEF IInv, TypeOK
    <2> QED
      BY <1>1, <2>1 DEF Release, NotReading, HandleType, producerVars, pubVars
  <1>5. consumers'[Reader] = consumers[Reader] + take[Reader].count
        /\ consumers'[Reader] <= published
    <2>1. /\ take[Reader].count \in Nat
          /\ take[Reader].count <= Sub(published, consumers[Reader])
          /\ consumers' = [consumers EXCEPT ![Reader] = Add(@, take[Reader].count)]
      BY <1>1, ReleaseMoves
    <2>2. consumers'[Reader] = Add(consumers[Reader], take[Reader].count)
      BY <1>1, <2>1 DEF IInv, TypeOK
    <2>3. /\ published \in SequenceType /\ consumers[Reader] \in SequenceType
          /\ Sub(published, consumers[Reader]) = published - consumers[Reader]
      BY PhaseNumbers
    <2>4. take[Reader].count \in SequenceType
      BY <2>1, <2>3 DEF SequenceType
    <2>5. AddIs(consumers[Reader], take[Reader].count)
      BY <2>3, <2>4, AddCases
    <2> QED
      BY <2>1, <2>2, <2>3, <2>4, <2>5 DEF AddIs, SequenceType
  <1>6. UNCHANGED <<Base, EventCount>>
    BY <1>3 DEF Base, EventCount
  <1>7. \A n : Measured(n)' = Measured(n)
    BY <1>6 DEF Measured
  <1>8. /\ consumer = "consume" /\ current.consumed \in Nat
        /\ current = Measured(current.consumed)
        /\ consumers[Reader] + take[Reader].count = Base + current.consumed
    BY <1>4 DEF HandlesLive, ConsumerMeasures, Index
  <1>9. take[Reader].count >= 1
    BY <1>4 DEF HandlesLive
  <1>10. PhaseInTheStream'
    <2>1. published # Base
      BY <1>5, <1>9, PhaseNumbers DEF PhaseInTheStream
    <2> QED
      BY <1>3, <1>4, <1>5, <1>6, <2>1, PhaseNumbers DEF PhaseInTheStream
  <1>11. PostedBatches'
    BY <1>3, <1>4, <1>6 DEF PostedBatches
  <1>12. HandlesLive'
    BY <1>3, <1>4 DEF HandlesLive
  <1>13. ConsumerMeasures'
    <2>1. completed_phase # phase
      BY <1>8, PhaseNumbers DEF ControlInv, ConsumerInStep
    <2>2. Index' = 0
      BY <1>4 DEF Index
    <2>3. consumers'[Reader] + 0 = Base + current.consumed
      BY <1>5, <1>8, PhaseNumbers
    <2> QED
      BY <1>3, <1>6, <1>7, <1>8, <2>1, <2>2, <2>3 DEF ConsumerMeasures
  <1> QED
    BY <1>2, <1>10, <1>11, <1>12, <1>13

------------------------------------------------------------------------------
\* Nothing has been commanded, published or measured.
LEMMA PhasesStart == PhasesInit => PhasesInv
  <1> SUFFICES ASSUME PhasesInit
               PROVE  PhasesInv
    OBVIOUS
  <1>1. IInv
    BY InitIInv DEF PhasesInit
  <1>2. /\ published = 0 /\ consumers[Reader] = 0 /\ call.pc = "idle"
        /\ ~chandle[Reader].live /\ ~take[Reader].reading
    BY Settings, SettingsAssumption
       DEF PhasesInit, Init, Idle, Calling, NoHandle, NotReading
  <1>3. ControlInv
    <2>1. PhaseTypes
      <3>1. 1 \in 1..TotalPhases
        BY Settings
      <3> QED
        BY <3>1 DEF PhasesInit, PhaseTypes
    <2>2. CallerInStep /\ ConsumerInStep /\ FailuresAreTold
      BY DEF PhasesInit, CallerInStep, ConsumerInStep, FailuresAreTold
    <2> QED
      BY <2>1, <2>2 DEF ControlInv
  <1>4. Base = 0 /\ EventCount \in Nat \ {0} /\ 0 % ProducerBatch = 0
    <2>1. phase - 1 = 0 /\ WarmupEvents \in Nat
      BY Settings DEF PhasesInit
    <2>2. 0 * WarmupEvents = 0
      BY <2>1
    <2> QED
      BY <2>1, <2>2, Settings DEF Base
  <1>5. StreamInv
    <2>1. PhaseInTheStream
      BY <1>2, <1>4 DEF PhasesInit, PhaseInTheStream
    <2>2. PostedBatches
      BY <1>2, <1>4 DEF PhasesInit, PostedBatches
    <2>3. ConsumerMeasures
      BY DEF PhasesInit, ConsumerMeasures
    <2>4. HandlesLive
      BY <1>2 DEF PhasesInit, HandlesLive
    <2> QED
      BY <2>1, <2>2, <2>3, <2>4 DEF StreamInv
  <1> QED
    BY <1>1, <1>3, <1>5 DEF PhasesInv

\* Every step of either thread keeps the disruptor's invariant, the protocol and
\* the place of the phases in the stream.
LEMMA PhasesSteps == PhasesInv /\ [PhasesNext]_allVars => PhasesInv'
  <1> SUFFICES ASSUME PhasesInv, [PhasesNext]_allVars
               PROVE  PhasesInv'
    OBVIOUS
  <1> USE DEF PhasesInv
  <1>1. call.pc # "idle" => producer = "publish"
    BY DEF StreamInv, PostedBatches
  <1>2. CASE UNCHANGED allVars
    <2>1. IInv'
      BY <1>2, StutterStep DEF allVars
    <2>2. ControlInv'
      BY <1>2 DEF allVars, control, plain, producerSide, consumerSide,
                  ControlInv, PhaseTypes, CallerInStep, ConsumerInStep,
                  FailuresAreTold
    <2>3. UNCHANGED <<published, consumers, call, chandle, take>>
      BY <1>2 DEF allVars, vars, producerVars, consumerVars, pubVars, ackVars
    <2>4. UNCHANGED <<producerSide, phase_event_count, phase_measurement,
                      completed_phase, consumer, current>>
      BY <1>2 DEF allVars, control, plain, consumerSide
    <2>5. /\ PhaseInTheStream' /\ PostedBatches' /\ UNCHANGED <<Base, EventCount>>
          /\ \A n : Measured(n)' = Measured(n)
      BY <2>3, <2>4, CallerFrame
    <2>6. Index' = Index /\ phase' = phase /\ UNCHANGED <<elapsed, thrown>>
      BY <2>3, <2>4 DEF Index, producerSide
    <2>7. ConsumerMeasures' /\ HandlesLive'
      BY <2>3, <2>4, <2>5, <2>6 DEF StreamInv, ConsumerMeasures, HandlesLive
    <2> QED
      BY <2>1, <2>2, <2>5, <2>7 DEF StreamInv
  <1>3. CASE CallingThread \/ PinThrows
    <2>1. ControlInv'
      BY <1>1, <1>3, CallerKeepsControl
    <2>2. CASE \/ SetEventCount \/ Command \/ SeeReady \/ Pin \/ PinThrows
               \/ Retry \/ AllPublished \/ SeeCompleted \/ Rethrow \/ Catch
               \/ Validate
      <3>1. UNCHANGED vars
        BY <2>2 DEF SetEventCount, Command, SeeReady, Pin, PinThrows, Retry,
                    AllPublished, SeeCompleted, Rethrow, Catch, Validate
      <3>2. IInv'
        BY <3>1, StutterStep
      <3> QED
        BY <2>1, <2>2, <3>1, <3>2, CallerPlainStep, ValidateStep
    <2> QED
      BY <1>3, <2>1, <2>2, HandleLifeStep, PublishingStep DEF CallingThread
  <1>4. CASE ConsumerThread \/ ConsumerPinThrows
    <2>1. ControlInv'
      BY <1>4, ConsumerKeepsControl
    <2>2. CASE \/ SeeCommand \/ ConsumerPins \/ ReadPhase \/ TellReady \/ PollAgain
               \/ ConsumedAll \/ StoreMeasurement \/ TellCompleted \/ GiveUp
               \/ ConsumerPinThrows \/ StoreError \/ TellFailed
      <3>1. UNCHANGED vars
        BY <2>2 DEF SeeCommand, ConsumerPins, ReadPhase, TellReady, PollAgain,
                    ConsumedAll, StoreMeasurement, TellCompleted, GiveUp,
                    ConsumerPinThrows, StoreError, TellFailed
      <3>2. IInv'
        BY <3>1, StutterStep
      <3> QED
        BY <2>1, <2>2, <3>1, <3>2, ConsumerPlainStep
    <2> QED
      BY <1>4, <2>1, <2>2, PollingStep, HandleStep, ConsumedStep
         DEF ConsumerThread
  <1>5. CASE Memory
    <2>1. ControlInv'
      BY <1>5 DEF Memory, control, plain, producerSide, consumerSide,
                  ControlInv, PhaseTypes, CallerInStep, ConsumerInStep,
                  FailuresAreTold
    <2> QED
      BY <1>5, <2>1, PollingStep
  <1> QED
    BY <1>2, <1>3, <1>4, <1>5 DEF PhasesNext, Ended

\* The invariant of run_all_phases, failures of either pin included.
THEOREM PhasesInvariance == PhasesSpec => []PhasesInv
  BY PhasesStart, PhasesSteps, PTL DEF PhasesSpec

\* commanded_phase and completed_phase hand the plain fields of run_control over
\* without a race for every number of phases, and rethrow_exception never meets
\* a null consumer_error.
THEOREM ControlIsHandedOver == PhasesSpec => []NoControlRace
  <1>1. PhasesInv => NoControlRace
    BY DEF PhasesInv, ControlInv, PhaseTypes, CallerInStep, ConsumerInStep,
           FailuresAreTold, NoControlRace
  <1> QED
    BY <1>1, PhasesInvariance, PTL

\* Phases do not overlap, and the counts, the order and the checksum of a phase
\* never fail its validation, for every number and size of phases and batches and
\* every range the checksum may wrap in: only the clock can.
THEOREM PhasesDoNotOverlap == PhasesSpec => []PhasesAreWhole
  <1>1. PhasesInv => PhasesAreWhole
    <2> SUFFICES ASSUME PhasesInv
                 PROVE  PhasesAreWhole
      OBVIOUS
    <2>1. thrown = "validation" => elapsed = 0
      BY DEF PhasesInv, StreamInv, ConsumerMeasures
    <2>2. ASSUME producer \in {"count", "command", "ready", "pin"}
          PROVE  consumers[Reader] = published /\ ~take[Reader].reading
      <3>1. consumers[Reader] = published
        BY <2>2, PhaseNumbers DEF PhasesInv, StreamInv, PhaseInTheStream
      <3>2. take[Reader].reading
              => take[Reader].count <= Sub(published, consumers[Reader])
        <4>1. IInv /\ Reader \in Consumers
          BY Settings DEF PhasesInv
        <4>2. take[Reader].reading
                => take[Reader].count <= Sub(pubAcquired[Reader], consumers[Reader])
          BY <4>1 DEF IInv, ConsumerInv
        <4> QED
          BY <4>1, <4>2, Window, PhaseNumbers
      <3>3. take[Reader].reading => take[Reader].count >= 1
        BY DEF PhasesInv, StreamInv, HandlesLive
      <3> QED
        BY <3>1, <3>2, <3>3, PhaseNumbers
    <2> QED
      BY <2>1, <2>2 DEF PhasesAreWhole
  <1> QED
    BY <1>1, PhasesInvariance, PTL

\* An error of the consumer leaves its phase incomplete for ever, and only a
\* completed last phase leads to a join without an error.
EndInv ==
    /\ consumer_error => completed_phase # phase
    /\ producer \in {"join", "returned"} /\ thrown = "none" =>
         completed_phase = phase /\ phase = TotalPhases
    /\ producer = "returned" => thrown = "none"

\* Every step keeps that.
LEMMA EndSteps ==
    ASSUME PhasesInv, EndInv, [PhasesNext]_allVars
    PROVE  EndInv'
  <1>1. /\ ControlInv /\ PhaseTypes /\ CallerInStep /\ ConsumerInStep
        /\ FailuresAreTold /\ phase \in Nat
    BY PhaseNumbers DEF PhasesInv, ControlInv
  <1>2. CASE StoreError
    BY <1>1, <1>2 DEF StoreError, Goes, control, producerSide, EndInv,
                      ConsumerInStep
  <1>3. CASE TellCompleted
    BY <1>1, <1>3 DEF TellCompleted, plain, producerSide, EndInv,
                      ConsumerInStep, FailuresAreTold
  <1>4. CASE Validate
    BY <1>1, <1>4 DEF Validate, control, plain, EndInv, CallerInStep,
                      FailuresAreTold
  <1>5. CASE Join
    BY <1>5 DEF Join, control, plain, EndInv
  <1>6. CASE PinThrows \/ Rethrow \/ Catch
    BY <1>1, <1>6 DEF PinThrows, Rethrow, Catch, At, control, plain, EndInv,
                      FailuresAreTold
  <1>7. CASE \/ MakeHandle \/ SetEventCount \/ Command \/ SeeReady \/ Pin
             \/ TryPublish \/ InsideTryPublish \/ Retry \/ Published
             \/ AllPublished \/ Drain \/ SeeCompleted
    <2>1. UNCHANGED <<consumer_error, completed_phase, phase, thrown>>
      BY <1>7 DEF MakeHandle, SetEventCount, Command, SeeReady, Pin, TryPublish,
                  InsideTryPublish, Retry, Published, AllPublished, Drain,
                  SeeCompleted, control, plain, producerSide
    <2>2. producer' = producer \/ producer' \notin {"join", "returned"}
      BY <1>7 DEF MakeHandle, SetEventCount, Command, SeeReady, Pin, TryPublish,
                  InsideTryPublish, Retry, Published, AllPublished, Drain,
                  SeeCompleted, At, producerSide
    <2> QED
      BY <2>1, <2>2 DEF EndInv
  <1>8. CASE \/ ConsumerThread /\ ~StoreError /\ ~TellCompleted
             \/ Memory \/ ConsumerPinThrows \/ Ended \/ UNCHANGED allVars
    <2>1. UNCHANGED <<consumer_error, completed_phase, phase, thrown, producer>>
      BY <1>8 DEF ConsumerThread, MakeItsHandle, SeeCommand, ConsumerPins,
                  ReadPhase, TellReady, Consume, PollAgain, Handle, Consumed,
                  ConsumedAll, StoreMeasurement, GiveUp, TellFailed, Leave,
                  Memory, ConsumerPinThrows, Ended, allVars, control, plain,
                  producerSide
    <2> QED
      BY <2>1 DEF EndInv
  <1> QED
    BY <1>2, <1>3, <1>4, <1>5, <1>6, <1>7, <1>8 DEF PhasesNext, CallingThread

\* What run_all_phases returns is the measured phase's own measurement, and it
\* returns only when neither thread has failed.
THEOREM ResultIsTheMeasuredPhase == PhasesSpec => []ReturnsTheMeasuredPhase
  <1>1. PhasesInit => EndInv
    BY DEF PhasesInit, EndInv
  <1>2. PhasesInv /\ EndInv => ReturnsTheMeasuredPhase
    <2> SUFFICES ASSUME PhasesInv, EndInv, producer = "returned"
                 PROVE  /\ ~failed /\ ~consumer_error
                        /\ phase_measurement.event_count = Events
                        /\ phase_measurement.first_sequence
                             = WarmupRuns * WarmupEvents
      BY DEF ReturnsTheMeasuredPhase
    <2>1. thrown = "none" /\ completed_phase = phase /\ phase = TotalPhases
      BY DEF EndInv
    <2>2. ~failed /\ ~consumer_error
      BY <2>1 DEF EndInv, PhasesInv, ControlInv, FailuresAreTold
    <2>3. phase_measurement = Measured(EventCount)
      BY <2>1 DEF PhasesInv, StreamInv, ConsumerMeasures
    <2>4. EventCount = Events
      BY <2>1 DEF EventCount
    <2>5. Base = WarmupRuns * WarmupEvents
      <3>1. TotalPhases - 1 = WarmupRuns
        BY SettingsAssumption DEF TotalPhases
      <3> QED
        BY <2>1, <3>1 DEF Base
    <2> QED
      BY <2>2, <2>3, <2>4, <2>5 DEF Measured
  <1> QED
    BY <1>1, <1>2, EndSteps, PhasesInvariance, PTL DEF PhasesSpec

------------------------------------------------------------------------------
(* run_java_pinned.py: the inductive invariant.                            *)

Names  == {"none", "java", "helper", "lls-producer", "lls-consumer"}
Masks  == {Housekeeping, {ProducerCpu}, {ConsumerCpu}}

\* Where the consumer's thread has ended: with an error, or after the last phase.
Quit   == {"failed", "broken", "done"}
Places == {"new", "named", "gate", "checking", "commanded", "rechecking",
           "measuring", "halted", "idle", "ready"} \cup Quit

GateTypes ==
    /\ comm \in [Threads -> Names] /\ names \in [Threads -> Names]
    /\ mask \in [Threads -> Masks]
    /\ at \in [Workers -> Places]
    /\ jvm \in {"starting", "running", "exit 0", "exit 1", "killed"}

\* The names a thread can have, by how far the workers are.
WhoIsCalledWhat ==
    /\ jvm # "running" => \A t \in Threads : comm[t] = "none"
    /\ jvm = "running" =>
         comm["main"] = IF at["main"] = "new" THEN "java" ELSE "lls-producer"
    /\ at["main"] = "new" =>
         \A t \in Threads : comm[t] # "lls-producer" /\ names[t] # "lls-producer"
    /\ at["consumer"] = "new" =>
         \A t \in Threads : comm[t] # "lls-consumer" /\ names[t] # "lls-consumer"
    /\ at["consumer"] # "new" /\ jvm = "running" =>
         comm["consumer"] = IF at["consumer"] \in Quit THEN "none"
                                                       ELSE "lls-consumer"
    /\ at["main"] \in {"new", "named"} =>
         at["consumer"] = "new" /\ comm["consumer"] = "none"
    /\ jvm = "starting" => at["main"] = "new"

\* The launcher has met the names of both workers.
Met == loop # "discover" \/ step = "visit"

WorkersHaveNames == Met => at["main"] # "new" /\ at["consumer"] # "new"

\* A second reading of the names finds the workers themselves.
ReadAgain ==
    loop = "settle" /\ step \in {"names", "visit"} =>
        /\ \/ step = "names" /\ "main" \in todo
           \/ names["main"] = "lls-producer" \/ JvmEnded
        /\ \/ step = "names" /\ "consumer" \in todo
           \/ names["consumer"] = "lls-consumer" \/ ~Alive("consumer")

Settled == \/ loop = "settle" /\ step \in {"confirm", "open"}
           \/ loop = "audit"

\* Then the picked threads are the workers.
PickedAreWorkers ==
    Settled => /\ picked.producer = "main" \/ JvmEnded
               /\ picked.consumer = "consumer" \/ ~Alive("consumer")

Confirmed == \/ loop = "settle" /\ step = "open"
             \/ loop = "audit"

\* And they have been found in their places.
PinnedThen ==
    /\ gate => loop = "audit"
    /\ Confirmed /\ ~interfered =>
         \A w \in Workers : Alive(w) => Exact(w)

GateInv == /\ GateTypes /\ WhoIsCalledWhat /\ WorkersHaveNames /\ ReadAgain
           /\ PickedAreWorkers /\ PinnedThen

------------------------------------------------------------------------------
(* Steps of the JVM.                                                       *)

\* The threads that run the workers' code are none of the JVM's other threads.
LEMMA ThreadNames ==
    /\ "main" \in Workers /\ "consumer" \in Workers
    /\ "main" \in Threads /\ "consumer" \in Threads
    /\ Workers = {"main", "consumer"}
    /\ \A h \in Helpers : h \in Threads /\ h # "main" /\ h # "consumer"
  BY CpuAssumption DEF Workers, Threads

\* What a step of the JVM has to keep for the launcher's conclusions to stand:
\* no worker forgets its name, and once the launcher has met both, none is
\* born or moved.
JvmKeeps ==
    /\ UNCHANGED <<gate, loop, step, names, todo, picked, interfered>>
    /\ \A w \in Workers : at'[w] = "new" => at[w] = "new"
    /\ JvmEnded => JvmEnded'
    /\ Met => \A w \in Workers : Alive(w)' => Alive(w) /\ mask'[w] = mask[w]

\* Then it keeps them.
LEMMA JvmKeepsThem ==
    ASSUME GateInv, GateTypes', WhoIsCalledWhat', JvmKeeps
    PROVE  GateInv'
  <1>1. Met' = Met /\ Settled' = Settled /\ Confirmed' = Confirmed
    BY DEF JvmKeeps, Met, Settled, Confirmed
  <1>2. WorkersHaveNames'
    BY <1>1, ThreadNames DEF GateInv, WorkersHaveNames, JvmKeeps
  <1>3. loop # "discover" => Met
    BY DEF Met
  <1>4. ReadAgain'
    <2> SUFFICES ASSUME loop = "settle", step \in {"names", "visit"}
                 PROVE  ReadAgain'
      BY DEF ReadAgain, JvmKeeps
    <2>1. Met /\ ReadAgain
      BY <1>3 DEF GateInv
    <2>2. Alive("consumer")' => Alive("consumer")
      BY <2>1, ThreadNames DEF JvmKeeps
    <2> QED
      BY <2>1, <2>2 DEF ReadAgain, JvmKeeps
  <1>5. PickedAreWorkers'
    <2> SUFFICES ASSUME Settled
                 PROVE  PickedAreWorkers'
      BY <1>1 DEF PickedAreWorkers
    <2>1. Met /\ PickedAreWorkers
      BY DEF GateInv, Settled, Met
    <2>2. Alive("consumer")' => Alive("consumer")
      BY <2>1, ThreadNames DEF JvmKeeps
    <2> QED
      BY <1>1, <2>1, <2>2 DEF PickedAreWorkers, JvmKeeps
  <1>6. PinnedThen'
    <2>1. (gate => loop = "audit")'
      BY DEF GateInv, PinnedThen, JvmKeeps
    <2>2. ASSUME Confirmed, ~interfered, NEW w \in Workers, Alive(w)'
          PROVE  Exact(w)'
      <3>1. Met
        BY <2>2 DEF Confirmed, Met
      <3>2. Alive(w) /\ mask'[w] = mask[w]
        BY <2>2, <3>1 DEF JvmKeeps
      <3>3. Exact(w)
        BY <2>2, <3>2 DEF GateInv, PinnedThen
      <3> QED
        BY <3>2, <3>3 DEF Exact
    <2> QED
      BY <1>1, <2>1, <2>2 DEF PinnedThen, JvmKeeps
  <1> QED
    BY <1>2, <1>4, <1>5, <1>6 DEF GateInv

\* The process ends, of itself or killed: nobody is left.
LEMMA EndStep ==
    ASSUME GateInv, NEW status \in {"exit 0", "exit 1", "killed"}, End(status),
           UNCHANGED <<gate, launcherVars, faultVars>>
    PROVE  GateInv'
  <1>1. /\ \A t \in Threads : comm'[t] = "none"
        /\ comm' \in [Threads -> Names]
        /\ jvm' = status /\ UNCHANGED <<mask, at>>
        /\ UNCHANGED <<gate, loop, step, names, todo, picked, interfered>>
    BY DEF End, Nobody, Names, launcherVars, faultVars
  <1>2. GateTypes'
    BY <1>1 DEF GateInv, GateTypes
  <1>3. WhoIsCalledWhat'
    BY <1>1, ThreadNames DEF GateInv, WhoIsCalledWhat
  <1>4. JvmKeeps
    BY <1>1, ThreadNames DEF JvmKeeps, JvmEnded, Alive
  <1> QED
    BY <1>2, <1>3, <1>4, JvmKeepsThem

\* Where a worker has a name of its own and its thread has not ended.
Underway == Places \ ({"new", "named"} \cup Quit)

\* A worker goes on in its code.
LEMMA MoveStep ==
    ASSUME GateInv, NEW w \in Workers,
           at[w] \in Underway, NEW to \in Underway, Enter(w, to),
           UNCHANGED <<jvm, comm, mask, gate, launcherVars, faultVars>>
    PROVE  GateInv'
  <1>1. /\ at' = [at EXCEPT ![w] = to]
        /\ UNCHANGED <<jvm, comm, mask>>
        /\ UNCHANGED <<gate, loop, step, names, todo, picked, interfered>>
        /\ at \in [Workers -> Places]
    BY DEF Enter, launcherVars, faultVars, GateInv, GateTypes
  <1>2. /\ at' \in [Workers -> Places]
        /\ \A v \in Workers : \A p \in {"new", "named"} \cup Quit :
              at'[v] = p <=> at[v] = p
    BY <1>1 DEF Underway
  <1>3. GateTypes'
    BY <1>1, <1>2 DEF GateInv, GateTypes
  <1>4. WhoIsCalledWhat'
    <2>1. /\ at'["main"] = "new" <=> at["main"] = "new"
          /\ at'["main"] = "named" <=> at["main"] = "named"
          /\ at'["consumer"] = "new" <=> at["consumer"] = "new"
          /\ at'["consumer"] \in Quit <=> at["consumer"] \in Quit
      BY <1>2, ThreadNames
    <2> QED
      BY <1>1, <2>1 DEF GateInv, WhoIsCalledWhat
  <1>5. JvmKeeps
    BY <1>1, <1>2 DEF JvmKeeps, JvmEnded, Alive
  <1> QED
    BY <1>3, <1>4, <1>5, JvmKeepsThem

\* The JVM appears, and main takes the producer's name.
LEMMA MainStep ==
    ASSUME GateInv, JvmAppears \/ MainNamesItself,
           UNCHANGED <<gate, launcherVars, faultVars>>
    PROVE  GateInv'
  <1>1. /\ UNCHANGED <<gate, loop, step, names, todo, picked, interfered>>
        /\ comm \in [Threads -> Names] /\ at \in [Workers -> Places]
        /\ at["main"] = "new" /\ mask' = mask
    BY DEF JvmAppears, MainNamesItself, launcherVars, faultVars, GateInv,
           GateTypes, WhoIsCalledWhat
  <1>2. ~Met
    BY <1>1 DEF GateInv, WorkersHaveNames
  <1>3. CASE JvmAppears
    <2>1. /\ jvm = "starting" /\ jvm' = "running" /\ at' = at
          /\ comm' = [comm EXCEPT !["main"] = "java"]
      BY <1>3 DEF JvmAppears
    <2>2. /\ comm' \in [Threads -> Names] /\ comm'["main"] = "java"
          /\ \A t \in Threads : t # "main" => comm'[t] = comm[t]
      BY <1>1, <2>1, ThreadNames DEF Names
    <2>3. GateTypes'
      BY <1>1, <2>1, <2>2 DEF GateInv, GateTypes
    <2>4. WhoIsCalledWhat'
      BY <1>1, <2>1, <2>2, ThreadNames DEF GateInv, WhoIsCalledWhat
    <2>5. JvmKeeps
      BY <1>1, <1>2, <2>1 DEF JvmKeeps, JvmEnded
    <2> QED
      BY <2>3, <2>4, <2>5, JvmKeepsThem
  <1>4. CASE MainNamesItself
    <2>1. /\ comm["main"] # "none" /\ jvm' = jvm
          /\ comm' = [comm EXCEPT !["main"] = "lls-producer"]
          /\ at' = [at EXCEPT !["main"] = "named"]
      BY <1>4 DEF MainNamesItself, Alive, Enter
    <2>2. /\ comm' \in [Threads -> Names] /\ comm'["main"] = "lls-producer"
          /\ \A t \in Threads : t # "main" => comm'[t] = comm[t]
          /\ at' \in [Workers -> Places] /\ at'["main"] = "named"
          /\ at'["consumer"] = at["consumer"]
      BY <1>1, <2>1, ThreadNames DEF Names, Places
    <2>3. GateTypes'
      BY <1>1, <2>1, <2>2 DEF GateInv, GateTypes
    <2>4. jvm = "running"
      BY <2>1, ThreadNames DEF GateInv, WhoIsCalledWhat
    <2>5. WhoIsCalledWhat'
      BY <1>1, <2>1, <2>2, <2>4, ThreadNames DEF GateInv, WhoIsCalledWhat
    <2>6. JvmKeeps
      BY <1>1, <1>2, <2>1, <2>2, ThreadNames DEF JvmKeeps, JvmEnded
    <2> QED
      BY <2>3, <2>5, <2>6, JvmKeepsThem
  <1> QED
    BY <1>3, <1>4

\* The consumer's thread starts under main's name, takes its own, or ends, with
\* an error or without.
LEMMA ConsumerWorkerStep ==
    ASSUME GateInv, \/ StartConsumer \/ ConsumerNamesItself
                    \/ ConsumerThrows \/ ConsumerEnds,
           UNCHANGED <<gate, launcherVars, faultVars>>
    PROVE  GateInv'
  <1>1. /\ UNCHANGED <<gate, loop, step, names, todo, picked, interfered>>
        /\ comm \in [Threads -> Names] /\ at \in [Workers -> Places]
        /\ mask \in [Threads -> Masks] /\ jvm' = jvm
    BY DEF StartConsumer, Create, ConsumerNamesItself, ConsumerThrows,
           ConsumerEnds, launcherVars, faultVars, GateInv, GateTypes
  <1>2. CASE StartConsumer
    <2>1. /\ at["main"] = "named" /\ comm["main"] # "none"
          /\ comm' = [comm EXCEPT !["consumer"] = comm["main"]]
          /\ mask' = [mask EXCEPT !["consumer"] = mask["main"]]
          /\ at' = [at EXCEPT !["main"] = "gate"]
      BY <1>2 DEF StartConsumer, Create, Enter, Alive
    <2>2. at["consumer"] = "new" /\ jvm = "running" /\ ~Met
      BY <2>1, ThreadNames
         DEF GateInv, WhoIsCalledWhat, WorkersHaveNames
    <2>3. comm["main"] = "lls-producer"
      BY <2>1, <2>2 DEF GateInv, WhoIsCalledWhat
    <2>4. /\ comm' \in [Threads -> Names] /\ comm'["consumer"] = "lls-producer"
          /\ \A t \in Threads : t # "consumer" => comm'[t] = comm[t]
          /\ mask' \in [Threads -> Masks]
          /\ at' \in [Workers -> Places] /\ at'["main"] = "gate"
          /\ at'["consumer"] = "new"
      BY <1>1, <2>1, <2>2, <2>3, ThreadNames DEF Names, Places
    <2>5. GateTypes'
      BY <1>1, <2>4 DEF GateInv, GateTypes
    <2>6. WhoIsCalledWhat'
      BY <1>1, <2>1, <2>2, <2>3, <2>4, ThreadNames DEF GateInv, WhoIsCalledWhat
    <2>7. JvmKeeps
      BY <1>1, <2>1, <2>2, <2>4, ThreadNames DEF JvmKeeps, JvmEnded
    <2> QED
      BY <2>5, <2>6, <2>7, JvmKeepsThem
  <1>3. CASE ConsumerNamesItself
    <2>1. /\ at["consumer"] = "new" /\ comm["consumer"] # "none"
          /\ comm' = [comm EXCEPT !["consumer"] = "lls-consumer"]
          /\ mask' = mask
          /\ at' = [at EXCEPT !["consumer"] = "gate"]
      BY <1>3 DEF ConsumerNamesItself, Enter, Alive
    <2>2. /\ at["main"] \notin {"new", "named"} /\ jvm = "running" /\ ~Met
      BY <2>1, ThreadNames
         DEF GateInv, WhoIsCalledWhat, WorkersHaveNames
    <2>3. /\ comm' \in [Threads -> Names] /\ comm'["consumer"] = "lls-consumer"
          /\ \A t \in Threads : t # "consumer" => comm'[t] = comm[t]
          /\ at' \in [Workers -> Places] /\ at'["main"] = at["main"]
          /\ at'["consumer"] = "gate"
      BY <1>1, <2>1, <2>2, ThreadNames DEF Names, Places
    <2>4. GateTypes'
      BY <1>1, <2>1, <2>3 DEF GateInv, GateTypes
    <2>5. WhoIsCalledWhat'
      BY <1>1, <2>1, <2>2, <2>3, ThreadNames DEF GateInv, WhoIsCalledWhat, Quit
    <2>6. JvmKeeps
      BY <1>1, <2>1, <2>2, <2>3, ThreadNames DEF JvmKeeps, JvmEnded
    <2> QED
      BY <2>4, <2>5, <2>6, JvmKeepsThem
  <1>4. CASE ConsumerThrows \/ ConsumerEnds
    <2>1. PICK end \in Quit :
          /\ at["consumer"] \in {"gate", "checking", "ready", "idle"}
          /\ comm["consumer"] # "none"
          /\ comm' = [comm EXCEPT !["consumer"] = "none"]
          /\ mask' = mask
          /\ at' = [at EXCEPT !["consumer"] = end]
      BY <1>4 DEF ConsumerThrows, ConsumerMayThrow, ConsumerEnds, Enter, Alive,
                  Quit
    <2>2. /\ at["main"] \notin {"new", "named"} /\ jvm = "running"
      BY <2>1, ThreadNames DEF GateInv, WhoIsCalledWhat
    <2>3. /\ comm' \in [Threads -> Names] /\ comm'["consumer"] = "none"
          /\ \A t \in Threads : t # "consumer" => comm'[t] = comm[t]
          /\ at' \in [Workers -> Places] /\ at'["main"] = at["main"]
          /\ at'["consumer"] = end
      BY <1>1, <2>1, <2>2, ThreadNames DEF Names, Places, Quit
    <2>4. GateTypes'
      BY <1>1, <2>1, <2>3 DEF GateInv, GateTypes
    <2>5. WhoIsCalledWhat'
      BY <1>1, <2>1, <2>2, <2>3, ThreadNames DEF GateInv, WhoIsCalledWhat, Quit
    <2>6. JvmKeeps
      BY <1>1, <2>1, <2>2, <2>3, ThreadNames DEF JvmKeeps, JvmEnded, Alive, Quit
    <2> QED
      BY <2>4, <2>5, <2>6, JvmKeepsThem
  <1> QED
    BY <1>2, <1>3, <1>4

\* Another thread starts under its parent's name, takes its own, or ends.
LEMMA HelperStep ==
    ASSUME GateInv, NEW h \in Helpers,
           \/ HelperNamesItself(h) \/ HelperEnds(h)
           \/ \E parent \in Threads : HelperStarts(parent, h),
           UNCHANGED <<gate, launcherVars, faultVars>>
    PROVE  GateInv'
  <1>1. /\ UNCHANGED <<gate, loop, step, names, todo, picked, interfered>>
        /\ comm \in [Threads -> Names] /\ mask \in [Threads -> Masks]
        /\ jvm' = jvm /\ at' = at
    BY DEF HelperNamesItself, HelperEnds, HelperStarts, Create,
           launcherVars, faultVars, GateInv, GateTypes
  <1>2. PICK name \in Names :
          /\ comm' = [comm EXCEPT ![h] = name]
          /\ name \in {"none", "helper"} \/ \E t \in Threads : name = comm[t]
          /\ \E t \in Threads : comm[t] # "none"
    <2>1. h \in Threads
      BY ThreadNames
    <2>2. CASE HelperNamesItself(h)
      BY <2>1, <2>2 DEF HelperNamesItself, Names
    <2>3. CASE HelperEnds(h)
      BY <2>1, <2>3 DEF HelperEnds, Names
    <2>4. CASE \E parent \in Threads : HelperStarts(parent, h)
      <3>1. PICK parent \in Threads : HelperStarts(parent, h)
        BY <2>4
      <3>2. /\ comm[parent] \in Names /\ comm[parent] # "none"
            /\ comm' = [comm EXCEPT ![h] = comm[parent]]
        BY <1>1, <3>1 DEF HelperStarts, Create, Alive
      <3> QED
        BY <3>2
    <2> QED
      BY <2>2, <2>3, <2>4
  <1>3. jvm = "running"
    BY <1>2 DEF GateInv, WhoIsCalledWhat
  <1>4. /\ comm' \in [Threads -> Names] /\ comm'[h] = name
        /\ \A t \in Threads : t # h => comm'[t] = comm[t]
        /\ comm'["main"] = comm["main"] /\ comm'["consumer"] = comm["consumer"]
    BY <1>1, <1>2, ThreadNames
  <1>5. /\ mask' \in [Threads -> Masks]
        /\ \A w \in Workers : mask'[w] = mask[w]
    <2>1. mask' = mask \/ \E t \in Threads : mask' = [mask EXCEPT ![h] = mask[t]]
      BY DEF HelperNamesItself, HelperEnds, HelperStarts, Create
    <2> QED
      BY <1>1, <2>1, ThreadNames
  <1>6. GateTypes'
    BY <1>1, <1>4, <1>5 DEF GateInv, GateTypes
  <1>7. WhoIsCalledWhat'
    <2>1. \A t \in Threads : comm'[t] \in {"none", "helper"}
                            \/ \E u \in Threads : comm'[t] = comm[u]
      BY <1>2, <1>4
    <2> QED
      BY <1>1, <1>3, <1>4, <2>1 DEF GateInv, WhoIsCalledWhat
  <1>8. JvmKeeps
    BY <1>1, <1>4, <1>5, ThreadNames DEF JvmKeeps, JvmEnded, Alive
  <1> QED
    BY <1>6, <1>7, <1>8, JvmKeepsThem

\* Every step of the JVM.
LEMMA JvmStep == GateInv /\ Jvm => GateInv'
  <1> SUFFICES ASSUME GateInv, Jvm
               PROVE  GateInv'
    OBVIOUS
  <1>1. UNCHANGED <<gate, launcherVars, faultVars>>
    BY DEF Jvm
  <1>2. CASE \/ JvmAppears \/ MainNamesItself
    BY <1>1, <1>2, MainStep
  <1>3. CASE \/ StartConsumer \/ ConsumerNamesItself
             \/ ConsumerThrows \/ ConsumerEnds
    BY <1>1, <1>3, ConsumerWorkerStep
  <1>4. CASE \/ PassGate \/ MainChecks \/ TakePhase \/ ConsumerChecks
             \/ MainSeesReady \/ MainRechecks \/ Halt \/ ConsumerCompletes
             \/ NextPhase
    <2>1. {"gate", "checking", "idle", "commanded", "ready", "rechecking",
           "measuring", "halted"} \subseteq Underway
      BY DEF Places, Underway, Quit
    <2>2. \E w \in Workers, to \in Underway :
             at[w] \in Underway /\ Enter(w, to) /\ UNCHANGED <<jvm, comm, mask>>
      BY <1>4, <2>1, ThreadNames
         DEF PassGate, MainChecks, TakePhase, ConsumerChecks, MainSeesReady,
             MainRechecks, Halt, ConsumerCompletes, Moves, NextPhase, Completed
    <2> QED
      BY <1>1, <2>2, MoveStep
  <1>5. CASE \/ RethrowConsumerFailure \/ RethrowWhileMeasuring \/ Complete
             \/ JvmFailsToStart \/ MainThrows
    BY <1>1, <1>5, EndStep
       DEF RethrowConsumerFailure, RethrowWhileMeasuring, Complete,
           JvmFailsToStart, MainThrows
  <1>6. CASE \E h \in Helpers : \/ HelperNamesItself(h) \/ HelperEnds(h)
               \/ \E parent \in Threads : HelperStarts(parent, h)
    BY <1>1, <1>6, HelperStep
  <1> QED
    BY <1>2, <1>3, <1>4, <1>5, <1>6 DEF Jvm, WorkerStep, JvmFault

------------------------------------------------------------------------------
(* Steps of the launcher.                                                  *)

\* The head of each loop, and the threads' names.
LEMMA ReadingStep ==
    ASSUME GateInv, \/ RunOutOfTime \/ ReturnStatus \/ Look
                    \/ \E t \in Threads : ReadName(t),
           UNCHANGED <<jvm, comm, at, faultVars>>
    PROVE  GateInv'
  <1>1. /\ UNCHANGED <<jvm, comm, at, mask, gate, loop, picked, interfered>>
        /\ comm \in [Threads -> Names] /\ names \in [Threads -> Names]
    BY DEF RunOutOfTime, ReturnStatus, Look, ReadName, Go, faultVars, GateInv,
           GateTypes
  <1>2. /\ names' \in [Threads -> Names]
        /\ \A t \in Threads : names'[t] \in {"none", names[t], comm[t]}
    BY <1>1 DEF RunOutOfTime, ReturnStatus, Look, ReadName, Nobody, Names
  <1>3. GateTypes'
    BY <1>1, <1>2 DEF GateInv, GateTypes
  <1>4. WhoIsCalledWhat'
    BY <1>1, <1>2 DEF GateInv, WhoIsCalledWhat
  <1>5. Met' => Met
    BY <1>1 DEF RunOutOfTime, ReturnStatus, Look, ReadName, Go, Met
  <1>6. WorkersHaveNames'
    BY <1>1, <1>5 DEF GateInv, WorkersHaveNames
  <1>7. ReadAgain'
    <2> SUFFICES ASSUME loop = "settle", step' \in {"names", "visit"}
                 PROVE  ReadAgain'
      BY <1>1 DEF ReadAgain
    <2>1. at["main"] # "new" /\ at["consumer"] # "new"
      BY DEF GateInv, WorkersHaveNames, Met
    <2>2. jvm = "running" => comm["main"] = "lls-producer"
      BY <2>1 DEF GateInv, WhoIsCalledWhat
    <2>3. comm["consumer"] \in {"none", "lls-consumer"}
      BY <2>1, ThreadNames DEF GateInv, WhoIsCalledWhat
    <2>4. jvm # "running" => JvmEnded
      BY <2>1 DEF GateInv, GateTypes, WhoIsCalledWhat, JvmEnded
    <2>5. JvmEnded' = JvmEnded /\ Alive("consumer")' = Alive("consumer")
      BY <1>1 DEF JvmEnded, Alive
    <2>6. CASE Look
      <3>1. /\ step' = "names" /\ todo' = {t \in Threads : Alive(t)}
            /\ jvm = "running"
        BY <2>6 DEF Look, Go
      <3>2. "main" \in todo' /\ ("consumer" \in todo' \/ ~Alive("consumer"))
        BY <2>2, <3>1, ThreadNames DEF Alive
      <3> QED
        BY <1>1, <2>5, <3>1, <3>2 DEF ReadAgain
    <2>7. CASE \E t \in Threads : ReadName(t)
      <3>1. PICK t \in Threads : ReadName(t)
        BY <2>7
      <3>2. /\ step = "names" /\ step' = "names" /\ todo' = todo \ {t}
            /\ names' = [names EXCEPT ![t] = comm[t]]
        BY <3>1 DEF ReadName
      <3>3. \/ "main" \in todo' \/ names'["main"] = "lls-producer" \/ JvmEnded
        BY <1>1, <2>2, <2>4, <3>2, ThreadNames DEF GateInv, ReadAgain
      <3>4. \/ "consumer" \in todo' \/ names'["consumer"] = "lls-consumer"
            \/ ~Alive("consumer")
        BY <1>1, <2>3, <3>2, ThreadNames DEF GateInv, ReadAgain, Alive
      <3> QED
        BY <1>1, <2>5, <3>2, <3>3, <3>4 DEF ReadAgain
    <2>8. ~RunOutOfTime /\ ~ReturnStatus
      BY DEF RunOutOfTime, ReturnStatus, Go
    <2> QED
      BY <2>6, <2>7, <2>8
  <1>8. (Settled' => Settled) /\ (Confirmed' => Confirmed)
    BY <1>1 DEF RunOutOfTime, ReturnStatus, Look, ReadName, Go, Settled,
                Confirmed
  <1>9. PickedAreWorkers'
    BY <1>1, <1>8 DEF GateInv, PickedAreWorkers, JvmEnded, Alive
  <1>10. PinnedThen'
    BY <1>1, <1>8 DEF GateInv, PinnedThen, Alive, Exact
  <1> QED
    BY <1>3, <1>4, <1>6, <1>7, <1>9, <1>10 DEF GateInv

\* The steps after the names are read leave the names and the JVM alone.
LEMMA DecidingStep ==
    ASSUME GateInv, UNCHANGED <<jvm, comm, at, names>>,
           mask' \in [Threads -> Masks]
    PROVE  GateTypes' /\ WhoIsCalledWhat'
  BY DEF GateInv, GateTypes, WhoIsCalledWhat

\* The launcher picks two threads by their names, and looks again: the second
\* time a name in use belongs to the worker itself.
LEMMA SelectStep ==
    ASSUME GateInv, Select \/ VisitAgain \/ Verify \/ Recheck,
           UNCHANGED <<jvm, comm, at, faultVars>>
    PROVE  GateInv'
  <1>1. UNCHANGED <<jvm, comm, at, mask, gate, names, interfered>>
    BY DEF Select, VisitAgain, Verify, Recheck, faultVars
  <1>2. GateTypes' /\ WhoIsCalledWhat'
    BY <1>1, DecidingStep DEF GateInv, GateTypes
  <1>3. WorkersHaveNames'
    <2>1. CASE Select
      <3>1. ASSUME Met'
            PROVE  at["main"] # "new" /\ at["consumer"] # "new"
        <4>1. PICK p, c \in Threads : SoleWorkers(p, c)
          BY <2>1, <3>1 DEF Select, Met, Go
        <4>2. names[p] = "lls-producer" /\ names[c] = "lls-consumer"
          BY <4>1 DEF SoleWorkers
        <4> QED
          BY <4>2 DEF GateInv, WhoIsCalledWhat
      <3> QED
        BY <1>1, <3>1 DEF WorkersHaveNames
    <2>2. CASE VisitAgain \/ Verify \/ Recheck
      <3>1. Met
        BY <2>2 DEF VisitAgain, Verify, Recheck, InLoop, Met
      <3> QED
        BY <1>1, <3>1 DEF GateInv, WorkersHaveNames
    <2> QED
      BY <2>1, <2>2
  <1>4. JvmEnded' = JvmEnded /\ Alive("consumer")' = Alive("consumer")
    BY <1>1 DEF JvmEnded, Alive
  <1>5. ReadAgain'
    <2>1. CASE VisitAgain
      BY <1>1, <1>4, <2>1 DEF VisitAgain, InLoop, Go, GateInv, ReadAgain
    <2>2. CASE Select \/ Verify \/ Recheck
      BY <2>2 DEF Select, Verify, Recheck, Go, ReadAgain
    <2> QED
      BY <2>1, <2>2
  <1>6. PickedAreWorkers'
    <2> SUFFICES ASSUME Settled'
                 PROVE  PickedAreWorkers'
      BY DEF PickedAreWorkers
    <2>1. /\ Recheck /\ loop = "settle" /\ step = "visit" /\ picked' = picked
          /\ SoleWorkers(picked.producer, picked.consumer)
      BY DEF Select, VisitAgain, Verify, Recheck, InLoop, Go, Settled
    <2>2. /\ names["main"] = "lls-producer" \/ JvmEnded
          /\ names["consumer"] = "lls-consumer" \/ ~Alive("consumer")
      BY <2>1 DEF GateInv, ReadAgain
    <2>3. /\ names["main"] = "lls-producer" => "main" = picked.producer
          /\ names["consumer"] = "lls-consumer" => "consumer" = picked.consumer
      BY <2>1, ThreadNames DEF SoleWorkers
    <2> QED
      BY <1>4, <2>1, <2>2, <2>3 DEF PickedAreWorkers
  <1>7. ~Confirmed' /\ ~gate
    BY DEF Select, VisitAgain, Verify, Recheck, InLoop, Go, Confirmed, GateInv,
           PinnedThen
  <1>8. PinnedThen'
    BY <1>1, <1>7 DEF PinnedThen
  <1> QED
    BY <1>2, <1>3, <1>5, <1>6, <1>8 DEF GateInv

\* It finds both in their places, and opens the gate.
LEMMA ConfirmStep ==
    ASSUME GateInv, Confirm \/ OpenGate, UNCHANGED <<jvm, comm, at, faultVars>>
    PROVE  GateInv'
  <1>1. UNCHANGED <<jvm, comm, at, mask, names, picked, interfered>>
    BY DEF Confirm, OpenGate, faultVars
  <1>2. GateTypes' /\ WhoIsCalledWhat'
    BY <1>1, DecidingStep DEF GateInv, GateTypes
  <1>3. Settled /\ Met
    BY DEF Confirm, OpenGate, InLoop, Settled, Met
  <1>4. WorkersHaveNames'
    BY <1>1, <1>3 DEF GateInv, WorkersHaveNames
  <1>5. ReadAgain'
    BY DEF Confirm, OpenGate, Go, ReadAgain
  <1>6. PickedAreWorkers'
    BY <1>1, <1>3 DEF GateInv, PickedAreWorkers, JvmEnded, Alive
  <1>7. (gate => loop = "audit")'
    BY DEF Confirm, OpenGate, InLoop, Go, GateInv, PinnedThen
  <1>8. ASSUME Confirmed', ~interfered, NEW w \in Workers, Alive(w)
        PROVE  Exact(w)
    <2>1. CASE OpenGate
      BY <1>8, <2>1 DEF OpenGate, InLoop, Confirmed, GateInv, PinnedThen
    <2>2. CASE Confirm
      <3>1. Verified
        BY <1>8, <2>2 DEF Confirm, InLoop, Go, Confirmed
      <3>2. ~JvmEnded
        BY <1>8, ThreadNames
           DEF Alive, JvmEnded, GateInv, WhoIsCalledWhat, Threads
      <3>3. picked.producer = "main"
        BY <1>3, <3>2 DEF GateInv, PickedAreWorkers
      <3>4. CASE w = "main"
        BY <3>1, <3>3, <3>4 DEF Verified, InPlace, Place, Exact
      <3>5. CASE w = "consumer"
        <4>1. picked.consumer = "consumer"
          BY <1>3, <1>8, <3>5 DEF GateInv, PickedAreWorkers
        <4> QED
          BY <3>1, <3>3, <3>5, <4>1 DEF Verified, InPlace, Place, Exact
      <3> QED
        BY <3>4, <3>5, ThreadNames
    <2> QED
      BY <2>1, <2>2
  <1>9. PinnedThen'
    BY <1>1, <1>7, <1>8 DEF PinnedThen, Alive, Exact
  <1> QED
    BY <1>2, <1>4, <1>5, <1>6, <1>9 DEF GateInv

\* It pins: before the gate whom it has picked, afterwards never a worker.
LEMMA PinStep ==
    ASSUME GateInv, NEW t \in Threads, PinThread(t) \/ Audit(t),
           UNCHANGED <<jvm, comm, at, faultVars>>
    PROVE  GateInv'
  <1>1. /\ UNCHANGED <<jvm, comm, at, names, gate, loop, picked, interfered>>
        /\ mask \in [Threads -> Masks]
    BY DEF PinThread, Audit, InLoop, Go, faultVars, GateInv, GateTypes
  <1>2. Place(t) \in Masks
    BY DEF Place, Masks
  <1>3. mask' = mask \/ mask' = [mask EXCEPT ![t] = Place(t)]
    BY DEF PinThread, Audit, PinIfAlive
  <1>4. mask' \in [Threads -> Masks]
    BY <1>1, <1>2, <1>3
  <1>5. GateTypes' /\ WhoIsCalledWhat'
    BY <1>1, <1>4, DecidingStep
  <1>6. Met /\ step = "visit" /\ (loop = "audit" \/ step' = "visit")
    <2>1. CASE PinThread(t)
      BY <2>1 DEF PinThread, Met
    <2>2. CASE Audit(t)
      BY <2>2 DEF Audit, InLoop, Met
    <2> QED
      BY <2>1, <2>2
  <1>7. WorkersHaveNames'
    BY <1>1, <1>6 DEF GateInv, WorkersHaveNames
  <1>8. ReadAgain'
    BY <1>1, <1>6 DEF GateInv, ReadAgain, JvmEnded, Alive
  <1>9. (Settled' <=> loop = "audit") /\ (Confirmed' <=> loop = "audit")
    BY <1>1, <1>6 DEF Settled, Confirmed
  <1>10. loop = "audit" => Settled /\ Confirmed
    BY DEF Settled, Confirmed
  <1>11. PickedAreWorkers'
    BY <1>1, <1>9, <1>10 DEF GateInv, PickedAreWorkers, JvmEnded, Alive
  <1>12. ASSUME loop = "audit", ~interfered, NEW w \in Workers, Alive(w)
         PROVE  mask'[w] = mask[w] /\ Exact(w)
    <2>1. Exact(w)
      BY <1>10, <1>12 DEF GateInv, PinnedThen
    <2>2. ~JvmEnded
      BY <1>12, ThreadNames DEF Alive, JvmEnded, GateInv, WhoIsCalledWhat
    <2>3. w \in {picked.producer, picked.consumer}
      BY <1>10, <1>12, <2>2, ThreadNames DEF GateInv, PickedAreWorkers
    <2>4. Audit(t)
      BY <1>12 DEF PinThread
    <2>5. CASE t = w
      BY <2>1, <2>3, <2>4, <2>5 DEF Audit
    <2>6. CASE t # w
      BY <1>1, <1>3, <2>1, <2>6, ThreadNames
    <2> QED
      BY <2>5, <2>6
  <1>13. PinnedThen'
    BY <1>1, <1>9, <1>12 DEF GateInv, PinnedThen, Alive, Exact
  <1> QED
    BY <1>5, <1>7, <1>8, <1>11, <1>13 DEF GateInv

\* It goes on auditing, or gives up and reaps the process.
LEMMA AfterwardsStep ==
    ASSUME GateInv, NextAudit \/ Terminate \/ Reap,
           UNCHANGED <<jvm, comm, at, faultVars>>
    PROVE  GateInv'
  <1>1. UNCHANGED <<jvm, comm, at, mask, gate, loop, names, picked, interfered>>
    BY DEF NextAudit, Terminate, Reap, InLoop, Go, faultVars
  <1>2. step' \in {"look", "reaping", "raised"}
    BY DEF NextAudit, Terminate, Reap, Go
  <1>3. GateTypes' /\ WhoIsCalledWhat'
    BY <1>1, DecidingStep DEF GateInv, GateTypes
  <1>4. /\ Met' => Met
        /\ Settled' => Settled
        /\ Confirmed' => Confirmed
    BY <1>1, <1>2 DEF Met, Settled, Confirmed
  <1>5. WorkersHaveNames' /\ ReadAgain'
    BY <1>1, <1>2, <1>4 DEF GateInv, WorkersHaveNames, ReadAgain
  <1>6. PickedAreWorkers' /\ PinnedThen'
    BY <1>1, <1>4 DEF GateInv, PickedAreWorkers, PinnedThen, JvmEnded, Alive,
                      Exact
  <1> QED
    BY <1>3, <1>5, <1>6 DEF GateInv

------------------------------------------------------------------------------
(* The theorems.                                                           *)

\* Nothing is known and nothing is pinned when the launcher starts the JVM.
LEMMA GateStart == GateInit => GateInv
  <1> SUFFICES ASSUME GateInit
               PROVE  GateInv
    OBVIOUS
  <1>1. GateTypes
    BY DEF GateInit, GateTypes, Nobody, Names, Masks, Places
  <1>2. WhoIsCalledWhat
    BY ThreadNames DEF GateInit, WhoIsCalledWhat, Nobody
  <1>3. WorkersHaveNames /\ ReadAgain /\ PickedAreWorkers /\ PinnedThen
    BY DEF GateInit, WorkersHaveNames, ReadAgain, PickedAreWorkers, PinnedThen, Met,
           Settled, Confirmed
  <1> QED
    BY <1>1, <1>2, <1>3 DEF GateInv

\* Time passes, somebody interferes, or nothing happens.
LEMMA OutsideStep ==
    ASSUME GateInv, \/ DeadlinePasses \/ UNCHANGED gateVars
                    \/ \E w \in Workers : Interfere(w)
    PROVE  GateInv'
  <1>1. /\ UNCHANGED <<jvm, comm, at, gate, loop, step, names, todo, picked>>
        /\ interfered' \/ UNCHANGED <<mask, interfered>>
    BY DEF DeadlinePasses, Interfere, gateVars, jvmVars, launcherVars, faultVars
  <1>2. mask' \in [Threads -> Masks]
    <2>1. mask \in [Threads -> Masks] /\ Housekeeping \in Masks
      BY DEF GateInv, GateTypes, Masks
    <2>2. mask' = mask \/ \E w \in Workers : mask' = [mask EXCEPT ![w] = Housekeeping]
      BY DEF DeadlinePasses, Interfere, gateVars, jvmVars
    <2> QED
      BY <2>1, <2>2
  <1>3. GateTypes' /\ WhoIsCalledWhat'
    BY <1>1, <1>2, DecidingStep
  <1>4. WorkersHaveNames' /\ ReadAgain' /\ PickedAreWorkers'
    BY <1>1 DEF GateInv, WorkersHaveNames, ReadAgain, PickedAreWorkers, Met,
                Settled, JvmEnded, Alive
  <1>5. PinnedThen'
    BY <1>1 DEF GateInv, PinnedThen, Confirmed, Alive, Exact
  <1> QED
    BY <1>3, <1>4, <1>5 DEF GateInv

\* The inductive invariant: which names are in use, and what the launcher may
\* conclude from the names it has read, for any number of other threads.
THEOREM GateInvariance == GateSpec => []GateInv
  <1>1. GateInv /\ [GateNext]_gateVars => GateInv'
    <2> SUFFICES ASSUME GateInv, [GateNext]_gateVars
                 PROVE  GateInv'
      OBVIOUS
    <2>1. CASE Jvm
      BY <2>1, JvmStep
    <2>2. CASE Launcher
      BY <2>2, ReadingStep, SelectStep, ConfirmStep, PinStep, AfterwardsStep
         DEF Launcher
    <2>3. CASE Killed
      BY <2>3, EndStep DEF Killed
    <2>4. CASE \/ DeadlinePasses \/ BothEnded \/ UNCHANGED gateVars
               \/ \E w \in Workers : Interfere(w)
      BY <2>4, OutsideStep DEF BothEnded
    <2> QED
      BY <2>1, <2>2, <2>3, <2>4 DEF GateNext
  <1> QED
    BY <1>1, GateStart, PTL DEF GateSpec

\* When the gate is open the threads that run the producer's and the consumer's
\* code have exactly their CPU, whatever helper has inherited their names.
THEOREM OpenGateMeansPinned == GateSpec => []WorkersArePinned
  <1>1. GateInv => WorkersArePinned
    BY DEF GateInv, PinnedThen, Confirmed, WorkersArePinned
  <1> QED
    BY <1>1, GateInvariance, PTL

\* A JVM that has ended stays so: no thread is left that could act.
LEMMA EndIsFinal ==
    ASSUME GateInv, GateNext, JvmEnded
    PROVE  jvm' = jvm
  <1>1. \A t \in Threads : ~Alive(t)
    BY DEF GateInv, WhoIsCalledWhat, JvmEnded, Alive
  <1>2. jvm # "starting" /\ "main" \in Threads /\ "consumer" \in Threads
    BY ThreadNames DEF JvmEnded
  <1>3. CASE Jvm
    <2>1. ~JvmAppears /\ ~JvmFailsToStart
      BY <1>2 DEF JvmAppears, JvmFailsToStart
    <2>2. WorkerStep => FALSE
      BY <1>1, <1>2, <2>1
         DEF WorkerStep, MainNamesItself, StartConsumer, Create,
             ConsumerNamesItself, PassGate, Moves, MainChecks, TakePhase,
             ConsumerChecks, MainSeesReady, MainRechecks, ConsumerCompletes,
             ConsumerEnds, NextPhase, Complete, RethrowConsumerFailure
    <2>3. ~Halt /\ ~RethrowWhileMeasuring /\ ~JvmFault
      BY <1>1, <1>2, <2>1
         DEF Halt, RethrowWhileMeasuring, Moves, JvmFault, MainThrows,
             ConsumerThrows
    <2> QED
      BY <1>3, <2>2, <2>3 DEF Jvm, HelperNamesItself, HelperEnds, HelperStarts,
                              Create
  <1> QED
    BY <1>3 DEF GateNext, Launcher, Killed, DeadlinePasses, jvmVars, Interfere,
                BothEnded, gateVars

\* The launcher ends after the JVM, on every path out of its three loops: with
\* a status it has read, or with an error after terminate_and_reap.
THEOREM LauncherReapsItsJvm == GateSpec => []NoJvmLeftBehind
  <1>1. GateInit => NoJvmLeftBehind
    BY DEF GateInit, NoJvmLeftBehind, LauncherEnded
  <1>2. ASSUME GateInv, NoJvmLeftBehind, [GateNext]_gateVars
        PROVE  NoJvmLeftBehind'
    <2>1. JvmEnded => JvmEnded'
      BY <1>2, EndIsFinal
         DEF JvmEnded, gateVars, jvmVars
    <2>2. CASE Launcher
      <3>1. LauncherEnded' => JvmEnded
        BY <1>2, <2>2
           DEF Launcher, LauncherEnded, NoJvmLeftBehind, RunOutOfTime,
               ReturnStatus, Look, Select, VisitAgain, Verify, Recheck, Confirm,
               OpenGate, NextAudit, Terminate, Reap, ReadName, PinThread, Audit,
               Go
      <3> QED
        BY <2>1, <3>1 DEF NoJvmLeftBehind
    <2>3. CASE ~Launcher
      <3>1. step' = step
        BY <1>2, <2>3 DEF GateNext, Jvm, Killed, DeadlinePasses, Interfere,
                          BothEnded, gateVars, launcherVars
      <3> QED
        BY <1>2, <2>1, <3>1 DEF NoJvmLeftBehind, LauncherEnded
    <2> QED
      BY <2>2, <2>3
  <1> QED
    BY <1>1, <1>2, GateInvariance, PTL DEF GateSpec
==============================================================================
