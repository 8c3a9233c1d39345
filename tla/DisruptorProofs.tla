--------------------------- MODULE DisruptorProofs ---------------------------
(***************************************************************************)
(* The disruptor's safety, for every ring size, sequence range, number of  *)
(* consumers and behaviour of contract-keeping callers.                    *)
(***************************************************************************)
EXTENDS Disruptor, SequenceTheorems, TLAPS

------------------------------------------------------------------------------
(* sequence_type arithmetic and ring slots, for every Wrap and Capacity.   *)
(* The proofs below use Add, Sub and EventAt only through these lemmas.    *)

\* The linear part of the assumptions.
LEMMA Bounds == /\ Capacity \in Nat /\ Capacity > 0
                /\ Wrap \in Nat /\ 2 * Capacity < Wrap
  BY CapacityAssumption, WrapAssumption

USE Bounds

\* A remainder is determined by any way of writing the dividend.
LEMMA RemainderUnique ==
    ASSUME NEW d \in Nat \ {0}, NEW q \in Int, NEW r \in 0..(d - 1)
    PROVE  (q * d + r) % d = r
  OBVIOUS

\* Unsigned subtraction of sequence_type values is the forward distance;
\* unsigned addition stays in range or rolls over once.
SubIs(x, y) == /\ Sub(x, y) \in SequenceType
               /\ x >= y => Sub(x, y) = x - y
               /\ x < y => Sub(x, y) = x - y + Wrap

AddIs(x, n) == /\ Add(x, n) \in SequenceType
               /\ x + n < Wrap => Add(x, n) = x + n
               /\ x + n >= Wrap => Add(x, n) = x + n - Wrap

\* Sub is what SubIs says.
LEMMA SubCases ==
    ASSUME NEW x \in SequenceType, NEW y \in SequenceType
    PROVE  SubIs(x, y)
  <1>1. CASE x >= y
    BY <1>1 DEF Sub, SequenceType, SubIs
  <1>2. CASE x < y
    BY <1>2 DEF Sub, SequenceType, SubIs
  <1>3. QED
    BY <1>1, <1>2 DEF SequenceType

\* Add is what AddIs says.
LEMMA AddCases ==
    ASSUME NEW x \in SequenceType, NEW n \in SequenceType
    PROVE  AddIs(x, n)
  BY DEF Add, SequenceType, AddIs

\* Both operations stay within sequence_type.
LEMMA ArithmeticType ==
    ASSUME NEW x \in SequenceType, NEW y \in SequenceType
    PROVE  Add(x, y) \in SequenceType /\ Sub(x, y) \in SequenceType
  BY SubCases, AddCases DEF SubIs, AddIs

\* A position is at distance zero from itself and from nothing else.
LEMMA SubZero ==
    ASSUME NEW x \in SequenceType, NEW y \in SequenceType
    PROVE  (Sub(x, y) = 0) <=> (x = y)
  <1>1. SubIs(x, y)
    BY SubCases, AddCases, ArithmeticType
  <1>2. QED
    BY <1>1 DEF SubIs, AddIs, SequenceType

\* Moving forward by nothing.
LEMMA AddZero ==
    ASSUME NEW x \in SequenceType
    PROVE  Add(x, 0) = x
  <1>1. 0 \in SequenceType /\ AddIs(x, 0)
    <2>1. 0 \in SequenceType
      BY DEF SequenceType
    <2>2. QED
      BY <2>1, AddCases
  <1>2. QED
    BY <1>1 DEF SubIs, AddIs, SequenceType

\* Advancing the far end adds to a distance, as long as it does not lap.
LEMMA SubAddLeft ==
    ASSUME NEW x \in SequenceType, NEW y \in SequenceType,
           NEW n \in SequenceType, Sub(x, y) + n < Wrap
    PROVE  Sub(Add(x, n), y) = Sub(x, y) + n
  <1>1. SubIs(x, y) /\ AddIs(x, n) /\ SubIs(Add(x, n), y)
    BY SubCases, AddCases, ArithmeticType
  <1>2. QED
    BY <1>1 DEF SubIs, AddIs, SequenceType

\* Advancing the near end takes from a distance.
LEMMA SubAddRight ==
    ASSUME NEW x \in SequenceType, NEW y \in SequenceType,
           NEW n \in SequenceType, n <= Sub(x, y)
    PROVE  Sub(x, Add(y, n)) = Sub(x, y) - n
  <1>1. SubIs(x, y) /\ AddIs(y, n) /\ SubIs(x, Add(y, n))
    BY SubCases, AddCases, ArithmeticType
  <1>2. QED
    BY <1>1 DEF SubIs, AddIs, SequenceType

\* Consecutive advances are one advance.
LEMMA AddAdd ==
    ASSUME NEW x \in SequenceType, NEW m \in SequenceType,
           NEW n \in SequenceType, m + n \in SequenceType
    PROVE  Add(Add(x, m), n) = Add(x, m + n)
  <1>1. AddIs(x, m) /\ AddIs(Add(x, m), n) /\ AddIs(x, m + n)
    BY SubCases, AddCases, ArithmeticType
  <1>2. QED
    BY <1>1 DEF SubIs, AddIs, SequenceType

\* If y lies between z and x, its distance to x is what z's leaves.
LEMMA SubBetween ==
    ASSUME NEW x \in SequenceType, NEW y \in SequenceType,
           NEW z \in SequenceType, Sub(y, z) <= Sub(x, z)
    PROVE  Sub(x, y) = Sub(x, z) - Sub(y, z)
  <1>1. SubIs(x, y) /\ SubIs(y, z) /\ SubIs(x, z)
    BY SubCases, AddCases, ArithmeticType
  <1>2. QED
    BY <1>1 DEF SubIs, AddIs, SequenceType

\* The same, with y's place given from x.
LEMMA SubBetweenBack ==
    ASSUME NEW x \in SequenceType, NEW y \in SequenceType,
           NEW z \in SequenceType, Sub(x, y) <= Sub(x, z)
    PROVE  Sub(y, z) = Sub(x, z) - Sub(x, y)
  <1>1. SubIs(x, y) /\ SubIs(y, z) /\ SubIs(x, z)
    BY SubCases, AddCases, ArithmeticType
  <1>2. QED
    BY <1>1 DEF SubIs, AddIs, SequenceType

\* Distances less than a lap add up.
LEMMA SubCompose ==
    ASSUME NEW x \in SequenceType, NEW y \in SequenceType,
           NEW z \in SequenceType, Sub(x, y) + Sub(y, z) < Wrap
    PROVE  Sub(x, z) = Sub(x, y) + Sub(y, z)
  <1>1. SubIs(x, y) /\ SubIs(y, z) /\ SubIs(x, z)
    BY SubCases, AddCases, ArithmeticType
  <1>2. QED
    BY <1>1 DEF SubIs, AddIs, SequenceType

\* Every position is reached by advancing over its distance.
LEMMA AddSub ==
    ASSUME NEW x \in SequenceType, NEW y \in SequenceType
    PROVE  Add(y, Sub(x, y)) = x
  <1>1. SubIs(x, y) /\ AddIs(y, Sub(x, y))
    BY SubCases, AddCases, ArithmeticType
  <1>2. QED
    BY <1>1 DEF SubIs, AddIs, SequenceType

\* The distance covered by an advance is the advance.
LEMMA SubAddSelf ==
    ASSUME NEW x \in SequenceType, NEW n \in SequenceType
    PROVE  Sub(Add(x, n), x) = n
  <1>1. AddIs(x, n) /\ SubIs(Add(x, n), x)
    BY SubCases, AddCases, ArithmeticType
  <1>2. QED
    BY <1>1 DEF SubIs, AddIs, SequenceType

------------------------------------------------------------------------------
\* Every position has a slot.
LEMMA EventAtType ==
    ASSUME NEW x \in SequenceType
    PROVE  EventAt(x) \in Slots
  BY DEF EventAt, Slots, SequenceType

\* Two numbers less than Capacity apart have different remainders.
LEMMA RemaindersDiffer ==
    ASSUME NEW x \in Nat, NEW y \in Nat, 0 < x - y, x - y < Capacity
    PROVE  x % Capacity # y % Capacity
  <1>1. /\ x = Capacity * (x \div Capacity) + (x % Capacity)
        /\ y = Capacity * (y \div Capacity) + (y % Capacity)
        /\ x \div Capacity \in Nat /\ y \div Capacity \in Nat
    OBVIOUS
  <1>2. SUFFICES ASSUME x % Capacity = y % Capacity PROVE FALSE
    OBVIOUS
  <1> DEFINE k == (x \div Capacity) - (y \div Capacity)
  <1>3. k \in Int /\ x - y = Capacity * k
    BY <1>1, <1>2
  <1>4. k <= 0 => Capacity * k <= 0
    BY <1>3
  <1>5. k >= 1 => Capacity * k >= Capacity
    BY <1>3
  <1>6. QED
    BY <1>3, <1>4, <1>5

\* Rolling over keeps the slot: Capacity divides the sequence range.
LEMMA SlotSurvivesRollover ==
    ASSUME NEW x \in Nat, x >= Wrap
    PROVE  (x - Wrap) % Capacity = x % Capacity
  <1> DEFINE q == x \div Capacity
             k == Wrap \div Capacity
             r == x % Capacity
  <1>1. x = q * Capacity + r /\ q \in Nat /\ r \in 0..(Capacity - 1)
    OBVIOUS
  <1>2. Wrap = k * Capacity /\ k \in Nat
    BY WrapAssumption
  <1>3. x - Wrap = (q - k) * Capacity + r /\ q - k \in Int
    BY <1>1, <1>2
  <1> HIDE DEF q, k, r
  <1>4. ((q - k) * Capacity + r) % Capacity = r
    <2>1. Capacity \in Nat \ {0}
      OBVIOUS
    <2>2. QED
      BY <1>1, <1>3, <2>1, RemainderUnique
  <1>5. QED
    BY <1>3, <1>4 DEF r

\* Positions less than Capacity apart have different slots, across rollover too.
LEMMA SlotsDiffer ==
    ASSUME NEW x \in SequenceType, NEW y \in SequenceType,
           0 < Sub(x, y), Sub(x, y) < Capacity
    PROVE  EventAt(x) # EventAt(y)
  <1>0. SubIs(x, y) /\ x \in Nat /\ y \in Nat /\ x + Wrap \in Nat
    BY SubCases DEF SequenceType
  <1>1. CASE x >= y
    <2>1. 0 < x - y /\ x - y < Capacity
      BY <1>0, <1>1 DEF SubIs
    <2>2. QED
      BY <1>0, <2>1, RemaindersDiffer DEF EventAt
  <1>2. CASE x < y
    <2>1. (x + Wrap) % Capacity = x % Capacity
      <3>1. (x + Wrap) - Wrap = x /\ x + Wrap >= Wrap
        BY <1>0
      <3>2. QED
        BY <1>0, <3>1, SlotSurvivesRollover
    <2>2. (x + Wrap) % Capacity # y % Capacity
      <3>1. 0 < (x + Wrap) - y /\ (x + Wrap) - y < Capacity
        BY <1>0, <1>2 DEF SubIs
      <3>2. QED
        BY <1>0, <3>1, RemaindersDiffer
    <2>3. QED
      BY <2>1, <2>2 DEF EventAt
  <1>3. QED
    BY <1>1, <1>2 DEF SequenceType

\* The two-span traversal of the handles visits the slots event_at names.
LEMMA SpanIsEventAt ==
    ASSUME NEW first \in SequenceType, NEW count \in 1..Capacity,
           NEW index \in 0..(count - 1)
    PROVE  SpanAt(first, count, index) = EventAt(Add(first, index))
  <1> DEFINE q == first \div Capacity
             r == first % Capacity
  <1>1. first = q * Capacity + r /\ q \in Nat /\ r \in 0..(Capacity - 1)
    BY DEF SequenceType
  <1>2. index \in SequenceType
    BY DEF SequenceType
  <1>3. EventAt(Add(first, index)) = (first + index) % Capacity
    <2>1. CASE first + index < Wrap
      BY <2>1, <1>2, AddCases DEF EventAt, AddIs
    <2>2. CASE first + index >= Wrap
      <3>1. Add(first, index) = first + index - Wrap
        BY <2>2, <1>2, AddCases DEF AddIs
      <3>2. first + index \in Nat
        BY DEF SequenceType
      <3>3. (first + index - Wrap) % Capacity = (first + index) % Capacity
        <4> DEFINE x == first + index
        <4>1. x \in Nat /\ x >= Wrap
          BY <2>2, <3>2
        <4> HIDE DEF x
        <4>2. (x - Wrap) % Capacity = x % Capacity
          BY <4>1, SlotSurvivesRollover
        <4>3. QED
          BY <4>2 DEF x, SequenceType
      <3>4. QED
        BY <3>1, <3>3 DEF EventAt
    <2>3. QED
      BY <2>1, <2>2 DEF SequenceType
  <1> HIDE DEF q, r
  <1>4. CASE r + index < Capacity
    <2>1. first + index = q * Capacity + (r + index)
      BY <1>1
    <2>2. (q * Capacity + (r + index)) % Capacity = r + index
      BY <1>1, <1>4, RemainderUnique
    <2>3. SpanAt(first, count, index) = r + index
      BY <1>1, <1>4 DEF SpanAt, r
    <2>4. QED
      BY <1>3, <2>1, <2>2, <2>3
  <1>5. CASE r + index >= Capacity
    <2>1. /\ first + index = (q + 1) * Capacity + (r + index - Capacity)
          /\ q + 1 \in Int /\ r + index - Capacity \in 0..(Capacity - 1)
      BY <1>1, <1>5
    <2>2. ((q + 1) * Capacity + (r + index - Capacity)) % Capacity
            = r + index - Capacity
      <3> DEFINE m == q + 1
                 t == r + index - Capacity
      <3>1. m \in Int /\ t \in 0..(Capacity - 1) /\ Capacity \in Nat \ {0}
        BY <2>1
      <3> HIDE DEF m, t
      <3>2. (m * Capacity + t) % Capacity = t
        BY <3>1, RemainderUnique
      <3>3. QED
        BY <3>2 DEF m, t
    <2>3. SpanAt(first, count, index) = r + index - Capacity
      BY <1>1, <1>5 DEF SpanAt, r
    <2>4. QED
      BY <1>3, <2>1, <2>2, <2>3
  <1>6. QED
    BY <1>4, <1>5, <1>1

------------------------------------------------------------------------------
(* The inductive invariant.                                                *)

\* At most one handle owns the producer state.
OneOwner ==
    \A h, g \in Handles : object[h] = "owning" /\ object[g] = "owning" => h = g

\* consumers[c] is at most Capacity behind published, and every value of it the
\* producer has acquired or may still read lies behind it, in order.
AckOrder ==
    \A c \in Consumers :
        /\ Sub(published, ackAcquired[c]) <= Capacity
        /\ Sub(published, consumers[c]) <= Sub(published, ackAcquired[c])
        /\ \A v \in ackView[c] :
             /\ Sub(published, consumers[c]) <= Sub(published, v)
             /\ Sub(published, v) <= Sub(published, ackAcquired[c])

\* Every value of published c has acquired or may still read lies between
\* consumers[c] and published, in order.
PubOrder ==
    \A c \in Consumers :
        /\ Sub(pubAcquired[c], consumers[c]) <= Sub(published, consumers[c])
        /\ \A v \in pubView[c] :
             /\ Sub(pubAcquired[c], consumers[c]) <= Sub(v, consumers[c])
             /\ Sub(v, consumers[c]) <= Sub(published, consumers[c])

\* A handle's cursor and cache, and the batch being handed over, lie within
\* what c has acquired.
ConsumerInv ==
    \A c \in Consumers :
        /\ chandle[c].live =>
             /\ chandle[c].next = consumers[c]
             /\ Sub(chandle[c].cached, consumers[c])
                   <= Sub(pubAcquired[c], consumers[c])
        /\ take[c].reading =>
             /\ take[c].first = consumers[c]
             /\ take[c].index <= take[c].count
             /\ take[c].count <= Sub(pubAcquired[c], consumers[c])
             /\ (take[c].by = "handle") <=> chandle[c].live
             /\ take[c].by = "handle" =>
                  take[c].count <= Sub(chandle[c].cached, consumers[c])

\* The call in progress: what the scan has covered, what the write may use.
CallInv ==
    /\ call.pc # "idle" => Owns(call.path) /\ call.count >= 1
    /\ call.pc = "scan" =>
         /\ call.index <= ConsumerCount
         /\ call.lag <= Capacity - call.count
         /\ \A c \in Consumers :
              c < call.index \/ c = cursor[call.path].blocker =>
                 Sub(published, ackAcquired[c]) <= call.lag
    /\ call.pc = "write" => /\ call.index <= call.count
                            /\ call.count <= cursor[call.path].available

\* Each published event c has not released is still in its slot, and so is each
\* event of the batch being written that has been written.
RingInv ==
    /\ \A c \in Consumers : \A q \in SequenceType :
         Sub(q, consumers[c]) < Sub(published, consumers[c]) =>
            events[EventAt(q)] = q
    /\ call.pc = "write" =>
         \A q \in SequenceType :
            Sub(q, published) < call.index => events[EventAt(q)] = q

IInv == /\ TypeOK
        /\ OneOwner
        /\ CapacityCacheSound
        /\ AckOrder
        /\ PubOrder
        /\ ConsumerInv
        /\ CallInv
        /\ RingInv
        /\ DebugStateTracksOwnership

USE Bounds, ConsumersAssumption, CallersAssumption

------------------------------------------------------------------------------
\* The constructor establishes the invariant.
LEMMA InitIInv == Init => IInv
  <1>1. SUFFICES ASSUME NEW p0 \in InitialPositions,
                        /\ published = p0
                        /\ consumers = [c \in Consumers |-> p0]
                        /\ events = [s \in Slots |-> Blank]
                        /\ cursor = [p \in Paths |->
                                       IF p = Owner THEN [next |-> p0,
                                                          available |-> Capacity,
                                                          blocker |-> 0]
                                                    ELSE NoCursor]
                        /\ object = [h \in Handles |-> "none"]
                        /\ producer_state = "idle"
                        /\ call = Idle
                        /\ chandle = [c \in Consumers |-> NoHandle]
                        /\ take = [c \in Consumers |-> NotReading]
                        /\ pubView = [c \in Consumers |-> {p0}]
                        /\ ackView = [c \in Consumers |-> {p0}]
                        /\ pubAcquired = [c \in Consumers |-> p0]
                        /\ ackAcquired = [c \in Consumers |-> p0]
                 PROVE  IInv
    BY DEF Init
  <1>2. p0 \in SequenceType /\ 0 \in Consumers /\ 0 \in SequenceType
    BY DEF SequenceType, Consumers
  <1>3. Sub(p0, p0) = 0
    BY <1>2, SubZero
  <1>4. TypeOK
    BY <1>1, <1>2 DEF TypeOK, Idle, Calling, NotReading, NoHandle, NoCursor, Paths,
                      CursorType, CallType, HandleType, TakeType
  <1>5. OneOwner /\ DebugStateTracksOwnership
    BY <1>1 DEF OneOwner, DebugStateTracksOwnership, Owns, Idle, Calling
  <1>6. CapacityCacheSound
    BY <1>1, <1>3 DEF CapacityCacheSound, Owns, Paths
  <1>7. AckOrder /\ PubOrder
    BY <1>1, <1>3 DEF AckOrder, PubOrder
  <1>8. ConsumerInv
    BY <1>1 DEF ConsumerInv, NoHandle, NotReading
  <1>9. CallInv
    BY <1>1 DEF CallInv, Idle, Calling
  <1>10. RingInv
    <2>1. \A q \in SequenceType : ~(Sub(q, p0) < 0)
      BY <1>2, ArithmeticType DEF SequenceType
    <2>2. QED
      BY <1>1, <1>3, <2>1 DEF RingInv, Idle, Calling
  <1>11. QED
    BY <1>4, <1>5, <1>6, <1>7, <1>8, <1>9, <1>10 DEF IInv

------------------------------------------------------------------------------
(* Consumer steps.                                                         *)

\* A step that leaves the producer, the ring and the shared positions alone
\* disturbs at most the consumers' own part of the invariant.
LEMMA SharedFrame ==
    ASSUME IInv, UNCHANGED <<events, producerVars, pubVars, ackVars>>
    PROVE  /\ OneOwner' /\ CapacityCacheSound' /\ AckOrder' /\ PubOrder'
           /\ CallInv' /\ RingInv' /\ DebugStateTracksOwnership'
  <1>1. OneOwner' /\ CapacityCacheSound' /\ DebugStateTracksOwnership'
    BY DEF IInv, OneOwner, CapacityCacheSound, DebugStateTracksOwnership, Owns,
           producerVars, pubVars, ackVars
  <1>2. AckOrder' /\ PubOrder'
    BY DEF IInv, AckOrder, PubOrder, pubVars, ackVars
  <1>3. CallInv' /\ RingInv'
    BY DEF IInv, CallInv, RingInv, Owns, producerVars, pubVars, ackVars
  <1>4. QED
    BY <1>1, <1>2, <1>3

\* make_consumer.
LEMMA MakeConsumerStep ==
    ASSUME IInv, NEW c \in Consumers, MakeConsumer(c)
    PROVE  IInv'
  <1>1. TypeOK'
    BY DEF IInv, TypeOK, MakeConsumer, HandleType, producerVars, pubVars, ackVars
  <1>2. ConsumerInv'
    <2>1. consumers[c] \in SequenceType /\ pubAcquired[c] \in SequenceType
      BY DEF IInv, TypeOK
    <2>2. Sub(consumers[c], consumers[c]) <= Sub(pubAcquired[c], consumers[c])
      <3>1. Sub(consumers[c], consumers[c]) = 0
        BY <2>1, SubZero
      <3>2. Sub(pubAcquired[c], consumers[c]) \in SequenceType
        BY <2>1, ArithmeticType
      <3>3. QED
        BY <3>1, <3>2 DEF SequenceType
    <2>3. QED
      BY <2>2 DEF IInv, TypeOK, ConsumerInv, MakeConsumer, pubVars, ackVars
  <1>3. QED
    BY <1>1, <1>2, SharedFrame DEF IInv, MakeConsumer

\* The end of a consumer handle.
LEMMA DropConsumerStep ==
    ASSUME IInv, NEW c \in Consumers, DropConsumer(c)
    PROVE  IInv'
  <1>0. 0 \in SequenceType
    BY DEF SequenceType
  <1>1. TypeOK'
    BY <1>0 DEF IInv, TypeOK, DropConsumer, NoHandle, HandleType, producerVars,
                pubVars, ackVars
  <1>2. ConsumerInv'
    BY DEF IInv, TypeOK, HandleType, TakeType, ConsumerInv, DropConsumer,
           NoHandle, pubVars, ackVars
  <1>3. QED
    BY <1>1, <1>2, SharedFrame DEF IInv, DropConsumer

\* One handler invocation.
LEMMA HandleEventStep ==
    ASSUME IInv, NEW c \in Consumers, HandleEvent(c)
    PROVE  IInv'
  <1>0. [take[c] EXCEPT !.index = @ + 1] \in TakeType
    <2>1. take[c] \in TakeType
      BY DEF IInv, TypeOK
    <2>2. take[c].index + 1 \in 0..Capacity
      BY <2>1 DEF HandleEvent, TakeType
    <2>3. QED
      BY <2>1, <2>2 DEF TakeType
  <1>1. TypeOK'
    BY <1>0 DEF IInv, TypeOK, HandleEvent, producerVars, pubVars, ackVars
  <1>2. ConsumerInv'
    BY DEF IInv, TypeOK, HandleType, TakeType, ConsumerInv, HandleEvent, pubVars, ackVars
  <1>3. QED
    BY <1>1, <1>2, SharedFrame DEF IInv, HandleEvent

\* The order of the positions a consumer and the producer know, in numbers.
LEMMA Window ==
    ASSUME IInv, NEW c \in Consumers
    PROVE  /\ published \in SequenceType /\ consumers[c] \in SequenceType
           /\ pubAcquired[c] \in SequenceType /\ ackAcquired[c] \in SequenceType
           /\ Sub(pubAcquired[c], consumers[c]) \in 0..Capacity
           /\ Sub(published, consumers[c]) \in 0..Capacity
           /\ Sub(published, ackAcquired[c]) \in 0..Capacity
           /\ Sub(pubAcquired[c], consumers[c]) <= Sub(published, consumers[c])
           /\ Sub(published, consumers[c]) <= Sub(published, ackAcquired[c])
  <1>1. /\ published \in SequenceType /\ consumers[c] \in SequenceType
        /\ pubAcquired[c] \in SequenceType /\ ackAcquired[c] \in SequenceType
    BY DEF IInv, TypeOK
  <1>2. /\ Sub(pubAcquired[c], consumers[c]) <= Sub(published, consumers[c])
        /\ Sub(published, consumers[c]) <= Sub(published, ackAcquired[c])
        /\ Sub(published, ackAcquired[c]) <= Capacity
    BY DEF IInv, PubOrder, AckOrder
  <1>3. /\ Sub(pubAcquired[c], consumers[c]) \in SequenceType
        /\ Sub(published, consumers[c]) \in SequenceType
        /\ Sub(published, ackAcquired[c]) \in SequenceType
    BY <1>1, ArithmeticType
  <1>4. QED
    BY <1>1, <1>2, <1>3 DEF SequenceType

\* A call takes nothing, or at least one and at most what is available.
LEMMA TakingResult ==
    ASSUME NEW first \in SequenceType, NEW a \in SequenceType,
           NEW m \in Nat \ {0}, NEW b \in {"index", "handle"}, Sub(a, first) <= Capacity
    PROVE  /\ Taking(first, a, m, b) \in TakeType
           /\ Taking(first, a, m, b).reading =>
                /\ Taking(first, a, m, b).first = first
                /\ Taking(first, a, m, b).index = 0
                /\ Taking(first, a, m, b).count <= Sub(a, first)
                /\ Taking(first, a, m, b).count >= 1
                /\ Taking(first, a, m, b).by = b
  <1> DEFINE n == Sub(a, first)
             k == IF n < m THEN n ELSE m
  <1>1. n \in SequenceType
    BY ArithmeticType
  <1>2. CASE n = 0
    BY <1>2 DEF Taking, NotReading, TakeType, SequenceType
  <1>3. CASE n # 0
    <2>1. k \in 1..Capacity /\ k <= n
      BY <1>1, <1>3 DEF SequenceType
    <2>2. Taking(first, a, m, b) = [reading |-> TRUE, by |-> b,
                                    first |-> first, count |-> k, index |-> 0]
      BY <1>3 DEF Taking
    <2>3. QED
      BY <2>1, <2>2 DEF TakeType
  <1>4. QED
    BY <1>2, <1>3

\* consume_available from the handle's cached range.
LEMMA ConsumeCachedStep ==
    ASSUME IInv, NEW c \in Consumers, NEW m \in Nat, ConsumeCached(c, m)
    PROVE  IInv'
  <1> DEFINE next == chandle[c].next
             n == Sub(chandle[c].cached, next)
  <1>1. /\ next \in SequenceType /\ chandle[c].cached \in SequenceType
        /\ next = consumers[c]
    BY DEF IInv, TypeOK, HandleType, ConsumerInv, ConsumeCached
  <1>2. n <= Sub(pubAcquired[c], consumers[c]) /\ n <= Capacity
    <2>1. n <= Sub(pubAcquired[c], consumers[c])
      BY <1>1 DEF IInv, ConsumerInv, ConsumeCached
    <2>2. n \in SequenceType
      BY <1>1, ArithmeticType
    <2>3. QED
      BY <2>1, <2>2, Window DEF SequenceType
  <1>3. m \in Nat \ {0}
    BY DEF ConsumeCached
  <1> DEFINE t == Taking(next, chandle[c].cached, m, "handle")
  <1>4. /\ t \in TakeType
        /\ t.reading => /\ t.first = next /\ t.index = 0 /\ t.count <= n
                        /\ t.by = "handle"
    BY <1>1, <1>2, <1>3, TakingResult
  <1>5. take' = [take EXCEPT ![c] = t]
    BY DEF ConsumeCached
  <1> HIDE DEF t
  <1>6. TypeOK'
    BY <1>4, <1>5 DEF IInv, TypeOK, ConsumeCached, producerVars, pubVars, ackVars
  <1>7. ConsumerInv'
    <2>1. n \in Int /\ Sub(pubAcquired[c], consumers[c]) \in Int
      <3>1. n \in SequenceType
        BY <1>1, ArithmeticType
      <3>2. QED
        BY <3>1, Window DEF SequenceType
    <2>2. QED
      BY <1>1, <1>2, <1>4, <1>5, <2>1 DEF IInv, TypeOK, TakeType, HandleType,
            ConsumerInv, ConsumeCached, pubVars, ackVars
  <1>8. QED
    BY <1>6, <1>7, SharedFrame DEF IInv, ConsumeCached

\* Acquiring published_ keeps the consumer's knowledge in order.
LEMMA AcquirePublishedKeeps ==
    ASSUME IInv, NEW c \in Consumers, NEW v, AcquirePublished(c, v),
           consumers' = consumers
    PROVE  /\ v \in SequenceType
           /\ pubView' \in [Consumers -> SUBSET SequenceType]
           /\ pubAcquired' \in [Consumers -> SequenceType]
           /\ PubOrder'
           /\ Sub(v, consumers[c]) \in 0..Capacity
           /\ Sub(pubAcquired[c], consumers[c]) <= Sub(v, consumers[c])
           /\ pubAcquired'[c] = v
           /\ \A d \in Consumers \ {c} : pubAcquired'[d] = pubAcquired[d]
  <1>1. /\ pubView \in [Consumers -> SUBSET SequenceType]
        /\ pubAcquired \in [Consumers -> SequenceType]
        /\ v \in pubView[c] /\ v \in SequenceType
    BY DEF IInv, TypeOK, AcquirePublished
  <1>2. /\ pubView' \in [Consumers -> SUBSET SequenceType]
        /\ pubAcquired' \in [Consumers -> SequenceType]
        /\ pubAcquired'[c] = v
        /\ \A d \in Consumers \ {c} : /\ pubAcquired'[d] = pubAcquired[d]
                                      /\ pubView'[d] = pubView[d]
        /\ pubView'[c] = NotOlder(pubView[c], published, v)
        /\ published' = published
    BY <1>1 DEF AcquirePublished, NotOlder
  <1>3. /\ Sub(v, consumers[c]) \in 0..Capacity
        /\ Sub(pubAcquired[c], consumers[c]) <= Sub(v, consumers[c])
        /\ Sub(v, consumers[c]) <= Sub(published, consumers[c])
    <2>1. /\ Sub(pubAcquired[c], consumers[c]) <= Sub(v, consumers[c])
          /\ Sub(v, consumers[c]) <= Sub(published, consumers[c])
      BY <1>1 DEF IInv, PubOrder
    <2>2. Sub(v, consumers[c]) \in SequenceType
      BY <1>1, Window, ArithmeticType
    <2>3. QED
      BY <2>1, <2>2, Window DEF SequenceType
  <1>4. ASSUME NEW u \in pubView'[c]
        PROVE  /\ Sub(v, consumers[c]) <= Sub(u, consumers[c])
               /\ Sub(u, consumers[c]) <= Sub(published, consumers[c])
    <2>1. u \in pubView[c] /\ Sub(published, u) <= Sub(published, v)
      BY <1>2 DEF NotOlder
    <2>2. u \in SequenceType /\ Sub(u, consumers[c]) <= Sub(published, consumers[c])
      BY <1>1, <2>1 DEF IInv, PubOrder
    <2>3. Sub(published, u) = Sub(published, consumers[c]) - Sub(u, consumers[c])
      BY <2>2, Window, SubBetween
    <2>4. Sub(published, v) = Sub(published, consumers[c]) - Sub(v, consumers[c])
      BY <1>1, <1>3, Window, SubBetween
    <2>5. Sub(u, consumers[c]) \in SequenceType
      BY <2>2, Window, ArithmeticType
    <2>6. QED
      BY <1>3, <2>1, <2>2, <2>3, <2>4, <2>5, Window DEF SequenceType
  <1>5. PubOrder'
    BY <1>2, <1>3, <1>4 DEF IInv, PubOrder
  <1>6. QED
    BY <1>1, <1>2, <1>3, <1>5

\* A step that only advances consumer c's knowledge of published_ leaves the
\* producer, the ring and the release cursors' order alone.
LEMMA ProducerFrame ==
    ASSUME IInv,
           UNCHANGED <<events, producerVars, published, consumers, ackAcquired>>
    PROVE  /\ OneOwner' /\ CapacityCacheSound' /\ CallInv' /\ RingInv'
           /\ DebugStateTracksOwnership'
  <1>1. OneOwner' /\ CapacityCacheSound' /\ DebugStateTracksOwnership'
    BY DEF IInv, OneOwner, CapacityCacheSound, DebugStateTracksOwnership, Owns,
           producerVars
  <1>2. CallInv' /\ RingInv'
    BY DEF IInv, CallInv, RingInv, Owns, producerVars
  <1>3. QED
    BY <1>1, <1>2

\* consume_available(c, ...) of the disruptor.
LEMMA ConsumeIndexedStep ==
    ASSUME IInv, NEW c \in Consumers, NEW m \in Nat, ConsumeIndexed(c, m)
    PROVE  IInv'
  <1>1. PICK v \in pubView[c] :
           /\ AcquirePublished(c, v)
           /\ take' = [take EXCEPT ![c] = Taking(consumers[c], v, m, "index")]
    BY DEF ConsumeIndexed
  <1>2. /\ UNCHANGED <<events, producerVars, chandle, ackVars, published,
                       consumers, ackAcquired, ackView>>
        /\ m \in Nat \ {0} /\ ~take[c].reading /\ ~chandle[c].live
    BY <1>1 DEF ConsumeIndexed, ackVars, AcquirePublished
  <1>3. /\ v \in SequenceType
        /\ pubView' \in [Consumers -> SUBSET SequenceType]
        /\ pubAcquired' \in [Consumers -> SequenceType]
        /\ PubOrder'
        /\ Sub(v, consumers[c]) \in 0..Capacity
        /\ Sub(pubAcquired[c], consumers[c]) <= Sub(v, consumers[c])
        /\ pubAcquired'[c] = v
        /\ \A d \in Consumers \ {c} : pubAcquired'[d] = pubAcquired[d]
    BY <1>1, <1>2, AcquirePublishedKeeps
  <1> DEFINE t == Taking(consumers[c], v, m, "index")
  <1>4. /\ t \in TakeType
        /\ t.reading => /\ t.first = consumers[c] /\ t.index = 0
                        /\ t.count <= Sub(v, consumers[c])
                        /\ t.by = "index"
    <2>1. Sub(v, consumers[c]) <= Capacity /\ consumers[c] \in SequenceType
      BY <1>3, Window
    <2>2. QED
      BY <1>2, <1>3, <2>1, TakingResult
  <1>5. take' = [take EXCEPT ![c] = t]
    BY <1>1, <1>2
  <1> HIDE DEF t
  <1>6. TypeOK'
    BY <1>2, <1>3, <1>4, <1>5 DEF IInv, TypeOK, producerVars
  <1>7. ConsumerInv'
    BY <1>2, <1>3, <1>4, <1>5 DEF IInv, TypeOK, TakeType, HandleType, ConsumerInv
  <1>8. AckOrder'
    BY <1>2 DEF IInv, AckOrder
  <1>9. QED
    BY <1>2, <1>3, <1>6, <1>7, <1>8, ProducerFrame DEF IInv

\* consume_available of a handle whose cached range is used up.
LEMMA ConsumeReloadingStep ==
    ASSUME IInv, NEW c \in Consumers, NEW m \in Nat,
           ConsumeReloading(c, m)
    PROVE  IInv'
  <1>1. PICK v \in pubView[c] :
           /\ AcquirePublished(c, v)
           /\ chandle' = [chandle EXCEPT ![c].cached = v]
           /\ take' = [take EXCEPT ![c] = Taking(chandle[c].next, v, m, "handle")]
    BY DEF ConsumeReloading
  <1>2. /\ UNCHANGED <<events, producerVars, ackVars, published,
                       consumers, ackAcquired, ackView>>
        /\ m \in Nat \ {0} /\ ~take[c].reading /\ chandle[c].live
        /\ chandle[c].next = consumers[c]
    BY <1>1 DEF ConsumeReloading, ackVars, AcquirePublished, IInv, ConsumerInv
  <1>3. /\ v \in SequenceType
        /\ pubView' \in [Consumers -> SUBSET SequenceType]
        /\ pubAcquired' \in [Consumers -> SequenceType]
        /\ PubOrder'
        /\ Sub(v, consumers[c]) \in 0..Capacity
        /\ Sub(pubAcquired[c], consumers[c]) <= Sub(v, consumers[c])
        /\ pubAcquired'[c] = v
        /\ \A d \in Consumers \ {c} : pubAcquired'[d] = pubAcquired[d]
    BY <1>1, <1>2, AcquirePublishedKeeps
  <1> DEFINE t == Taking(consumers[c], v, m, "handle")
  <1>4. /\ t \in TakeType
        /\ t.reading => /\ t.first = consumers[c] /\ t.index = 0
                        /\ t.count <= Sub(v, consumers[c])
                        /\ t.by = "handle"
    <2>1. Sub(v, consumers[c]) <= Capacity /\ consumers[c] \in SequenceType
      BY <1>3, Window
    <2>2. QED
      BY <1>2, <1>3, <2>1, TakingResult
  <1>5. take' = [take EXCEPT ![c] = t]
    BY <1>1, <1>2
  <1> HIDE DEF t
  <1>6. TypeOK'
    <2>1. chandle' \in [Consumers -> HandleType]
      BY <1>1, <1>3 DEF IInv, TypeOK, HandleType
    <2>2. QED
      BY <1>2, <1>3, <1>4, <1>5, <2>1 DEF IInv, TypeOK, producerVars
  <1>7. ConsumerInv'
    BY <1>1, <1>2, <1>3, <1>4, <1>5 DEF IInv, TypeOK, TakeType, HandleType,
                                        ConsumerInv
  <1>8. AckOrder'
    BY <1>2 DEF IInv, AckOrder
  <1>9. QED
    BY <1>2, <1>3, <1>6, <1>7, <1>8, ProducerFrame DEF IInv

\* The release store.
LEMMA ReleaseStep ==
    ASSUME IInv, NEW c \in Consumers, Release(c)
    PROVE  IInv'
  <1> DEFINE n == take[c].count
             old == consumers[c]
             new == Add(old, n)
  <1>1. /\ take[c] \in TakeType /\ chandle[c] \in HandleType
        /\ n \in 0..Capacity /\ old \in SequenceType
        /\ take[c].first = old /\ n <= Sub(pubAcquired[c], old)
        /\ n \in SequenceType
    BY DEF IInv, TypeOK, TakeType, ConsumerInv, Release, SequenceType
  <1>2. new \in SequenceType /\ Sub(new, old) = n
    BY <1>1, ArithmeticType, SubAddSelf
  <1>3. /\ consumers' = [consumers EXCEPT ![c] = new]
        /\ ackView' = [ackView EXCEPT ![c] = @ \cup {new}]
        /\ take' = [take EXCEPT ![c] = NotReading]
        /\ chandle' = IF take[c].by = "handle"
                        THEN [chandle EXCEPT ![c].next = new] ELSE chandle
        /\ UNCHANGED <<events, producerVars, published, pubView, pubAcquired,
                       ackAcquired>>
    BY <1>1 DEF Release, pubVars
  <1>4. /\ consumers'[c] = new
        /\ \A d \in Consumers \ {c} : consumers'[d] = consumers[d]
    BY <1>3 DEF IInv, TypeOK
  <1>5. ASSUME NEW x \in SequenceType, n <= Sub(x, old)
        PROVE  Sub(x, new) = Sub(x, old) - n
    BY <1>1, <1>5, SubAddRight
  <1>6. n <= Sub(published, old) /\ Sub(published, new) = Sub(published, old) - n
    <2>1. n <= Sub(published, old)
      BY <1>1, Window
    <2>2. QED
      BY <2>1, <1>5, Window
  <1> HIDE DEF new, old, n
  <1>7. TypeOK'
    <2>1. NotReading \in TakeType
      BY DEF NotReading, TakeType, SequenceType
    <2>2. chandle' \in [Consumers -> HandleType]
      BY <1>1, <1>2, <1>3 DEF IInv, TypeOK, HandleType
    <2>3. consumers' \in [Consumers -> SequenceType]
      BY <1>2, <1>3 DEF IInv, TypeOK
    <2>4. ackView' \in [Consumers -> SUBSET SequenceType]
      BY <1>2, <1>3 DEF IInv, TypeOK
    <2>5. take' \in [Consumers -> TakeType]
      BY <1>3, <2>1 DEF IInv, TypeOK
    <2>6. QED
      BY <1>3, <2>2, <2>3, <2>4, <2>5 DEF IInv, TypeOK, producerVars
  <1>8. AckOrder'
    <2>1. SUFFICES ASSUME NEW d \in Consumers
                   PROVE  /\ Sub(published, ackAcquired[d]) <= Capacity
                          /\ Sub(published, consumers'[d])
                                <= Sub(published, ackAcquired[d])
                          /\ \A v \in ackView'[d] :
                               /\ Sub(published, consumers'[d])
                                    <= Sub(published, v)
                               /\ Sub(published, v)
                                    <= Sub(published, ackAcquired[d])
      BY <1>3 DEF AckOrder
    <2>2. CASE d # c
      <3>1. ackView'[d] = ackView[d] /\ consumers'[d] = consumers[d]
        BY <1>3, <1>4, <2>2 DEF IInv, TypeOK
      <3>2. QED
        BY <3>1 DEF IInv, AckOrder
    <2>3. CASE d = c
      <3>1. ackView'[c] = ackView[c] \cup {new} /\ consumers'[c] = new
        BY <1>3, <1>4 DEF IInv, TypeOK
      <3>2. /\ Sub(published, new) \in 0..Capacity
            /\ Sub(published, old) \in 0..Capacity
            /\ Sub(published, new) <= Sub(published, old)
            /\ Sub(published, old) <= Sub(published, ackAcquired[c])
            /\ Sub(published, ackAcquired[c]) \in 0..Capacity
        BY <1>1, <1>6, Window DEF old
      <3>3. ASSUME NEW v \in ackView[c]
            PROVE  /\ Sub(published, old) <= Sub(published, v)
                   /\ Sub(published, v) <= Sub(published, ackAcquired[c])
                   /\ Sub(published, v) \in Int
        <4>1. /\ Sub(published, old) <= Sub(published, v)
              /\ Sub(published, v) <= Sub(published, ackAcquired[c])
          BY DEF IInv, AckOrder, old
        <4>2. v \in SequenceType
          BY DEF IInv, TypeOK
        <4>3. Sub(published, v) \in SequenceType
          BY <4>2, Window, ArithmeticType
        <4>4. QED
          BY <4>1, <4>3 DEF SequenceType
      <3>4. QED
        BY <2>3, <3>1, <3>2, <3>3
    <2>4. QED
      BY <2>2, <2>3
  <1>9. PubOrder'
    <2>1. SUFFICES ASSUME NEW d \in Consumers
                   PROVE  /\ Sub(pubAcquired[d], consumers'[d])
                                <= Sub(published, consumers'[d])
                          /\ \A v \in pubView[d] :
                               /\ Sub(pubAcquired[d], consumers'[d])
                                    <= Sub(v, consumers'[d])
                               /\ Sub(v, consumers'[d])
                                    <= Sub(published, consumers'[d])
      BY <1>3 DEF PubOrder
    <2>2. CASE d # c
      BY <1>4, <2>2 DEF IInv, PubOrder
    <2>3. CASE d = c
      <3>1. /\ Sub(pubAcquired[c], new) = Sub(pubAcquired[c], old) - n
            /\ Sub(pubAcquired[c], old) \in Int /\ n \in Int
            /\ Sub(published, old) \in Int
            /\ Sub(pubAcquired[c], old) <= Sub(published, old)
        <4>1. /\ Sub(pubAcquired[c], old) \in Int /\ n \in Int
              /\ Sub(published, old) \in Int
              /\ Sub(pubAcquired[c], old) <= Sub(published, old)
              /\ pubAcquired[c] \in SequenceType
          BY <1>1, Window DEF old
        <4>2. QED
          BY <1>1, <1>5, <4>1
      <3>2. ASSUME NEW v \in pubView[c]
            PROVE  /\ Sub(v, new) = Sub(v, old) - n
                   /\ Sub(v, old) \in Int
                   /\ Sub(pubAcquired[c], old) <= Sub(v, old)
                   /\ Sub(v, old) <= Sub(published, old)
        <4>1. /\ Sub(pubAcquired[c], old) <= Sub(v, old)
              /\ Sub(v, old) <= Sub(published, old)
          BY DEF IInv, PubOrder, old
        <4>2. v \in SequenceType
          BY DEF IInv, TypeOK
        <4>3. Sub(v, old) \in Int
          BY <4>2, <1>1, ArithmeticType DEF SequenceType
        <4>4. n <= Sub(v, old)
          BY <4>1, <4>3, <3>1, <1>1
        <4>5. QED
          BY <4>1, <4>2, <4>3, <4>4, <1>5
      <3>3. QED
        BY <1>4, <1>6, <2>3, <3>1, <3>2
    <2>4. QED
      BY <2>2, <2>3
  <1>10. ConsumerInv'
    <2>1. SUFFICES ASSUME NEW d \in Consumers
                   PROVE  /\ chandle'[d].live =>
                               /\ chandle'[d].next = consumers'[d]
                               /\ Sub(chandle'[d].cached, consumers'[d])
                                    <= Sub(pubAcquired[d], consumers'[d])
                          /\ take'[d].reading =>
                               /\ take'[d].first = consumers'[d]
                               /\ take'[d].index <= take'[d].count
                               /\ take'[d].count
                                    <= Sub(pubAcquired[d], consumers'[d])
                               /\ (take'[d].by = "handle") <=> chandle'[d].live
                               /\ take'[d].by = "handle" =>
                                    take'[d].count
                                      <= Sub(chandle'[d].cached, consumers'[d])
      BY <1>3 DEF ConsumerInv
    <2>2. CASE d # c
      <3>1. /\ chandle'[d] = chandle[d] /\ take'[d] = take[d]
            /\ consumers'[d] = consumers[d]
        BY <1>3, <1>4, <2>2 DEF IInv, TypeOK
      <3>2. QED
        BY <3>1 DEF IInv, ConsumerInv
    <2>3. CASE d = c
      <3>1. take'[c].reading = FALSE
        BY <1>3 DEF IInv, TypeOK, NotReading
      <3>2. CASE take[c].by = "handle"
        <4>1. /\ chandle'[c].next = new /\ chandle'[c].cached = chandle[c].cached
          BY <1>3, <1>1, <3>2 DEF IInv, TypeOK, HandleType
        <4>2. /\ chandle[c].live /\ n <= Sub(chandle[c].cached, old)
              /\ Sub(chandle[c].cached, old) <= Sub(pubAcquired[c], old)
          BY <3>2 DEF IInv, ConsumerInv, Release, n, old
        <4>3. chandle[c].cached \in SequenceType
          BY <1>1 DEF HandleType
        <4>4. /\ Sub(chandle[c].cached, new) = Sub(chandle[c].cached, old) - n
              /\ Sub(pubAcquired[c], new) = Sub(pubAcquired[c], old) - n
          BY <1>1, <1>5, <4>2, <4>3, Window DEF old
        <4>5. /\ Sub(chandle[c].cached, old) \in Int
              /\ Sub(pubAcquired[c], old) \in Int /\ n \in Int
          <5>1. Sub(chandle[c].cached, old) \in SequenceType
            BY <1>1, <4>3, ArithmeticType
          <5>2. QED
            BY <1>1, <5>1, Window DEF SequenceType, old
        <4>6. QED
          BY <1>4, <2>3, <3>1, <4>1, <4>2, <4>4, <4>5
      <3>3. CASE take[c].by # "handle"
        <4>1. ~chandle[c].live /\ chandle' = chandle
          BY <1>3, <3>3 DEF IInv, ConsumerInv, Release
        <4>2. QED
          BY <2>3, <3>1, <4>1
      <3>4. QED
        BY <3>2, <3>3
    <2>4. QED
      BY <2>2, <2>3
  <1>11. RingInv'
    <2>1. ASSUME NEW q \in SequenceType, Sub(q, new) < Sub(published, new)
          PROVE  Sub(q, old) < Sub(published, old)
      <3>1. Sub(q, new) \in SequenceType /\ Sub(q, old) \in SequenceType
        BY <1>1, <1>2, ArithmeticType
      <3>2. Sub(q, new) + Sub(new, old) < Wrap
        BY <1>1, <1>2, <1>6, <2>1, <3>1, Window DEF SequenceType, old
      <3>3. Sub(q, old) = Sub(q, new) + Sub(new, old)
        BY <1>1, <1>2, <3>2, SubCompose
      <3>4. QED
        BY <1>1, <1>2, <1>6, <2>1, <3>1, <3>3, Window DEF SequenceType, old
    <2>2. QED
      BY <1>3, <1>4, <2>1 DEF IInv, RingInv, producerVars, old
  <1>12. OneOwner' /\ CapacityCacheSound' /\ CallInv'
         /\ DebugStateTracksOwnership'
    BY <1>3 DEF IInv, OneOwner, CapacityCacheSound, CallInv, Owns,
                DebugStateTracksOwnership, producerVars
  <1>13. QED
    BY <1>7, <1>8, <1>9, <1>10, <1>11, <1>12 DEF IInv

------------------------------------------------------------------------------
(* Propagation of stores.                                                  *)

\* A consumer may no longer read older values of published_.
LEMMA PublishedPropagatesStep ==
    ASSUME IInv, NEW c \in Consumers, PublishedPropagates(c)
    PROVE  IInv'
  <1>1. TypeOK'
    BY DEF IInv, TypeOK, PublishedPropagates, producerVars, consumerVars, ackVars
  <1>2. PubOrder'
    <2>1. \A d \in Consumers : pubView'[d] = pubView[d] \/ pubView'[d] = {published}
      BY DEF IInv, TypeOK, PublishedPropagates
    <2>2. \A d \in Consumers :
             Sub(published, consumers[d]) <= Sub(published, consumers[d])
      BY Window
    <2>3. QED
      BY <2>1, <2>2 DEF IInv, PubOrder, PublishedPropagates, ackVars
  <1>3. AckOrder' /\ ConsumerInv'
    BY DEF IInv, AckOrder, ConsumerInv, PublishedPropagates, consumerVars, ackVars
  <1>4. QED
    BY <1>1, <1>2, <1>3, ProducerFrame DEF IInv, PublishedPropagates, ackVars

\* The producer may no longer read older values of consumers_[c].
LEMMA ReleasePropagatesStep ==
    ASSUME IInv, NEW c \in Consumers, ReleasePropagates(c)
    PROVE  IInv'
  <1>1. TypeOK'
    BY DEF IInv, TypeOK, ReleasePropagates, producerVars, consumerVars, pubVars
  <1>2. AckOrder'
    <2>1. \A d \in Consumers :
             ackView'[d] = ackView[d] \/ ackView'[d] = {consumers[d]}
      BY DEF IInv, TypeOK, ReleasePropagates
    <2>2. \A d \in Consumers :
             /\ Sub(published, consumers[d]) <= Sub(published, consumers[d])
             /\ Sub(published, consumers[d]) <= Sub(published, ackAcquired[d])
      BY Window
    <2>3. QED
      BY <2>1, <2>2 DEF IInv, AckOrder, ReleasePropagates, pubVars
  <1>3. PubOrder' /\ ConsumerInv'
    BY DEF IInv, PubOrder, ConsumerInv, ReleasePropagates, consumerVars, pubVars
  <1>4. QED
    BY <1>1, <1>2, <1>3, ProducerFrame DEF IInv, ReleasePropagates, pubVars

------------------------------------------------------------------------------
(* Producer steps.                                                         *)

\* A producer step that stores to neither published_ nor consumers_ leaves the
\* consumers' part of the invariant alone.
LEMMA ConsumerFrame ==
    ASSUME IInv, UNCHANGED <<consumerVars, pubVars, consumers>>
    PROVE  PubOrder' /\ ConsumerInv'
  BY DEF IInv, PubOrder, ConsumerInv, consumerVars, pubVars

\* Two paths never own the producer state together.
LEMMA OwnerUnique ==
    ASSUME OneOwner, NEW p \in Paths, NEW q \in Paths, Owns(p), Owns(q)
    PROVE  p = q
  BY DEF OneOwner, Owns, Paths

\* The path of the call in progress publishes at the end of the stream.
LEMMA CallPath ==
    ASSUME IInv, call.pc # "idle"
    PROVE  /\ call.path \in Paths /\ Owns(call.path)
           /\ cursor[call.path].next = published
           /\ cursor[call.path].available \in 0..Capacity
           /\ cursor[call.path].blocker \in Consumers
           /\ call.count \in 1..Capacity
           /\ \A p \in Paths : Owns(p) => p = call.path
  <1>1. /\ call.path \in Paths /\ Owns(call.path) /\ call.count \in 1..Capacity
    BY DEF IInv, TypeOK, CallType, CallInv
  <1>2. cursor[call.path] \in CursorType
    BY <1>1 DEF IInv, TypeOK
  <1>3. cursor[call.path].next = published
    BY <1>1 DEF IInv, CapacityCacheSound
  <1>4. \A p \in Paths : Owns(p) => p = call.path
    BY <1>1, OwnerUnique DEF IInv
  <1>5. QED
    BY <1>1, <1>2, <1>3, <1>4 DEF CursorType

\* try_publish_batch up to the capacity test.
LEMMA TryPublishBatchStep ==
    ASSUME IInv, NEW p \in Paths, NEW count \in Nat, TryPublishBatch(p, count)
    PROVE  IInv'
  <1>1. /\ Owns(p) /\ count \in 1..Capacity /\ call.pc = "idle"
        /\ UNCHANGED <<events, cursor, object, consumerVars, pubVars, ackVars>>
    BY DEF TryPublishBatch, Publishable
  <1>2. /\ call'.path = p /\ call'.count = count /\ call'.index = 0
        /\ call' \in CallType
        /\ \/ call'.pc = "blocker" /\ producer_state' = producer_state
           \/ /\ call'.pc = "write" /\ producer_state' = Publishing(p)
              /\ count <= cursor[p].available
    <2>0. 0 \in Consumers /\ cursor[p].available \in Nat
      BY DEF Consumers, IInv, TypeOK, CursorType
    <2>1. CASE count > cursor[p].available
      BY <1>1, <2>0, <2>1 DEF TryPublishBatch, Idle, Calling, CallType
    <2>2. CASE ~(count > cursor[p].available)
      BY <1>1, <2>0, <2>2 DEF TryPublishBatch, Idle, Calling, CallType
    <2>3. QED
      BY <2>1, <2>2
  <1>3. TypeOK'
    <2>1. producer_state' \in {"idle", "handle", "handle_publishing",
                               "direct_publishing"}
      BY <1>2 DEF IInv, TypeOK, Publishing
    <2>2. QED
      BY <1>1, <1>2, <2>1 DEF IInv, TypeOK, consumerVars, pubVars, ackVars
  <1>4. OneOwner' /\ CapacityCacheSound' /\ AckOrder'
    BY <1>1 DEF IInv, OneOwner, CapacityCacheSound, AckOrder, Owns, pubVars,
                ackVars
  <1>5. PubOrder' /\ ConsumerInv'
    BY <1>1, ConsumerFrame DEF ackVars
  <1>6. CallInv'
    BY <1>1, <1>2 DEF IInv, CallInv, Owns, pubVars, ackVars
  <1>7. RingInv'
    <2>1. \A q \in SequenceType : ~(Sub(q, published) < 0)
      BY ArithmeticType DEF IInv, TypeOK, SequenceType
    <2>2. QED
      BY <1>1, <1>2, <2>1 DEF IInv, RingInv, pubVars, ackVars
  <1>8. DebugStateTracksOwnership'
    BY <1>1, <1>2 DEF IInv, DebugStateTracksOwnership, Owns, Publishing
  <1>9. QED
    BY <1>3, <1>4, <1>5, <1>6, <1>7, <1>8 DEF IInv

\* Acquiring consumers_[c] keeps the producer's knowledge in order.
LEMMA AcquireConsumerKeeps ==
    ASSUME IInv, NEW c \in Consumers, NEW v, AcquireConsumer(c, v),
           published' = published
    PROVE  /\ v \in SequenceType
           /\ ackView' \in [Consumers -> SUBSET SequenceType]
           /\ ackAcquired' \in [Consumers -> SequenceType]
           /\ AckOrder'
           /\ Sub(published, v) \in 0..Capacity
           /\ Sub(published, v) <= Sub(published, ackAcquired[c])
           /\ ackAcquired'[c] = v
           /\ \A d \in Consumers \ {c} : ackAcquired'[d] = ackAcquired[d]
           /\ \A d \in Consumers :
                Sub(published, ackAcquired'[d]) <= Sub(published, ackAcquired[d])
           /\ consumers' = consumers
  <1>1. /\ ackView \in [Consumers -> SUBSET SequenceType]
        /\ ackAcquired \in [Consumers -> SequenceType]
        /\ v \in ackView[c] /\ v \in SequenceType
    BY DEF IInv, TypeOK, AcquireConsumer
  <1>2. /\ ackView' \in [Consumers -> SUBSET SequenceType]
        /\ ackAcquired' \in [Consumers -> SequenceType]
        /\ ackAcquired'[c] = v
        /\ \A d \in Consumers \ {c} : /\ ackAcquired'[d] = ackAcquired[d]
                                      /\ ackView'[d] = ackView[d]
        /\ ackView'[c] = NotOlder(ackView[c], consumers[c], v)
        /\ consumers' = consumers
    BY <1>1 DEF AcquireConsumer, NotOlder
  <1>3. /\ Sub(published, v) \in 0..Capacity
        /\ Sub(published, consumers[c]) <= Sub(published, v)
        /\ Sub(published, v) <= Sub(published, ackAcquired[c])
    <2>1. /\ Sub(published, consumers[c]) <= Sub(published, v)
          /\ Sub(published, v) <= Sub(published, ackAcquired[c])
      BY <1>1 DEF IInv, AckOrder
    <2>2. Sub(published, v) \in SequenceType
      BY <1>1, Window, ArithmeticType
    <2>3. QED
      BY <2>1, <2>2, Window DEF SequenceType
  <1>4. ASSUME NEW u \in ackView'[c]
        PROVE  /\ Sub(published, consumers[c]) <= Sub(published, u)
               /\ Sub(published, u) <= Sub(published, v)
    <2>1. u \in ackView[c] /\ Sub(consumers[c], u) <= Sub(consumers[c], v)
      BY <1>2 DEF NotOlder
    <2>2. /\ u \in SequenceType
          /\ Sub(published, consumers[c]) <= Sub(published, u)
      BY <1>1, <2>1 DEF IInv, AckOrder
    <2>3. Sub(consumers[c], u) = Sub(published, u) - Sub(published, consumers[c])
      BY <2>2, Window, SubBetweenBack
    <2>4. Sub(consumers[c], v) = Sub(published, v) - Sub(published, consumers[c])
      BY <1>1, <1>3, Window, SubBetweenBack
    <2>5. Sub(published, u) \in SequenceType
      BY <2>2, Window, ArithmeticType
    <2>6. QED
      BY <1>3, <2>1, <2>2, <2>3, <2>4, <2>5, Window DEF SequenceType
  <1>5. \A d \in Consumers :
           Sub(published, ackAcquired'[d]) <= Sub(published, ackAcquired[d])
    BY <1>2, <1>3, Window
  <1>6. AckOrder'
    <2>1. \A d \in Consumers : Sub(published, ackAcquired'[d]) <= Capacity
      BY <1>2, <1>3, Window
    <2>2. QED
      BY <1>2, <1>3, <1>4, <2>1 DEF IInv, AckOrder
  <1>7. QED
    BY <1>1, <1>2, <1>3, <1>5, <1>6

\* Knowing of more releases never makes the cached capacity unsound.
LEMMA CacheStaysSound ==
    ASSUME IInv, NEW c \in Consumers, NEW v, AcquireConsumer(c, v),
           published' = published, object' = object,
           \A p \in Paths : /\ cursor'[p].next = cursor[p].next
                            /\ cursor'[p].available = cursor[p].available
    PROVE  CapacityCacheSound'
  <1>1. SUFFICES ASSUME NEW p \in Paths, Owns(p), NEW d \in Consumers
                 PROVE  /\ cursor[p].next = published
                        /\ Sub(cursor[p].next, ackAcquired'[d])
                             + cursor[p].available <= Capacity
    BY DEF CapacityCacheSound, Owns
  <1>2. /\ cursor[p].next = published
        /\ Sub(published, ackAcquired[d]) + cursor[p].available <= Capacity
        /\ cursor[p].available \in 0..Capacity
    BY <1>1 DEF IInv, CapacityCacheSound, TypeOK, CursorType
  <1>3. Sub(published, ackAcquired'[d]) <= Sub(published, ackAcquired[d])
    BY AcquireConsumerKeeps
  <1>4. Sub(published, ackAcquired'[d]) \in SequenceType
    BY AcquireConsumerKeeps, Window, ArithmeticType
  <1>5. QED
    BY <1>2, <1>3, <1>4, Window DEF SequenceType

\* consumer_position and consumer_sequence, read by the producer between calls.
LEMMA ReadPositionStep ==
    ASSUME IInv, call.pc = "idle", NEW c \in Consumers, NEW v,
           AcquireConsumer(c, v),
           UNCHANGED <<events, producerVars, consumerVars, pubVars>>
    PROVE  IInv'
  <1>1. /\ UNCHANGED <<published, consumers, cursor, object, producer_state>>
        /\ UNCHANGED <<events, call, chandle, take, pubView, pubAcquired>>
    BY DEF AcquireConsumer, producerVars, consumerVars, pubVars
  <1>2. /\ ackView' \in [Consumers -> SUBSET SequenceType]
        /\ ackAcquired' \in [Consumers -> SequenceType]
        /\ AckOrder'
    BY <1>1, AcquireConsumerKeeps
  <1>3. TypeOK'
    BY <1>1, <1>2 DEF IInv, TypeOK
  <1>4. CapacityCacheSound'
    BY <1>1, CacheStaysSound
  <1>5. PubOrder' /\ ConsumerInv'
    BY <1>1, ConsumerFrame
  <1>6. OneOwner' /\ CallInv' /\ RingInv' /\ DebugStateTracksOwnership'
    BY <1>1 DEF IInv, OneOwner, CallInv, RingInv, DebugStateTracksOwnership, Owns
  <1> QED
    BY <1>2, <1>3, <1>4, <1>5, <1>6 DEF IInv

\* refresh_available_capacity: the consumer that blocked the previous attempt.
LEMMA CheckBlockerStep ==
    ASSUME IInv, CheckBlocker
    PROVE  IInv'
  <1> DEFINE b == cursor[call.path].blocker
  <1>1. call.pc = "blocker"
    BY DEF CheckBlocker
  <1>2. /\ call.path \in Paths /\ Owns(call.path)
        /\ cursor[call.path].next = published /\ b \in Consumers
        /\ call.count \in 1..Capacity
        /\ call \in CallType
    BY <1>1, CallPath DEF IInv, TypeOK
  <1>3. PICK v \in ackView[b] :
           /\ AcquireConsumer(b, v)
           /\ IF Lag(v) > MaximumLag
                THEN call' = Idle
                ELSE call' = [call EXCEPT !.pc = "scan", !.lag = Lag(v),
                                          !.slowest = b,
                                          !.index = SkipBlocker(0)]
    BY DEF CheckBlocker
  <1>4. UNCHANGED <<events, cursor, object, producer_state, consumerVars,
                    pubVars, published>>
    BY DEF CheckBlocker, pubVars
  <1>5. /\ ackView' \in [Consumers -> SUBSET SequenceType]
        /\ ackAcquired' \in [Consumers -> SequenceType]
        /\ AckOrder'
        /\ Sub(published, v) \in 0..Capacity
        /\ ackAcquired'[b] = v
        /\ consumers' = consumers
    BY <1>2, <1>3, <1>4, AcquireConsumerKeeps
  <1>6. Lag(v) = Sub(published, v) /\ MaximumLag = Capacity - call.count
    BY <1>2 DEF Lag, MaximumLag
  <1>7. /\ SkipBlocker(0) \in 0..ConsumerCount
        /\ \A c \in Consumers : c < SkipBlocker(0) => c = b
    BY <1>2 DEF SkipBlocker, Consumers
  <1>8. CapacityCacheSound'
    BY <1>2, <1>3, <1>4, CacheStaysSound
  <1>9. PubOrder' /\ ConsumerInv'
    BY <1>4, <1>5, ConsumerFrame
  <1>10. OneOwner'
    BY <1>4 DEF IInv, OneOwner
  <1>11. CASE Lag(v) > MaximumLag
    <2>1. call' = Idle
      BY <1>3, <1>11
    <2>2. TypeOK'
      <3>1. Idle \in CallType
        BY DEF Idle, Calling, CallType, Paths, Consumers
      <3>2. QED
        BY <1>4, <1>5, <2>1, <3>1 DEF IInv, TypeOK, consumerVars, pubVars
    <2>3. CallInv' /\ RingInv' /\ DebugStateTracksOwnership'
      BY <1>1, <1>4, <1>5, <2>1 DEF IInv, CallInv, RingInv, Owns, Idle, Calling,
                                    DebugStateTracksOwnership
    <2>4. QED
      BY <1>5, <1>8, <1>9, <1>10, <2>2, <2>3 DEF IInv
  <1>12. CASE ~(Lag(v) > MaximumLag)
    <2>1. /\ call' \in CallType
          /\ call'.pc = "scan" /\ call'.path = call.path
          /\ call'.count = call.count /\ call'.index = SkipBlocker(0)
          /\ call'.lag = Sub(published, v)
      <3>1. call' = [call EXCEPT !.pc = "scan", !.lag = Sub(published, v),
                                 !.slowest = b, !.index = SkipBlocker(0)]
        BY <1>3, <1>6, <1>12
      <3>2. SkipBlocker(0) \in 0..(Capacity + ConsumerCount)
        BY <1>7
      <3>3. QED
        BY <1>2, <1>5, <3>1, <3>2 DEF CallType
    <2>2. TypeOK'
      BY <1>4, <1>5, <2>1 DEF IInv, TypeOK, consumerVars, pubVars
    <2>3. CallInv'
      <3>1. Sub(published, v) <= Capacity - call.count
        BY <1>2, <1>5, <1>6, <1>12
      <3>2. \A c \in Consumers :
               c < SkipBlocker(0) \/ c = b =>
                 Sub(published, ackAcquired'[c]) <= Sub(published, v)
        BY <1>5, <1>7
      <3>3. QED
        BY <1>2, <1>4, <1>7, <2>1, <3>1, <3>2 DEF CallInv, Owns
    <2>4. RingInv' /\ DebugStateTracksOwnership'
      BY <1>1, <1>4, <1>5, <2>1 DEF IInv, RingInv, Owns,
                                    DebugStateTracksOwnership
    <2>5. QED
      BY <1>5, <1>8, <1>9, <1>10, <2>2, <2>3, <2>4 DEF IInv
  <1>13. QED
    BY <1>11, <1>12

\* refresh_available_capacity: one more consumer.
LEMMA ScanConsumerStep ==
    ASSUME IInv, ScanConsumer
    PROVE  IInv'
  <1> DEFINE p == call.path
             b == cursor[p].blocker
             i == call.index
  <1>1. call.pc = "scan" /\ i < ConsumerCount
    BY DEF ScanConsumer
  <1>2. /\ p \in Paths /\ Owns(p) /\ cursor[p].next = published
        /\ b \in Consumers /\ call.count \in 1..Capacity /\ call \in CallType
        /\ cursor[p] \in CursorType
    BY <1>1, CallPath DEF IInv, TypeOK
  <1>3. i \in Consumers
    BY <1>1, <1>2 DEF CallType, Consumers
  <1>4. PICK v \in ackView[i] :
           /\ AcquireConsumer(i, v)
           /\ IF Lag(v) > MaximumLag
                THEN /\ cursor' = [cursor EXCEPT ![p].blocker = i]
                     /\ call' = Idle
                ELSE /\ UNCHANGED cursor
                     /\ call' = [call EXCEPT
                          !.lag = IF Lag(v) > @ THEN Lag(v) ELSE @,
                          !.slowest = IF Lag(v) > call.lag THEN i ELSE @,
                          !.index = SkipBlocker(@ + 1)]
    BY DEF ScanConsumer
  <1>5. UNCHANGED <<events, object, producer_state, consumerVars, pubVars,
                    published>>
    BY DEF ScanConsumer, pubVars
  <1>6. /\ ackView' \in [Consumers -> SUBSET SequenceType]
        /\ ackAcquired' \in [Consumers -> SequenceType]
        /\ AckOrder'
        /\ Sub(published, v) \in 0..Capacity
        /\ ackAcquired'[i] = v
        /\ \A d \in Consumers \ {i} : ackAcquired'[d] = ackAcquired[d]
        /\ consumers' = consumers
    BY <1>3, <1>4, <1>5, AcquireConsumerKeeps
  <1>7. Lag(v) = Sub(published, v) /\ MaximumLag = Capacity - call.count
    BY <1>2 DEF Lag, MaximumLag
  <1>8. PubOrder' /\ ConsumerInv'
    BY <1>5, <1>6, ConsumerFrame
  <1>9. OneOwner'
    BY <1>5 DEF IInv, OneOwner
  <1>10. CASE Lag(v) > MaximumLag
    <2>1. call' = Idle /\ cursor' = [cursor EXCEPT ![p].blocker = i]
      BY <1>4, <1>10
    <2>2. /\ cursor' \in [Paths -> CursorType]
          /\ \A r \in Paths : /\ cursor'[r].next = cursor[r].next
                              /\ cursor'[r].available = cursor[r].available
      BY <1>2, <1>3, <2>1 DEF IInv, TypeOK, CursorType
    <2>3. TypeOK'
      <3>1. Idle \in CallType
        BY DEF Idle, Calling, CallType, Paths, Consumers
      <3>2. QED
        BY <1>5, <1>6, <2>1, <2>2, <3>1 DEF IInv, TypeOK, consumerVars, pubVars
    <2>4. CapacityCacheSound'
      BY <1>3, <1>4, <1>5, <2>2, CacheStaysSound
    <2>5. CallInv' /\ RingInv' /\ DebugStateTracksOwnership'
      BY <1>1, <1>5, <1>6, <2>1 DEF IInv, CallInv, RingInv, Owns, Idle, Calling,
                                    DebugStateTracksOwnership
    <2>6. QED
      BY <1>6, <1>8, <1>9, <2>3, <2>4, <2>5 DEF IInv
  <1>11. CASE ~(Lag(v) > MaximumLag)
    <2> DEFINE g == IF Sub(published, v) > call.lag THEN Sub(published, v)
                                                    ELSE call.lag
               k == SkipBlocker(i + 1)
    <2>1. /\ call.lag \in 0..Capacity /\ call.slowest \in Consumers
          /\ call.lag <= Capacity - call.count
          /\ \A c \in Consumers :
               c < i \/ c = b => Sub(published, ackAcquired[c]) <= call.lag
      BY <1>1, <1>2 DEF CallType, IInv, CallInv
    <2>2. /\ g \in 0..Capacity /\ g <= Capacity - call.count
          /\ call.lag <= g /\ Sub(published, v) <= g
      BY <1>2, <1>6, <1>7, <1>11, <2>1
    <2>3. /\ k \in 0..ConsumerCount
          /\ \A c \in Consumers : c < k => c < i \/ c = i \/ c = b
      BY <1>1, <1>2, <1>3 DEF SkipBlocker, Consumers
    <2> HIDE DEF g, k
    <2>4. /\ call' \in CallType
          /\ call'.pc = "scan" /\ call'.path = call.path
          /\ call'.count = call.count /\ call'.index = k /\ call'.lag = g
          /\ cursor' = cursor
      <3>1. /\ cursor' = cursor
            /\ call' = [call EXCEPT
                 !.lag = g,
                 !.slowest = IF Sub(published, v) > call.lag THEN i ELSE @,
                 !.index = k]
        BY <1>4, <1>7, <1>11 DEF g, k
      <3>2. k \in 0..(Capacity + ConsumerCount)
        BY <2>3
      <3>3. QED
        BY <1>1, <1>2, <1>3, <2>1, <2>2, <3>1, <3>2 DEF CallType
    <2>5. TypeOK'
      BY <1>5, <1>6, <2>4 DEF IInv, TypeOK, consumerVars, pubVars
    <2>6. CapacityCacheSound'
      BY <1>3, <1>4, <1>5, <2>4, CacheStaysSound
    <2>7. CallInv'
      <3>1. ASSUME NEW c \in Consumers, c < k \/ c = b
            PROVE  Sub(published, ackAcquired'[c]) <= g
        <4>1. CASE c = i
          BY <1>6, <2>2, <4>1
        <4>2. CASE c # i
          <5>1. /\ ackAcquired'[c] = ackAcquired[c]
                /\ Sub(published, ackAcquired[c]) <= call.lag
            BY <1>6, <2>1, <2>3, <3>1, <4>2
          <5>2. Sub(published, ackAcquired[c]) \in 0..Capacity
            BY Window
          <5>3. QED
            BY <2>1, <2>2, <5>1, <5>2
        <4>3. QED
          BY <4>1, <4>2
      <3>2. QED
        BY <1>2, <1>5, <2>2, <2>3, <2>4, <3>1 DEF CallInv, Owns
    <2>8. RingInv' /\ DebugStateTracksOwnership'
      BY <1>1, <1>5, <1>6, <2>4 DEF IInv, RingInv, Owns,
                                    DebugStateTracksOwnership
    <2>9. QED
      BY <1>6, <1>8, <1>9, <2>5, <2>6, <2>7, <2>8 DEF IInv
  <1>12. QED
    BY <1>10, <1>11

\* refresh_available_capacity succeeds.
LEMMA FinishRefreshStep ==
    ASSUME IInv, FinishRefresh
    PROVE  IInv'
  <1> DEFINE p == call.path
  <1>1. call.pc = "scan" /\ call.index = ConsumerCount
    BY DEF FinishRefresh
  <1>2. /\ p \in Paths /\ Owns(p) /\ cursor[p].next = published
        /\ call.count \in 1..Capacity /\ call \in CallType
        /\ cursor[p] \in CursorType
        /\ \A r \in Paths : Owns(r) => r = p
    BY <1>1, CallPath DEF IInv, TypeOK
  <1>3. /\ call.lag \in 0..Capacity /\ call.slowest \in Consumers
        /\ call.lag <= Capacity - call.count
        /\ \A c \in Consumers : Sub(published, ackAcquired[c]) <= call.lag
    BY <1>1, <1>2 DEF CallType, IInv, CallInv, Consumers
  <1>4. /\ cursor' = [cursor EXCEPT ![p] =
                        [next |-> @.next, available |-> Capacity - call.lag,
                         blocker |-> call.slowest]]
        /\ call' = [call EXCEPT !.pc = "write", !.index = 0]
        /\ producer_state' = Publishing(p)
        /\ UNCHANGED <<events, object, consumerVars, pubVars, ackVars>>
    BY DEF FinishRefresh
  <1>5. /\ cursor' \in [Paths -> CursorType]
        /\ cursor'[p].next = published
        /\ cursor'[p].available = Capacity - call.lag
    <2> DEFINE r == [next |-> cursor[p].next, available |-> Capacity - call.lag,
                     blocker |-> call.slowest]
    <2>1. cursor' = [cursor EXCEPT ![p] = r]
      BY <1>4
    <2>2. Capacity - call.lag \in 0..Capacity
      BY <1>3
    <2>3. r \in CursorType
      BY <1>2, <1>3, <2>2 DEF CursorType
    <2> HIDE DEF r
    <2>4. cursor' \in [Paths -> CursorType] /\ cursor'[p] = r
      BY <1>2, <2>1, <2>3 DEF IInv, TypeOK
    <2>5. QED
      BY <1>2, <2>4 DEF r
  <1>6. /\ call' \in CallType /\ call'.pc = "write" /\ call'.index = 0
        /\ call'.path = p /\ call'.count = call.count
    <2>1. 0 \in 0..(Capacity + ConsumerCount)
      OBVIOUS
    <2>2. QED
      BY <1>2, <1>4, <2>1 DEF CallType
  <1>7. TypeOK'
    <2>1. producer_state' \in {"idle", "handle", "handle_publishing",
                               "direct_publishing"}
      BY <1>4 DEF Publishing
    <2>2. QED
      BY <1>4, <1>5, <1>6, <2>1 DEF IInv, TypeOK, consumerVars, pubVars, ackVars
  <1>8. OneOwner' /\ AckOrder'
    BY <1>4 DEF IInv, OneOwner, AckOrder, pubVars, ackVars
  <1>9. CapacityCacheSound'
    <2>1. \A c \in Consumers :
             Sub(published, ackAcquired[c]) + (Capacity - call.lag) <= Capacity
      BY <1>3, Window
    <2>2. QED
      BY <1>2, <1>4, <1>5, <2>1 DEF CapacityCacheSound, Owns, pubVars, ackVars
  <1>10. PubOrder' /\ ConsumerInv'
    BY <1>4, ConsumerFrame DEF ackVars
  <1>11. CallInv'
    BY <1>2, <1>3, <1>4, <1>5, <1>6 DEF CallInv, Owns
  <1>12. RingInv'
    <2>1. \A q \in SequenceType : ~(Sub(q, published) < 0)
      BY ArithmeticType DEF IInv, TypeOK, SequenceType
    <2>2. QED
      BY <1>4, <1>6, <2>1 DEF IInv, RingInv, pubVars, ackVars
  <1>13. DebugStateTracksOwnership'
    BY <1>2, <1>4, <1>6 DEF DebugStateTracksOwnership, Owns, Publishing
  <1>14. QED
    BY <1>7, <1>8, <1>9, <1>10, <1>11, <1>12, <1>13 DEF IInv

\* Both ways of finding the slot of a batch's event give event_at of its sequence.
LEMMA PublishSlotIsEventAt ==
    ASSUME IInv, call.pc = "write", call.index < call.count
    PROVE  PublishSlot(call.index) = EventAt(Add(published, call.index))
  <1>1. /\ cursor[call.path].next = published /\ call.count \in 1..Capacity
        /\ call.index \in 0..(call.count - 1) /\ published \in SequenceType
    BY CallPath DEF IInv, TypeOK, CallType
  <1>2. SpanAt(published, call.count, call.index)
          = EventAt(Add(published, call.index))
    BY <1>1, SpanIsEventAt
  <1>3. QED
    BY <1>1, <1>2 DEF PublishSlot

\* One writer invocation: the slot belongs to no event any consumer still needs
\* and to no event of the batch written before.
LEMMA WriteEventStep ==
    ASSUME IInv, WriteEvent
    PROVE  IInv'
  <1> DEFINE i == call.index
             s == Add(published, i)
  <1>1. call.pc = "write" /\ i < call.count
    BY DEF WriteEvent
  <1>2. /\ call.path \in Paths /\ Owns(call.path)
        /\ cursor[call.path].next = published
        /\ cursor[call.path].available \in 0..Capacity
        /\ call.count \in 1..Capacity /\ call \in CallType
        /\ i \in 0..(Capacity - 1) /\ i \in SequenceType
        /\ call.count <= cursor[call.path].available
        /\ published \in SequenceType
    BY <1>1, CallPath DEF IInv, TypeOK, CallType, CallInv, SequenceType
  <1>3. s \in SequenceType /\ EventAt(s) \in Slots
    BY <1>2, ArithmeticType, EventAtType
  <1>4. /\ events' = [events EXCEPT ![EventAt(s)] = s]
        /\ call' = [call EXCEPT !.index = @ + 1]
        /\ UNCHANGED <<cursor, object, producer_state, consumerVars, pubVars,
                       ackVars>>
    BY <1>1, <1>2, PublishSlotIsEventAt DEF WriteEvent
  <1>5. /\ call' \in CallType /\ call'.pc = "write" /\ call'.index = i + 1
        /\ call'.path = call.path /\ call'.count = call.count
    <2>1. i + 1 \in 0..(Capacity + ConsumerCount)
      BY <1>2
    <2>2. QED
      BY <1>1, <1>2, <1>4, <2>1 DEF CallType
  <1>6. /\ events' \in [Slots -> SequenceType \cup {Blank}]
        /\ events'[EventAt(s)] = s
        /\ \A t \in Slots : t # EventAt(s) => events'[t] = events[t]
    BY <1>3, <1>4 DEF IInv, TypeOK
  <1> HIDE DEF s
  <1>7. TypeOK'
    BY <1>4, <1>5, <1>6 DEF IInv, TypeOK, consumerVars, pubVars, ackVars
  <1>8. OneOwner' /\ CapacityCacheSound' /\ AckOrder'
    BY <1>4 DEF IInv, OneOwner, CapacityCacheSound, AckOrder, Owns, pubVars,
                ackVars
  <1>9. PubOrder' /\ ConsumerInv'
    BY <1>4, ConsumerFrame DEF ackVars
  <1>10. CallInv'
    BY <1>1, <1>2, <1>4, <1>5 DEF IInv, CallInv, Owns
  <1>11. RingInv'
    <2>1. ASSUME NEW c \in Consumers, NEW q \in SequenceType,
                 Sub(q, consumers[c]) < Sub(published, consumers[c])
          PROVE  events'[EventAt(q)] = q
      <3>1. events[EventAt(q)] = q
        BY <2>1 DEF IInv, RingInv
      <3>2. Sub(published, ackAcquired[c]) + cursor[call.path].available
              <= Capacity
        BY <1>2 DEF IInv, CapacityCacheSound
      <3>3. Sub(published, consumers[c]) + i < Capacity
        BY <1>1, <1>2, <3>2, Window
      <3>4. Sub(q, consumers[c]) \in SequenceType
        BY Window, ArithmeticType
      <3>5. Sub(published, q) = Sub(published, consumers[c]) - Sub(q, consumers[c])
        BY <2>1, <3>4, Window, SubBetween DEF SequenceType
      <3>6. Sub(published, q) + i < Wrap
        BY <1>2, <3>3, <3>4, <3>5, Window DEF SequenceType
      <3>7. Sub(s, q) = Sub(published, q) + i
        BY <1>2, <3>6, SubAddLeft DEF s
      <3>8. 0 < Sub(s, q) /\ Sub(s, q) < Capacity
        BY <1>2, <2>1, <3>3, <3>4, <3>5, <3>7, Window DEF SequenceType
      <3>9. EventAt(s) # EventAt(q) /\ EventAt(q) \in Slots
        BY <1>3, <3>8, SlotsDiffer, EventAtType
      <3>10. QED
        BY <1>6, <3>1, <3>9
    <2>2. ASSUME NEW q \in SequenceType, Sub(q, published) < i + 1
          PROVE  events'[EventAt(q)] = q
      <3>1. Sub(q, published) \in SequenceType
        BY <1>2, ArithmeticType
      <3>2. CASE Sub(q, published) = i
        <4>1. q = s
          BY <1>2, <3>2, AddSub DEF s
        <4>2. QED
          BY <1>6, <4>1
      <3>3. CASE Sub(q, published) < i
        <4>1. events[EventAt(q)] = q
          BY <1>1, <3>3 DEF IInv, RingInv
        <4>2. Sub(s, published) = i
          BY <1>2, SubAddSelf DEF s
        <4>3. Sub(s, q) = i - Sub(q, published)
          BY <1>2, <1>3, <3>1, <3>3, <4>2, SubBetween DEF SequenceType
        <4>4. 0 < Sub(s, q) /\ Sub(s, q) < Capacity
          BY <1>2, <3>1, <3>3, <4>3 DEF SequenceType
        <4>5. EventAt(s) # EventAt(q) /\ EventAt(q) \in Slots
          BY <1>3, <4>4, SlotsDiffer, EventAtType
        <4>6. QED
          BY <1>6, <4>1, <4>5
      <3>4. QED
        BY <1>2, <2>2, <3>1, <3>2, <3>3 DEF SequenceType
    <2>3. QED
      BY <1>4, <1>5, <2>1, <2>2 DEF RingInv, pubVars, ackVars
  <1>12. DebugStateTracksOwnership'
    BY <1>1, <1>4, <1>5 DEF IInv, DebugStateTracksOwnership, Owns
  <1>13. QED
    BY <1>7, <1>8, <1>9, <1>10, <1>11, <1>12 DEF IInv

\* The release store of a batch.
LEMMA PublishStep ==
    ASSUME IInv, Publish
    PROVE  IInv'
  <1> DEFINE p == call.path
             n == call.count
             new == Add(published, n)
  <1>1. call.pc = "write" /\ call.index = n
    BY DEF Publish
  <1>2. /\ p \in Paths /\ Owns(p) /\ cursor[p].next = published
        /\ cursor[p].available \in 0..Capacity
        /\ n \in 1..Capacity /\ cursor[p] \in CursorType
        /\ n <= cursor[p].available
        /\ published \in SequenceType /\ n \in SequenceType
        /\ \A r \in Paths : Owns(r) => r = p
    BY <1>1, CallPath DEF IInv, TypeOK, CallInv, SequenceType
  <1>3. new \in SequenceType
    BY <1>2, ArithmeticType
  <1>4. /\ cursor' = [cursor EXCEPT ![p].next = new,
                                    ![p].available = @ - n]
        /\ published' = new
        /\ pubView' = [c \in Consumers |-> pubView[c] \cup {new}]
        /\ producer_state' = Resting(p)
        /\ call' = Idle
        /\ UNCHANGED <<events, object, consumerVars, pubAcquired, ackVars>>
    BY <1>2 DEF Publish
  <1>5. /\ cursor' \in [Paths -> CursorType]
        /\ cursor'[p].next = new
        /\ cursor'[p].available = cursor[p].available - n
    BY <1>2, <1>3, <1>4 DEF IInv, TypeOK, CursorType
  <1>6. ASSUME NEW c \in Consumers, NEW x \in SequenceType,
               Sub(published, x) <= Sub(published, ackAcquired[c])
        PROVE  /\ Sub(new, x) = Sub(published, x) + n
               /\ Sub(published, x) \in Int
               /\ Sub(new, x) <= Capacity - (cursor[p].available - n)
    <2>1. Sub(published, ackAcquired[c]) + cursor[p].available <= Capacity
      BY <1>2 DEF IInv, CapacityCacheSound
    <2>2. Sub(published, x) \in SequenceType
      BY <1>2, ArithmeticType
    <2>3. Sub(published, x) + n < Wrap
      BY <1>2, <1>6, <2>1, <2>2, Window DEF SequenceType
    <2>4. Sub(new, x) = Sub(published, x) + n
      BY <1>2, <2>3, SubAddLeft
    <2>5. QED
      BY <1>2, <1>6, <2>1, <2>2, <2>4, Window DEF SequenceType
  <1> HIDE DEF new
  <1>7. ASSUME NEW c \in Consumers
        PROVE  /\ Sub(new, ackAcquired[c]) = Sub(published, ackAcquired[c]) + n
               /\ Sub(new, ackAcquired[c])
                     <= Capacity - (cursor[p].available - n)
               /\ Sub(new, consumers[c]) = Sub(published, consumers[c]) + n
    <2>1. Sub(published, ackAcquired[c]) <= Sub(published, ackAcquired[c])
      BY Window
    <2>2. QED
      BY <1>6, <2>1, Window
  <1>8. TypeOK'
    <2>1. Idle \in CallType
      BY DEF Idle, Calling, CallType, Paths, Consumers
    <2>2. producer_state' \in {"idle", "handle", "handle_publishing",
                               "direct_publishing"}
      BY <1>4 DEF Resting
    <2>3. pubView' \in [Consumers -> SUBSET SequenceType]
      BY <1>3, <1>4 DEF IInv, TypeOK
    <2>4. QED
      BY <1>3, <1>4, <1>5, <2>1, <2>2, <2>3 DEF IInv, TypeOK, consumerVars,
                                                ackVars
  <1>9. OneOwner'
    BY <1>4 DEF IInv, OneOwner
  <1>10. CapacityCacheSound'
    <2>1. SUFFICES ASSUME NEW c \in Consumers
                   PROVE  Sub(new, ackAcquired[c]) + (cursor[p].available - n)
                            <= Capacity
      BY <1>2, <1>4, <1>5 DEF CapacityCacheSound, Owns, ackVars
    <2>2. QED
      BY <1>2, <1>7, Window
  <1>11. AckOrder'
    <2>1. SUFFICES ASSUME NEW c \in Consumers
                   PROVE  /\ Sub(new, ackAcquired[c]) <= Capacity
                          /\ Sub(new, consumers[c]) <= Sub(new, ackAcquired[c])
                          /\ \A v \in ackView[c] :
                               /\ Sub(new, consumers[c]) <= Sub(new, v)
                               /\ Sub(new, v) <= Sub(new, ackAcquired[c])
      BY <1>4 DEF AckOrder, ackVars
    <2>2. /\ Sub(new, ackAcquired[c]) <= Capacity
          /\ Sub(new, consumers[c]) <= Sub(new, ackAcquired[c])
      BY <1>2, <1>7, Window
    <2>3. ASSUME NEW v \in ackView[c]
          PROVE  /\ Sub(new, consumers[c]) <= Sub(new, v)
                 /\ Sub(new, v) <= Sub(new, ackAcquired[c])
      <3>1. /\ v \in SequenceType
            /\ Sub(published, consumers[c]) <= Sub(published, v)
            /\ Sub(published, v) <= Sub(published, ackAcquired[c])
        BY DEF IInv, TypeOK, AckOrder
      <3>2. Sub(new, v) = Sub(published, v) + n /\ Sub(published, v) \in Int
        BY <1>6, <3>1
      <3>3. QED
        BY <1>2, <1>7, <3>1, <3>2, Window
    <2>4. QED
      BY <2>2, <2>3
  <1>12. PubOrder'
    <2>1. SUFFICES ASSUME NEW c \in Consumers
                   PROVE  /\ Sub(pubAcquired[c], consumers[c])
                               <= Sub(new, consumers[c])
                          /\ \A v \in pubView[c] \cup {new} :
                               /\ Sub(pubAcquired[c], consumers[c])
                                    <= Sub(v, consumers[c])
                               /\ Sub(v, consumers[c])
                                    <= Sub(new, consumers[c])
      BY <1>4 DEF PubOrder, ackVars
    <2>2. /\ Sub(pubAcquired[c], consumers[c]) <= Sub(new, consumers[c])
          /\ Sub(published, consumers[c]) <= Sub(new, consumers[c])
          /\ Sub(new, consumers[c]) \in Int
      BY <1>2, <1>7, Window
    <2>3. ASSUME NEW v \in pubView[c]
          PROVE  /\ Sub(pubAcquired[c], consumers[c]) <= Sub(v, consumers[c])
                 /\ Sub(v, consumers[c]) <= Sub(new, consumers[c])
      <3>1. /\ v \in SequenceType
            /\ Sub(pubAcquired[c], consumers[c]) <= Sub(v, consumers[c])
            /\ Sub(v, consumers[c]) <= Sub(published, consumers[c])
        BY DEF IInv, TypeOK, PubOrder
      <3>2. Sub(v, consumers[c]) \in SequenceType
        BY <3>1, Window, ArithmeticType
      <3>3. QED
        BY <2>2, <3>1, <3>2, Window DEF SequenceType
    <2>4. QED
      BY <2>2, <2>3
  <1>13. ConsumerInv'
    BY <1>4 DEF IInv, ConsumerInv, consumerVars, ackVars
  <1>14. CallInv'
    BY <1>4 DEF CallInv, Idle, Calling
  <1>15. RingInv'
    <2>1. SUFFICES ASSUME NEW c \in Consumers, NEW q \in SequenceType,
                          Sub(q, consumers[c]) < Sub(new, consumers[c])
                   PROVE  events[EventAt(q)] = q
      BY <1>4 DEF RingInv, Idle, Calling, ackVars
    <2>2. Sub(q, consumers[c]) \in SequenceType
      BY Window, ArithmeticType
    <2>3. CASE Sub(q, consumers[c]) < Sub(published, consumers[c])
      BY <2>3 DEF IInv, RingInv
    <2>4. CASE Sub(published, consumers[c]) <= Sub(q, consumers[c])
      <3>1. Sub(q, published)
              = Sub(q, consumers[c]) - Sub(published, consumers[c])
        BY <2>4, Window, SubBetween
      <3>2. Sub(q, published) < call.index
        BY <1>1, <1>2, <1>7, <2>1, <2>2, <3>1, Window DEF SequenceType
      <3>3. QED
        BY <1>1, <3>2 DEF IInv, RingInv
    <2>5. QED
      BY <2>2, <2>3, <2>4, Window DEF SequenceType
  <1>16. DebugStateTracksOwnership'
    BY <1>2, <1>4 DEF DebugStateTracksOwnership, Owns, Resting, Idle, Calling,
                      Paths
  <1>17. QED
    BY <1>8, <1>9, <1>10, <1>11, <1>12, <1>13, <1>14, <1>15, <1>16 DEF IInv

\* A step between calls that hands the owning path's cursor to the new owner.
LEMMA HandOver ==
    ASSUME IInv, call.pc = "idle", OneOwner', TypeOK',
           UNCHANGED <<events, call, consumerVars, pubVars, ackVars>>,
           NEW p \in Paths, NEW q \in Paths, Owns(p), Owns(q)',
           cursor'[q] = cursor[p],
           producer_state' = IF q = Owner THEN "idle" ELSE "handle"
    PROVE  IInv'
  <1>1. \A r \in Paths : Owns(r)' => r = q
    BY OwnerUnique DEF OneOwner, Owns, Paths
  <1>2. CapacityCacheSound'
    BY <1>1 DEF IInv, CapacityCacheSound, pubVars, ackVars
  <1>3. AckOrder' /\ PubOrder' /\ ConsumerInv'
    BY ConsumerFrame DEF IInv, AckOrder, pubVars, ackVars
  <1>4. CallInv' /\ RingInv'
    BY DEF IInv, CallInv, RingInv, pubVars, ackVars
  <1>5. DebugStateTracksOwnership'
    BY DEF DebugStateTracksOwnership, Owns, Paths
  <1>6. QED
    BY <1>2, <1>3, <1>4, <1>5 DEF IInv

\* make_producer.
LEMMA MakeProducerStep ==
    ASSUME IInv, NEW h \in Handles, MakeProducer(h)
    PROVE  IInv'
  <1>1. /\ call.pc = "idle" /\ Owns(Owner)
        /\ object' = [object EXCEPT ![h] = "owning"]
        /\ cursor' = [cursor EXCEPT ![h] = cursor[Owner]]
        /\ producer_state' = "handle"
        /\ UNCHANGED <<events, call, consumerVars, pubVars, ackVars>>
        /\ h \in Paths /\ Owner \in Paths /\ h # Owner
    BY DEF MakeProducer, Paths
  <1>2. TypeOK'
    BY <1>1 DEF IInv, TypeOK, consumerVars, pubVars, ackVars
  <1>3. OneOwner' /\ Owns(h)' /\ cursor'[h] = cursor[Owner]
    BY <1>1 DEF IInv, TypeOK, OneOwner, Owns
  <1>4. QED
    BY <1>1, <1>2, <1>3, HandOver

\* The move constructor.
LEMMA MoveProducerStep ==
    ASSUME IInv, NEW h \in Handles, NEW g \in Handles, MoveProducer(h, g)
    PROVE  IInv'
  <1>1. /\ call.pc = "idle" /\ Owns(h) /\ h # g
        /\ object' = [object EXCEPT ![h] = "moved", ![g] = "owning"]
        /\ cursor' = [cursor EXCEPT ![g] = cursor[h]]
        /\ UNCHANGED <<events, producer_state, call, consumerVars, pubVars,
                       ackVars>>
        /\ h \in Paths /\ g \in Paths /\ h # Owner /\ g # Owner
    BY DEF MoveProducer, Owns, Paths
  <1>2. TypeOK'
    BY <1>1 DEF IInv, TypeOK, consumerVars, pubVars, ackVars
  <1>3. OneOwner' /\ Owns(g)' /\ cursor'[g] = cursor[h]
    BY <1>1 DEF IInv, TypeOK, OneOwner, Owns
  <1>4. producer_state' = "handle"
    BY <1>1 DEF IInv, DebugStateTracksOwnership, Owns
  <1>5. QED
    BY <1>1, <1>2, <1>3, <1>4, HandOver

\* The destructor of a producer handle.
LEMMA DestroyProducerStep ==
    ASSUME IInv, NEW h \in Handles, DestroyProducer(h)
    PROVE  IInv'
  <1>1. /\ call.pc = "idle"
        /\ object' = [object EXCEPT ![h] = "none"]
        /\ UNCHANGED <<events, call, consumerVars, pubVars, ackVars>>
        /\ h \in Paths /\ Owner \in Paths /\ h # Owner
        /\ NoCursor \in CursorType
    BY DEF DestroyProducer, Paths, NoCursor, CursorType, Consumers, SequenceType
  <1>2. OneOwner'
    BY <1>1 DEF IInv, TypeOK, OneOwner
  <1>3. CASE object[h] = "owning"
    <2>1. /\ cursor' = [cursor EXCEPT ![Owner] = cursor[h], ![h] = NoCursor]
          /\ producer_state' = "idle"
      BY <1>3 DEF DestroyProducer
    <2>2. cursor' \in [Paths -> CursorType] /\ cursor'[Owner] = cursor[h]
      BY <1>1, <2>1 DEF IInv, TypeOK
    <2>3. TypeOK'
      BY <1>1, <2>1, <2>2 DEF IInv, TypeOK, consumerVars, pubVars, ackVars
    <2>4. Owns(h) /\ Owns(Owner)'
      BY <1>1, <1>3 DEF IInv, TypeOK, OneOwner, Owns
    <2>5. QED
      BY <1>1, <1>2, <2>1, <2>2, <2>3, <2>4, HandOver
  <1>4. CASE object[h] # "owning"
    <2>1. /\ cursor' = [cursor EXCEPT ![h] = NoCursor]
          /\ producer_state' = producer_state
      BY <1>4 DEF DestroyProducer
    <2>2. TypeOK'
      BY <1>1, <2>1 DEF IInv, TypeOK, consumerVars, pubVars, ackVars
    <2>3. \A r \in Paths : /\ Owns(r)' <=> Owns(r)
                           /\ Owns(r) => cursor'[r] = cursor[r]
      BY <1>1, <1>4, <2>1 DEF IInv, TypeOK, Owns, Paths
    <2>4. CapacityCacheSound'
      BY <1>1, <2>3 DEF IInv, CapacityCacheSound, pubVars, ackVars
    <2>5. AckOrder' /\ PubOrder' /\ ConsumerInv'
      BY <1>1, ConsumerFrame DEF IInv, AckOrder, pubVars, ackVars
    <2>6. CallInv' /\ RingInv'
      BY <1>1 DEF IInv, CallInv, RingInv, pubVars, ackVars
    <2>7. DebugStateTracksOwnership'
      BY <1>1, <2>1, <2>3 DEF IInv, DebugStateTracksOwnership
    <2>8. QED
      BY <1>2, <2>2, <2>4, <2>5, <2>6, <2>7 DEF IInv
  <1>5. QED
    BY <1>3, <1>4

------------------------------------------------------------------------------
(* The theorems.                                                           *)

\* Nothing changes in a stuttering step.
LEMMA StutterStep ==
    ASSUME IInv, UNCHANGED vars
    PROVE  IInv'
  <1>1. TypeOK' /\ ConsumerInv'
    BY DEF IInv, TypeOK, ConsumerInv, vars, producerVars, consumerVars, pubVars,
           ackVars
  <1>2. QED
    BY <1>1, SharedFrame DEF IInv, vars

\* IInv is inductive.
LEMMA NextIInv == IInv /\ [Next]_vars => IInv'
  <1> SUFFICES ASSUME IInv, [Next]_vars PROVE IInv'
    OBVIOUS
  <1>1. CASE UNCHANGED vars
    BY <1>1, StutterStep
  <1>2. CASE ProducerStep
    <2>1. ASSUME NEW p \in Paths, NEW count \in Counts, TryPublishBatch(p, count)
          PROVE  IInv'
      BY <2>1, TryPublishBatchStep
    <2>2. CASE CheckBlocker
      BY <2>2, CheckBlockerStep
    <2>3. CASE ScanConsumer
      BY <2>3, ScanConsumerStep
    <2>4. CASE FinishRefresh
      BY <2>4, FinishRefreshStep
    <2>5. CASE WriteEvent
      BY <2>5, WriteEventStep
    <2>6. CASE Publish
      BY <2>6, PublishStep
    <2>7. ASSUME NEW h \in Handles, MakeProducer(h) \/ DestroyProducer(h)
          PROVE  IInv'
      BY <2>7, MakeProducerStep, DestroyProducerStep
    <2>8. ASSUME NEW h \in Handles, NEW g \in Handles, MoveProducer(h, g)
          PROVE  IInv'
      BY <2>8, MoveProducerStep
    <2>9. QED
      BY <1>2, <2>1, <2>2, <2>3, <2>4, <2>5, <2>6, <2>7, <2>8 DEF ProducerStep
  <1>3. ASSUME NEW c \in Consumers, ConsumerStep(c)
        PROVE  IInv'
    <2>1. CASE MakeConsumer(c) \/ DropConsumer(c)
      BY <2>1, MakeConsumerStep, DropConsumerStep
    <2>2. ASSUME NEW m \in MaxCounts,
                 \/ ConsumeIndexed(c, m)
                 \/ ConsumeCached(c, m)
                 \/ ConsumeReloading(c, m)
          PROVE  IInv'
      BY <2>2, ConsumeIndexedStep, ConsumeCachedStep, ConsumeReloadingStep
    <2>3. CASE HandleEvent(c) \/ Release(c)
      BY <2>3, HandleEventStep, ReleaseStep
    <2>4. QED
      BY <1>3, <2>1, <2>2, <2>3 DEF ConsumerStep
  <1>4. ASSUME NEW c \in Consumers,
               PublishedPropagates(c) \/ ReleasePropagates(c)
        PROVE  IInv'
    BY <1>4, PublishedPropagatesStep, ReleasePropagatesStep
  <1>5. QED
    BY <1>1, <1>2, <1>3, <1>4 DEF Next

\* The inductive invariant holds in every reachable state.
THEOREM Invariance == Spec => []IInv
  BY InitIInv, NextIInv, PTL DEF Spec

\* All members and locals stay within the ranges the code assumes: no unsigned
\* count, lag or cached capacity of try_publish_batch, refresh_available_capacity
\* or consume_available ever wraps.
THEOREM TypeCorrect == Spec => []TypeOK
  <1>1. IInv => TypeOK
    BY DEF IInv
  <1>2. QED
    BY <1>1, Invariance, PTL

\* The cached capacity of whichever path owns publication never promises a slot
\* that is not known to be free, through make_producer, moves and destruction.
THEOREM CapacityCacheCorrect == Spec => []CapacityCacheSound
  <1>1. IInv => CapacityCacheSound
    BY DEF IInv
  <1>2. QED
    BY <1>1, Invariance, PTL

\* Callers that keep the contract never trip a debug assertion.
THEOREM DebugAssertsHold == Spec => []DebugStateTracksOwnership
  <1>1. IInv => DebugStateTracksOwnership
    BY DEF IInv
  <1>2. QED
    BY <1>1, Invariance, PTL

\* The writer callback's stores are ordered after every read of the event they
\* overwrite.
THEOREM WritesDoNotRace == Spec => []NoWriteRace
  <1>1. IInv => NoWriteRace
    <2>1. SUFFICES ASSUME IInv, call.pc = "write", NEW c \in Consumers,
                          NEW i \in call.index..(call.count - 1)
                   PROVE  Sub(Add(cursor[call.path].next, i), ackAcquired[c])
                            < Capacity
      BY DEF NoWriteRace
    <2>2. /\ cursor[call.path].next = published /\ call.path \in Paths
          /\ Owns(call.path) /\ cursor[call.path].available \in 0..Capacity
          /\ call.count \in 1..Capacity
          /\ call.count <= cursor[call.path].available
          /\ i \in 0..(Capacity - 1) /\ i < call.count /\ i \in SequenceType
      BY <2>1, CallPath DEF IInv, TypeOK, CallType, CallInv, SequenceType
    <2>3. Sub(published, ackAcquired[c]) + cursor[call.path].available <= Capacity
      BY <2>1, <2>2 DEF IInv, CapacityCacheSound
    <2>4. Sub(published, ackAcquired[c]) + i < Capacity
      BY <2>2, <2>3, <2>1, Window
    <2>5. Sub(published, ackAcquired[c]) + i < Wrap
      BY <2>2, <2>1, <2>4, Window
    <2>6. Sub(Add(published, i), ackAcquired[c])
            = Sub(published, ackAcquired[c]) + i
      BY <2>1, <2>2, <2>5, Window, SubAddLeft, ZenonT(60)
    <2>7. QED
      BY <2>2, <2>4, <2>6
  <1>2. QED
    BY <1>1, Invariance, PTL

\* The handler's reads are ordered after the writes of the events it is given.
THEOREM ReadsDoNotRace == Spec => []NoReadRace
  <1>1. IInv => NoReadRace
    <2>1. SUFFICES ASSUME IInv, NEW c \in Consumers, take[c].reading,
                          NEW i \in take[c].index..(take[c].count - 1)
                   PROVE  Sub(pubAcquired[c], Add(take[c].first, i))
                            \in 1..Capacity
      BY DEF NoReadRace
    <2>2. /\ take[c].first = consumers[c]
          /\ take[c].count <= Sub(pubAcquired[c], consumers[c])
          /\ take[c].count \in 0..Capacity /\ take[c].index \in 0..Capacity
      BY <2>1 DEF IInv, ConsumerInv, TypeOK, TakeType
    <2>3. i \in 0..(Capacity - 1) /\ i \in SequenceType
          /\ i < Sub(pubAcquired[c], consumers[c])
      BY <2>1, <2>2, Window DEF SequenceType
    <2>4. Sub(pubAcquired[c], Add(consumers[c], i))
            = Sub(pubAcquired[c], consumers[c]) - i
      <3>1. i <= Sub(pubAcquired[c], consumers[c])
        BY <2>1, <2>3, Window
      <3>2. QED
        BY <2>1, <2>3, <3>1, Window, SubAddRight, ZenonT(30)
    <2>5. QED
      BY <2>1, <2>2, <2>3, <2>4, Window
  <1>2. QED
    BY <1>1, Invariance, PTL

\* The slot a handler reads holds the event it is to be given.
LEMMA HandlersReadTheirSlots == IInv => HandlerGetsItsEvent
  <1>1. SUFFICES ASSUME IInv, NEW c \in Consumers, take[c].reading,
                        take[c].index < take[c].count
                 PROVE  events[ConsumeSlot(c)]
                          = Add(take[c].first, take[c].index)
    BY DEF HandlerGetsItsEvent
  <1> DEFINE i == take[c].index
             q == Add(consumers[c], i)
  <1>2. /\ take[c].first = consumers[c]
        /\ take[c].count <= Sub(pubAcquired[c], consumers[c])
        /\ take[c].count \in 1..Capacity /\ i \in 0..(take[c].count - 1)
        /\ i \in SequenceType
    BY <1>1 DEF IInv, ConsumerInv, TypeOK, TakeType, SequenceType
  <1>3. ConsumeSlot(c) = EventAt(q)
    <2>1. SpanAt(consumers[c], take[c].count, i) = EventAt(q)
      BY <1>1, <1>2, Window, SpanIsEventAt
    <2>2. QED
      BY <1>2, <2>1 DEF ConsumeSlot
  <1>4. q \in SequenceType /\ Sub(q, consumers[c]) = i
    BY <1>1, <1>2, Window, ArithmeticType, SubAddSelf
  <1>5. Sub(q, consumers[c]) < Sub(published, consumers[c])
    BY <1>1, <1>2, <1>4, Window
  <1>6. events[EventAt(q)] = q
    BY <1>1, <1>4, <1>5 DEF IInv, RingInv
  <1>7. QED
    BY <1>2, <1>3, <1>6

\* Every handler is given the event published under the sequence it is given.
THEOREM HandlersGetTheirEvents == Spec => []HandlerGetsItsEvent
  BY HandlersReadTheirSlots, Invariance, PTL

\* Only Publish and Release store to the shared positions.
LEMMA WhoMovesPositions ==
    ASSUME [Next]_vars
    PROVE  \/ UNCHANGED <<published, consumers>>
           \/ Publish
           \/ \E c \in Consumers : Release(c)
  <1>1. CASE UNCHANGED vars
    BY <1>1 DEF vars, pubVars, ackVars
  <1>2. CASE ProducerStep
    BY <1>2 DEF ProducerStep, TryPublishBatch, CheckBlocker, ScanConsumer,
                FinishRefresh, WriteEvent, MakeProducer, DestroyProducer,
                MoveProducer, AcquireConsumer, pubVars, ackVars
  <1>3. ASSUME NEW c \in Consumers, ConsumerStep(c)
        PROVE  UNCHANGED <<published, consumers>> \/ Release(c)
    BY <1>3 DEF ConsumerStep, MakeConsumer, DropConsumer, ConsumeIndexed,
                ConsumeCached, ConsumeReloading, HandleEvent, AcquirePublished,
                pubVars, ackVars
  <1>4. ASSUME NEW c \in Consumers,
               PublishedPropagates(c) \/ ReleasePropagates(c)
        PROVE  UNCHANGED <<published, consumers>>
    BY <1>4 DEF PublishedPropagates, ReleasePropagates, pubVars, ackVars
  <1>5. QED
    BY <1>1, <1>2, <1>3, <1>4 DEF Next

\* try_publish_batch from the capacity test to the last writer: the call keeps
\* its batch or is refused, and no position moves.
LEMMA InsideACall ==
    ASSUME IInv, CheckBlocker \/ ScanConsumer \/ FinishRefresh \/ WriteEvent
    PROVE  /\ IInv'
           /\ UNCHANGED <<pubVars, consumers, consumerVars, object>>
           /\ call.pc # "idle"
           /\ \/ call'.pc = "idle"
              \/ call'.count = call.count /\ call'.path = call.path
  <1>1. call \in CallType
    BY DEF IInv, TypeOK
  <1>2. CASE CheckBlocker
    <2>1. \/ call' = Idle
          \/ \E l, b, i : call' = [call EXCEPT !.pc = "scan", !.lag = l,
                                               !.slowest = b, !.index = i]
      BY <1>2 DEF CheckBlocker
    <2>2. call' = Idle \/ (call'.count = call.count /\ call'.path = call.path)
      BY <1>1, <2>1 DEF CallType
    <2>3. call'.pc = "idle" \/ (call'.count = call.count /\ call'.path = call.path)
      BY <2>2 DEF Idle, Calling
    <2>4. UNCHANGED <<pubVars, consumerVars, object>> /\ call.pc # "idle"
      BY <1>2 DEF CheckBlocker
    <2>5. UNCHANGED consumers
      BY <1>2 DEF CheckBlocker, AcquireConsumer
    <2>6. IInv'
      BY <1>2, CheckBlockerStep
    <2> QED
      BY <2>3, <2>4, <2>5, <2>6
  <1>3. CASE ScanConsumer
    <2>1. \/ call' = Idle
          \/ \E l, b, i : call' = [call EXCEPT !.lag = l, !.slowest = b,
                                               !.index = i]
      BY <1>3 DEF ScanConsumer
    <2>2. call' = Idle \/ (call'.count = call.count /\ call'.path = call.path)
      BY <1>1, <2>1 DEF CallType
    <2>3. call'.pc = "idle" \/ (call'.count = call.count /\ call'.path = call.path)
      BY <2>2 DEF Idle, Calling
    <2>4. UNCHANGED <<pubVars, consumerVars, object>> /\ call.pc # "idle"
      BY <1>3 DEF ScanConsumer
    <2>5. UNCHANGED consumers
      BY <1>3 DEF ScanConsumer, AcquireConsumer
    <2>6. IInv'
      BY <1>3, ScanConsumerStep
    <2> QED
      BY <2>3, <2>4, <2>5, <2>6
  <1>4. CASE FinishRefresh
    BY <1>1, <1>4, FinishRefreshStep DEF FinishRefresh, CallType, ackVars
  <1>5. CASE WriteEvent
    BY <1>1, <1>5, WriteEventStep DEF WriteEvent, CallType, ackVars
  <1> QED
    BY <1>2, <1>3, <1>4, <1>5

\* A publication moves every consumer's distance from the end of the stream by
\* the size of its batch, and to no more than Capacity.
LEMMA PublishMoves ==
    ASSUME IInv, Publish
    PROVE  /\ call.count \in 1..Capacity
           /\ published' = Add(published, call.count) /\ consumers' = consumers
           /\ \A c \in Consumers :
                /\ Sub(published', consumers[c])
                     = Sub(published, consumers[c]) + call.count
                /\ Sub(published', consumers[c]) <= Capacity
  <1>1. /\ call.count \in 1..Capacity /\ call.count \in SequenceType
        /\ published' = Add(published, call.count)
        /\ consumers' = consumers
    BY CallPath DEF Publish, ackVars, SequenceType
  <1>2. IInv'
    BY PublishStep
  <1>3. ASSUME NEW c \in Consumers
        PROVE  /\ Sub(published', consumers[c])
                    = Sub(published, consumers[c]) + call.count
               /\ Sub(published', consumers[c]) <= Capacity
    <2>1. /\ consumers[c] \in SequenceType /\ published \in SequenceType
          /\ Sub(published, consumers[c]) \in 0..Capacity
      BY Window
    <2>2. Sub(published', consumers[c]) = Sub(published, consumers[c])
                                            + call.count
      BY <1>1, <2>1, SubAddLeft
    <2>3. /\ Sub(published', consumers[c]) <= Sub(published', ackAcquired'[c])
          /\ Sub(published', ackAcquired'[c]) <= Capacity
      BY <1>1, <1>2 DEF IInv, AckOrder
    <2>4. published' \in SequenceType /\ ackAcquired'[c] \in SequenceType
      BY <1>2 DEF IInv, TypeOK
    <2>5. /\ Sub(published', consumers[c]) \in SequenceType
          /\ Sub(published', ackAcquired'[c]) \in SequenceType
      BY <2>1, <2>4, ArithmeticType
    <2> QED
      BY <2>2, <2>3, <2>5 DEF SequenceType
  <1> QED
    BY <1>1, <1>3

\* A release moves its own consumer up by the size of the batch, which lies
\* within what is published.
LEMMA ReleaseMoves ==
    ASSUME IInv, NEW c \in Consumers, Release(c)
    PROVE  /\ take[c].count \in Nat
           /\ take[c].count <= Sub(published, consumers[c])
           /\ consumers' = [consumers EXCEPT ![c] = Add(@, take[c].count)]
           /\ published' = published
           /\ Sub(published, consumers'[c])
                = Sub(published, consumers[c]) - take[c].count
  <1>1. /\ take[c].count \in 0..Capacity /\ take[c].count \in SequenceType
        /\ take[c].first = consumers[c]
        /\ take[c].count <= Sub(pubAcquired[c], consumers[c])
    BY DEF Release, IInv, TypeOK, TakeType, ConsumerInv, SequenceType
  <1>2. /\ consumers' = [consumers EXCEPT ![c] = Add(consumers[c], take[c].count)]
        /\ published' = published
    BY <1>1 DEF Release, pubVars
  <1>3. /\ consumers[c] \in SequenceType /\ published \in SequenceType
        /\ consumers'[c] = Add(consumers[c], take[c].count)
    BY <1>2 DEF IInv, TypeOK
  <1>4. take[c].count <= Sub(published, consumers[c])
    BY <1>1, Window
  <1>5. Sub(published, Add(consumers[c], take[c].count))
          = Sub(published, consumers[c]) - take[c].count
    BY <1>1, <1>3, <1>4, SubAddRight
  <1> QED
    BY <1>1, <1>2, <1>3, <1>4, <1>5

\* Released positions only advance, and never past the published one; the
\* published one only advances, and never Capacity past a released one.
THEOREM PositionsOnlyAdvance == Spec => PositionsAdvance
  <1> DEFINE A == /\ \A c \in Consumers :
                       Sub(consumers'[c], consumers[c])
                         <= Sub(published, consumers[c])
                  /\ \A c \in Consumers :
                       /\ Sub(published', consumers[c]) <= Capacity
                       /\ Sub(published, consumers[c])
                            <= Sub(published', consumers[c])
  <1>1. IInv /\ [Next]_vars => A
    <2> SUFFICES ASSUME IInv, [Next]_vars, NEW c \in Consumers
                 PROVE  /\ Sub(consumers'[c], consumers[c])
                             <= Sub(published, consumers[c])
                        /\ Sub(published', consumers[c]) <= Capacity
                        /\ Sub(published, consumers[c])
                             <= Sub(published', consumers[c])
      OBVIOUS
    <2>1. /\ consumers[c] \in SequenceType /\ published \in SequenceType
          /\ Sub(published, consumers[c]) \in 0..Capacity
          /\ Sub(consumers[c], consumers[c]) = 0
      BY Window, SubZero
    <2>2. CASE UNCHANGED <<published, consumers>>
      BY <2>1, <2>2
    <2>3. CASE Publish
      <3>1. /\ call.count \in 1..Capacity /\ consumers' = consumers
            /\ Sub(published', consumers[c]) = Sub(published, consumers[c])
                                                 + call.count
            /\ Sub(published', consumers[c]) <= Capacity
        BY <2>3, PublishMoves
      <3> QED
        BY <2>1, <3>1
    <2>4. ASSUME NEW d \in Consumers, Release(d)
          PROVE  /\ Sub(consumers'[c], consumers[c])
                      <= Sub(published, consumers[c])
                 /\ published' = published
      <3>1. /\ take[d].count \in Nat
            /\ take[d].count <= Sub(published, consumers[d])
            /\ consumers' = [consumers EXCEPT ![d] = Add(@, take[d].count)]
            /\ published' = published
        BY <2>4, ReleaseMoves
      <3>2. CASE c = d
        <4>1. /\ consumers'[c] = Add(consumers[c], take[c].count)
              /\ take[c].count \in SequenceType
          BY <2>1, <3>1, <3>2 DEF IInv, TypeOK, SequenceType
        <4>2. Sub(Add(consumers[c], take[c].count), consumers[c]) = take[c].count
          BY <2>1, <4>1, SubAddSelf
        <4> QED
          BY <3>1, <3>2, <4>1, <4>2
      <3>3. CASE c # d
        BY <2>1, <3>1, <3>3 DEF IInv, TypeOK
      <3> QED
        BY <3>2, <3>3
    <2>5. QED
      BY <2>1, <2>2, <2>3, <2>4, WhoMovesPositions
  <1>2. QED
    BY <1>1, Invariance, PTL DEF Spec, PositionsAdvance

------------------------------------------------------------------------------
(* The refinement.                                                         *)

\* What a consumer has not handled lies within the ring.
LEMMA HandledWindow ==
    ASSUME IInv, NEW c \in Consumers
    PROVE  /\ Handled(c) \in SequenceType
           /\ published \in SequenceType
           /\ Sub(published, Handled(c)) \in 0..Capacity
           /\ Sub(published, Handled(c)) <= Sub(published, consumers[c])
           /\ Sub(Handled(c), consumers[c]) + Sub(published, Handled(c))
                = Sub(published, consumers[c])
           /\ take[c].reading =>
                Sub(published, Handled(c)) >= take[c].count - take[c].index
  <1>1. CASE ~take[c].reading
    <2>1. Handled(c) = consumers[c]
      BY <1>1 DEF Handled
    <2>2. Sub(consumers[c], consumers[c]) = 0
      BY Window, SubZero
    <2> QED
      BY <1>1, <2>1, <2>2, Window
  <1>2. CASE take[c].reading
    <2> DEFINE i == take[c].index
    <2>1. /\ Handled(c) = Add(consumers[c], i)
          /\ i \in 0..Capacity /\ take[c].count \in 0..Capacity
          /\ i <= take[c].count
          /\ take[c].count <= Sub(pubAcquired[c], consumers[c])
          /\ i \in SequenceType
      BY <1>2 DEF Handled, IInv, TypeOK, TakeType, ConsumerInv, SequenceType
    <2>2. i <= Sub(published, consumers[c])
      BY <2>1, Window
    <2>3. Sub(published, Add(consumers[c], i)) = Sub(published, consumers[c]) - i
      BY <2>1, <2>2, Window, SubAddRight
    <2>4. Sub(Add(consumers[c], i), consumers[c]) = i
      BY <2>1, Window, SubAddSelf
    <2>5. Add(consumers[c], i) \in SequenceType
      BY <2>1, Window, ArithmeticType
    <2> QED
      BY <2>1, <2>2, <2>3, <2>4, <2>5, Window
  <1> QED
    BY <1>1, <1>2

\* The n sequences from x on.
Run(x, n) == [i \in 1..n |-> Add(x, i - 1)]

\* The slots ahead of a consumer hold the events that follow what it handled.
LEMMA PendingIsRun ==
    ASSUME IInv, NEW c \in Consumers
    PROVE  Pending(c) = Run(Handled(c), Sub(published, Handled(c)))
  <1> DEFINE x == Handled(c)
             n == Sub(published, x)
  <1>1. /\ x \in SequenceType /\ n \in 0..Capacity
        /\ Sub(x, consumers[c]) + n = Sub(published, consumers[c])
    BY HandledWindow
  <1>2. ASSUME NEW i \in 1..n
        PROVE  events[EventAt(Add(x, i - 1))] = Add(x, i - 1)
    <2>1. i - 1 \in SequenceType /\ i - 1 < n
      BY <1>1, <1>2 DEF SequenceType
    <2>2. Sub(x, consumers[c]) \in SequenceType
      BY <1>1, Window, ArithmeticType
    <2>3. Sub(x, consumers[c]) + (i - 1) < Sub(published, consumers[c])
      BY <1>1, <2>1, <2>2 DEF SequenceType
    <2>4. Sub(x, consumers[c]) + (i - 1) < Wrap
      BY <2>1, <2>2, <2>3, Window DEF SequenceType
    <2>5. Sub(Add(x, i - 1), consumers[c]) = Sub(x, consumers[c]) + (i - 1)
      BY <1>1, <2>1, <2>4, Window, SubAddLeft
    <2>6. Add(x, i - 1) \in SequenceType
      BY <1>1, <2>1, ArithmeticType
    <2> QED
      BY <2>3, <2>5, <2>6 DEF IInv, RingInv
  <1> QED
    BY <1>2 DEF Pending, Run

\* A run is a sequence; it grows at its end and shrinks at its start.
LEMMA RunFacts ==
    ASSUME NEW x \in SequenceType, NEW n \in 0..Capacity
    PROVE  /\ Run(x, n) \in Seq(SequenceType)
           /\ Len(Run(x, n)) = n
           /\ n > 0 => /\ Run(x, n) # <<>>
                       /\ SubSeq(Run(x, n), 2, n) = Run(Add(x, 1), n - 1)
           /\ \A m \in 1..Capacity :
                Run(x, n) \o Run(Add(x, n), m) = Run(x, n + m)
  <1>1. \A i \in 1..(2 * Capacity) : /\ i - 1 \in SequenceType
                                     /\ Add(x, i - 1) \in SequenceType
    BY ArithmeticType DEF SequenceType
  <1>2. \A k \in 0..(2 * Capacity) :
          /\ Run(x, k) \in Seq(SequenceType) /\ Len(Run(x, k)) = k
          /\ \A i \in 1..k : Run(x, k)[i] = Add(x, i - 1)
    BY <1>1 DEF Run
  <1>3. ASSUME n > 0
        PROVE  SubSeq(Run(x, n), 2, n) = Run(Add(x, 1), n - 1)
    <2>1. \A i \in 1..(n - 1) : Add(Add(x, 1), i - 1) = Add(x, i)
      <3> SUFFICES ASSUME NEW i \in 1..(n - 1)
                   PROVE  Add(Add(x, 1), i - 1) = Add(x, i)
        OBVIOUS
      <3>1. 1 \in SequenceType /\ i - 1 \in SequenceType /\ 1 + (i - 1) = i
            /\ i \in SequenceType
        BY DEF SequenceType
      <3> QED
        BY <3>1, AddAdd
    <2>2. SubSeq(Run(x, n), 2, n) = [i \in 1..(n - 1) |-> Run(x, n)[i + 1]]
      BY <1>2, <1>3
    <2>3. \A i \in 1..(n - 1) : Run(x, n)[i + 1] = Add(Add(x, 1), i - 1)
      BY <1>2, <2>1
    <2> QED
      BY <2>2, <2>3 DEF Run
  <1>4. ASSUME NEW m \in 1..Capacity
        PROVE  Run(x, n) \o Run(Add(x, n), m) = Run(x, n + m)
    <2>1. \A i \in 1..m : Add(Add(x, n), i - 1) = Add(x, n + i - 1)
      <3> SUFFICES ASSUME NEW i \in 1..m
                   PROVE  Add(Add(x, n), i - 1) = Add(x, n + i - 1)
        OBVIOUS
      <3>1. /\ n \in SequenceType /\ i - 1 \in SequenceType
            /\ n + (i - 1) \in SequenceType /\ n + (i - 1) = n + i - 1
        BY DEF SequenceType
      <3> QED
        BY <3>1, AddAdd
    <2> DEFINE r == Run(Add(x, n), m)
    <2>2. n \in SequenceType /\ Add(x, n) \in SequenceType
      BY ArithmeticType DEF SequenceType
    <2>3. /\ r \in Seq(SequenceType) /\ Len(r) = m
          /\ \A i \in 1..m : r[i] = Add(x, n + i - 1)
      <3>1. \A i \in 1..m : Add(x, n + i - 1) \in SequenceType
        <4> SUFFICES ASSUME NEW i \in 1..m
                     PROVE  Add(x, n + i - 1) \in SequenceType
          OBVIOUS
        <4>1. n + i \in 1..(2 * Capacity) /\ (n + i) - 1 = n + i - 1
          OBVIOUS
        <4> QED
          BY <1>1, <4>1
      <3>2. r = [i \in 1..m |-> Add(x, n + i - 1)]
        BY <2>1 DEF Run
      <3> HIDE DEF r
      <3> QED
        BY <3>1, <3>2
    <2> HIDE DEF r
    <2>4. /\ Run(x, n) \in Seq(SequenceType) /\ Len(Run(x, n)) = n
          /\ Run(x, n + m) \in Seq(SequenceType) /\ Len(Run(x, n + m)) = n + m
          /\ n + m \in 0..(2 * Capacity) /\ n \in 0..(2 * Capacity)
      BY <1>2
    <2>5. /\ Run(x, n) \o r \in Seq(SequenceType)
          /\ Len(Run(x, n) \o r) = n + m
          /\ \A i \in 1..(n + m) :
               (Run(x, n) \o r)[i] = IF i <= n THEN Run(x, n)[i] ELSE r[i - n]
      BY <2>3, <2>4, ConcatProperties
    <2>6. ASSUME NEW i \in 1..(n + m)
          PROVE  (Run(x, n) \o r)[i] = Run(x, n + m)[i]
      <3>1. Run(x, n + m)[i] = Add(x, i - 1)
        BY <1>2, <2>4
      <3>2. CASE i <= n
        BY <1>2, <2>4, <2>5, <3>1, <3>2
      <3>3. CASE i > n
        <4>1. i - n \in 1..m /\ n + (i - n) - 1 = i - 1
          BY <3>3
        <4>2. r[i - n] = Add(x, n + (i - n) - 1)
          BY <2>3, <4>1
        <4>3. (Run(x, n) \o r)[i] = r[i - n]
          BY <2>5, <3>3
        <4>4. Add(x, n + (i - n) - 1) = Add(x, i - 1)
          BY <4>1
        <4> QED
          BY <3>1, <4>2, <4>3, <4>4
      <3>4. i <= n \/ i > n
        OBVIOUS
      <3> QED
        BY <3>2, <3>3, <3>4, Zenon
    <2>7. Run(x, n) \o r = Run(x, n + m)
      BY <2>4, <2>5, <2>6, SeqEqual
    <2> QED
      BY <2>7 DEF r
  <1>5. n \in 0..(2 * Capacity)
    OBVIOUS
  <1>6. Run(x, n) \in Seq(SequenceType) /\ Len(Run(x, n)) = n
    BY <1>2, <1>5
  <1>7. n > 0 => Run(x, n) # <<>>
    BY <1>6
  <1> QED
    BY <1>3, <1>4, <1>6, <1>7

\* What the abstract stream shows is determined by the published position and
\* by how far each consumer has got.
PendingRuns ==
    \A c \in Consumers :
        Pending(c) = Run(Handled(c), Sub(published, Handled(c)))

\* No consumer has more to handle than the ring holds.
PendingFit == \A c \in Consumers : Sub(published, Handled(c)) \in 0..Capacity

\* Both facts for all consumers at once, before and after a step.
LEMMA PendingAreRuns == IInv => PendingRuns /\ PendingFit
  BY PendingIsRun, HandledWindow DEF PendingRuns, PendingFit

\* A step that moves neither is a stutter of the stream.
LEMMA SameStream ==
    ASSUME IInv, IInv', published' = published,
           \A c \in Consumers : Handled(c)' = Handled(c)
    PROVE  UNCHANGED Stream!streamVars
  <1>1. PendingRuns /\ PendingRuns'
    BY PendingAreRuns, PTL
  <1>2. \A c \in Consumers : Pending(c)' = Pending(c)
    BY <1>1 DEF PendingRuns
  <1> QED
    BY <1>2 DEF Stream!streamVars

\* One handler invocation delivers the oldest pending event to its consumer.
LEMMA HandleEventDelivers ==
    ASSUME IInv, IInv', NEW c \in Consumers, HandleEvent(c)
    PROVE  Stream!Deliver(c)
  <1> DEFINE x == Handled(c)
             n == Sub(published, x)
  <1>1. /\ x \in SequenceType /\ n \in 1..Capacity /\ 1 \in SequenceType
        /\ take[c].reading
        /\ published \in SequenceType
    BY HandledWindow DEF HandleEvent, IInv, TypeOK, TakeType, SequenceType
  <1>2. /\ published' = published /\ consumers' = consumers
        /\ take' = [take EXCEPT ![c].index = @ + 1]
        /\ take \in [Consumers -> TakeType]
        /\ take[c].first = consumers[c] /\ consumers[c] \in SequenceType
        /\ take[c].index \in 0..(Capacity - 1)
    BY DEF HandleEvent, pubVars, ackVars, IInv, TypeOK, TakeType, ConsumerInv
  <1>3. Handled(c)' = Add(x, 1)
    <2>1. take[c].index \in SequenceType /\ take[c].index + 1 \in SequenceType
      BY <1>2 DEF SequenceType
    <2>2. Handled(c)' = Add(consumers[c], take[c].index + 1)
      BY <1>1, <1>2 DEF Handled, TakeType
    <2>3. x = Add(consumers[c], take[c].index)
      BY <1>1, <1>2 DEF Handled
    <2> QED
      BY <1>1, <1>2, <2>1, <2>2, <2>3, AddAdd
  <1>4. \A d \in Consumers \ {c} : Handled(d)' = Handled(d)
    BY <1>2 DEF Handled
  <1>5. PendingRuns /\ PendingRuns'
    BY PendingAreRuns, PTL
  <1>6. \A d \in Consumers \ {c} : Pending(d)' = Pending(d)
    BY <1>2, <1>4, <1>5 DEF PendingRuns
  <1>7. Sub(published, Add(x, 1)) = n - 1
    BY <1>1, SubAddRight
  <1>8. /\ Pending(c) = Run(x, n)
        /\ Pending(c)' = Run(Add(x, 1), n - 1)
    BY <1>2, <1>3, <1>5, <1>7 DEF PendingRuns
  <1> HIDE DEF x, n
  <1>9. n \in 0..Capacity /\ n > 0
    BY <1>1
  <1>10. /\ Pending(c) # <<>>
         /\ Pending(c)' = SubSeq(Pending(c), 2, Len(Pending(c)))
    <2>1. /\ Len(Run(x, n)) = n /\ Run(x, n) # <<>>
          /\ SubSeq(Run(x, n), 2, n) = Run(Add(x, 1), n - 1)
      BY <1>1, <1>9, RunFacts
    <2> QED
      BY <1>8, <2>1
  <1> QED
    BY <1>2, <1>6, <1>10 DEF Stream!Deliver

\* A publication broadcasts its batch.
LEMMA PublishBroadcasts ==
    ASSUME IInv, IInv', Publish
    PROVE  \E n \in 1..Capacity : Stream!Broadcast(n)
  <1> DEFINE n == call.count
  <1>1. /\ n \in 1..Capacity /\ n \in SequenceType
        /\ published' = Add(published, n)
        /\ consumers' = consumers /\ take' = take
        /\ published \in SequenceType
    BY CallPath DEF Publish, ackVars, consumerVars, IInv, TypeOK, SequenceType
  <1> HIDE DEF n
  <1>2. PendingRuns /\ PendingRuns'
    BY PendingAreRuns, PTL
  <1>3. \A c \in Consumers : Handled(c)' = Handled(c)
    BY <1>1 DEF Handled
  <1>4. Stream!Batch(published, n) = Run(published, n)
    BY <1>1 DEF Stream!Batch, Run, Add, SequenceType
  <1>5. ASSUME NEW c \in Consumers
        PROVE  /\ Len(Pending(c)) + n <= Capacity
               /\ Pending(c)' = Pending(c) \o Run(published, n)
    <2> DEFINE x == Handled(c)
               k == Sub(published, x)
    <2>1. x \in SequenceType /\ k \in 0..Capacity /\ k + n < Wrap
      BY <1>1, HandledWindow
    <2>2. Sub(published', x) = k + n
      BY <1>1, <2>1, SubAddLeft
    <2>3. Sub(published', x) \in 0..Capacity
      <3>1. PendingFit'
        BY PendingAreRuns, PTL
      <3> QED
        BY <1>3, <3>1 DEF PendingFit
    <2>4. Add(x, k) = published
      BY <1>1, <2>1, AddSub
    <2>5. /\ Pending(c) = Run(x, k)
          /\ Pending(c)' = Run(x, k + n)
      BY <1>2, <1>3, <2>2 DEF PendingRuns
    <2> HIDE DEF x, k
    <2> QED
      <3>1. /\ Len(Run(x, k)) = k
            /\ Run(x, k) \o Run(Add(x, k), n) = Run(x, k + n)
        <4>1. x \in SequenceType /\ k \in 0..Capacity
          BY <2>1
        <4>2. n \in 1..Capacity
          BY <1>1
        <4>3. /\ Len(Run(x, k)) = k
              /\ \A m \in 1..Capacity :
                   Run(x, k) \o Run(Add(x, k), m) = Run(x, k + m)
          BY <4>1, RunFacts
        <4> QED
          BY <4>2, <4>3, Zenon
      <3>2. k + n <= Capacity
        BY <1>1, <2>1, <2>2, <2>3
      <3>3. Len(Pending(c)) + n <= Capacity
        BY <2>5, <3>1, <3>2
      <3>4. Pending(c) \o Run(published, n) = Run(x, k + n)
        BY <2>4, <2>5, <3>1
      <3> QED
        BY <2>5, <3>3, <3>4
  <1>6. Stream!Broadcast(n)
    <2>1. published' = (published + n) % Wrap
      BY <1>1 DEF Add
    <2> QED
      BY <1>4, <1>5, <2>1 DEF Stream!Broadcast
  <1> QED
    BY <1>1, <1>6

\* Every other step of a consumer leaves what it has handled where it was.
LEMMA ConsumerStepKeepsHandled ==
    ASSUME IInv, NEW c \in Consumers, ConsumerStep(c), ~HandleEvent(c)
    PROVE  published' = published /\ \A d \in Consumers : Handled(d)' = Handled(d)
  <1>1. /\ consumers \in [Consumers -> SequenceType]
        /\ take \in [Consumers -> TakeType]
        /\ Add(consumers[c], 0) = consumers[c]
    BY AddZero DEF IInv, TypeOK
  <1>2. CASE MakeConsumer(c) \/ DropConsumer(c)
    BY <1>2 DEF MakeConsumer, DropConsumer, Handled, pubVars, ackVars
  <1>3. ASSUME NEW f, NEW a, NEW m, NEW by, f = consumers[c],
               ~take[c].reading,
               take' = [take EXCEPT ![c] = Taking(f, a, m, by)],
               consumers' = consumers
        PROVE  \A d \in Consumers : Handled(d)' = Handled(d)
    <2>1. \A d \in Consumers \ {c} : take'[d] = take[d]
      BY <1>1, <1>3
    <2>2. take'[c] = Taking(f, a, m, by)
      BY <1>1, <1>3
    <2>3. Handled(c)' = consumers[c] /\ Handled(c) = consumers[c]
      BY <1>1, <1>3, <2>2 DEF Handled, Taking, NotReading
    <2> QED
      BY <1>3, <2>1, <2>3 DEF Handled
  <1>4. ASSUME NEW m \in MaxCounts,
               \/ ConsumeIndexed(c, m)
               \/ ConsumeCached(c, m)
               \/ ConsumeReloading(c, m)
        PROVE  published' = published /\ \A d \in Consumers : Handled(d)' = Handled(d)
    <2>1. CASE ConsumeIndexed(c, m)
      <3>1. PICK v : take' = [take EXCEPT ![c] = Taking(consumers[c], v, m, "index")]
        BY <2>1 DEF ConsumeIndexed
      <3> QED
        BY <1>3, <2>1, <3>1 DEF ConsumeIndexed, AcquirePublished, ackVars
    <2>2. CASE ConsumeCached(c, m)
      <3>1. chandle[c].next = consumers[c]
        BY <2>2 DEF ConsumeCached, IInv, ConsumerInv
      <3> QED
        BY <1>3, <2>2, <3>1 DEF ConsumeCached, pubVars, ackVars
    <2>3. CASE ConsumeReloading(c, m)
      <3>1. chandle[c].next = consumers[c]
        BY <2>3 DEF ConsumeReloading, IInv, ConsumerInv
      <3>2. PICK v : take' = [take EXCEPT ![c] =
                                Taking(chandle[c].next, v, m, "handle")]
        BY <2>3 DEF ConsumeReloading
      <3> QED
        BY <1>3, <2>3, <3>1, <3>2 DEF ConsumeReloading, AcquirePublished, ackVars
    <2> QED
      BY <1>4, <2>1, <2>2, <2>3
  <1>5. CASE Release(c)
    <2>1. /\ take[c].reading /\ take[c].index = take[c].count
          /\ consumers' = [consumers EXCEPT ![c] =
                             Add(take[c].first, take[c].count)]
          /\ take' = [take EXCEPT ![c] = NotReading]
          /\ published' = published
      BY <1>5 DEF Release, pubVars
    <2> QED
      BY <1>1, <2>1 DEF Handled, NotReading
  <1> QED
    BY <1>2, <1>4, <1>5 DEF ConsumerStep

\* The disruptor implements the multicast stream, for every ring, sequence
\* range, number of consumers and alternation of paths: every event reaches
\* every consumer once and in order, batches appear whole, and no slot a
\* consumer still has to read is overwritten.
THEOREM DisruptorIsAStream == Spec => ImplementsStream
  <1>1. Init => Stream!StreamInit
    <2> SUFFICES ASSUME Init PROVE Stream!StreamInit
      OBVIOUS
    <2>1. /\ published \in SequenceType
          /\ \A c \in Consumers : consumers[c] = published /\ ~take[c].reading
      BY DEF Init, NotReading
    <2>2. \A c \in Consumers : Sub(published, Handled(c)) = 0
      BY <2>1, SubZero DEF Handled
    <2>3. \A c \in Consumers : Pending(c) = <<>>
      BY <2>2 DEF Pending
    <2> QED
      BY <2>1, <2>3 DEF Stream!StreamInit, SequenceType
  <1>2. ASSUME IInv, IInv', [Next]_vars
        PROVE  [Stream!StreamNext]_(Stream!streamVars)
    <2>1. ASSUME published' = published,
                 \A c \in Consumers : Handled(c)' = Handled(c)
          PROVE  UNCHANGED Stream!streamVars
      BY <1>2, <2>1, SameStream
    <2>2. ASSUME UNCHANGED <<published, consumers, take>>
          PROVE  UNCHANGED Stream!streamVars
      BY <2>1, <2>2 DEF Handled
    <2>3. CASE UNCHANGED vars
      BY <2>2, <2>3 DEF vars, pubVars, ackVars, consumerVars
    <2>4. CASE ProducerStep
      <3>1. CASE Publish
        BY <1>2, <3>1, PublishBroadcasts DEF Stream!StreamNext
      <3>2. CASE ~Publish
        <4>1. UNCHANGED <<published, consumers, take>>
          BY <2>4, <3>2 DEF ProducerStep, TryPublishBatch, CheckBlocker,
                ScanConsumer, FinishRefresh, WriteEvent, MakeProducer,
                DestroyProducer, MoveProducer, AcquireConsumer, pubVars, ackVars,
                consumerVars
        <4> QED
          BY <2>2, <4>1
      <3> QED
        BY <3>1, <3>2
    <2>5. ASSUME NEW c \in Consumers, ConsumerStep(c)
          PROVE  [Stream!StreamNext]_(Stream!streamVars)
      <3>1. CASE HandleEvent(c)
        BY <1>2, <3>1, HandleEventDelivers DEF Stream!StreamNext
      <3>2. CASE ~HandleEvent(c)
        BY <1>2, <2>1, <2>5, <3>2, ConsumerStepKeepsHandled
      <3> QED
        BY <3>1, <3>2
    <2>6. ASSUME NEW c \in Consumers,
                 PublishedPropagates(c) \/ ReleasePropagates(c)
          PROVE  UNCHANGED Stream!streamVars
      BY <2>2, <2>6 DEF PublishedPropagates, ReleasePropagates, consumerVars,
                        pubVars, ackVars
    <2> QED
      BY <1>2, <2>3, <2>4, <2>5, <2>6 DEF Next
  <1> QED
    BY <1>1, <1>2, Invariance, PTL DEF Spec, ImplementsStream, Stream!StreamSpec
==============================================================================
