------------------------------ MODULE Disruptor ------------------------------
(***************************************************************************)
(* lls::concurrency::single_producer_disruptor<Event, Capacity,            *)
(* ConsumerCount>: a preallocated ring that one producer thread fills and  *)
(* ConsumerCount consumer threads each drain completely.                   *)
(*                                                                         *)
(* Every shared-memory access another thread can observe is a step of its  *)
(* own.  The callers follow the documented contract (one live publication  *)
(* path, one live consumption path per index) and are otherwise free: any  *)
(* batch size of Counts, any limit of MaxCounts, direct or handle calls in *)
(* any alternation, handles made, moved and destroyed at will.             *)
(*                                                                         *)
(* Sequences are sequence_type values, 0..Wrap-1 with unsigned arithmetic. *)
(* The payload a writer stores in an event is the event's own sequence, so *)
(* reading a wrong or a half-recycled slot shows.                          *)
(*                                                                         *)
(* Memory order.  An atomic load may return any store that coherence still *)
(* allows: pubView[c] and ackView[c] are the values of published_ that     *)
(* consumer c, and of consumers_[c] that the producer, may still read.     *)
(* pubAcquired[c] and ackAcquired[c] are the newest of those values read   *)
(* with memory_order_acquire: what happened before the matching release    *)
(* store happened before the reader's next step.                           *)
(***************************************************************************)
EXTENDS Integers

CONSTANTS
    Wrap,               \* number of sequence_type values, 2^64 in the code
    Capacity,           \* ring slots
    ConsumerCount,
    Owner,              \* the disruptor itself, as a publication path
    Handles,            \* producer_handle objects
    Blank,              \* a value-initialised Event
    InitialPositions,   \* constructor arguments
    Counts,             \* batch sizes callers ask for
    MaxCounts           \* consumption limits callers pass

SequenceType == 0..(Wrap - 1)
Slots        == 0..(Capacity - 1)
Consumers    == 0..(ConsumerCount - 1)
Paths        == {Owner} \cup Handles

ASSUME CapacityAssumption == Capacity \in Nat \ {0}
ASSUME WrapAssumption ==
    /\ Wrap \in Nat
    /\ Wrap % Capacity = 0
    /\ 2 * Capacity < Wrap
ASSUME ConsumersAssumption == ConsumerCount \in Nat \ {0}
ASSUME CallersAssumption ==
    /\ Owner \notin Handles
    /\ Blank \notin SequenceType
    /\ InitialPositions \subseteq SequenceType
    /\ Counts \subseteq Nat
    /\ MaxCounts \subseteq Nat

VARIABLES
    published,       \* published_: end of the visible stream
    consumers,       \* consumers_[c]: end of what c has released
    events,          \* storage_->events
    cursor,          \* per path: next_to_publish_, available_before_rescan_,
                     \*           blocking_consumer_
    object,          \* per handle: "none", "owning", or "moved" (owner_ null)
    producer_state,  \* producer_state_ of a debug build
    call,            \* the try_publish_batch call in progress
    chandle,         \* per consumer: its consumer_handle
    take,            \* per consumer: the consume_available call in progress
    pubView, pubAcquired,
    ackView, ackAcquired

producerVars == <<cursor, object, producer_state, call>>
consumerVars == <<chandle, take>>
pubVars      == <<published, pubView, pubAcquired>>
ackVars      == <<consumers, ackView, ackAcquired>>
vars == <<events, producerVars, consumerVars, pubVars, ackVars>>

------------------------------------------------------------------------------
(* sequence_type arithmetic and slots.                                     *)

Add(x, n) == (x + n) % Wrap
Sub(x, y) == (x - y) % Wrap

\* event_at: one mask per event (direct publication, indexed consumption).
EventAt(sequence) == sequence % Capacity

\* Mutant: the second span is not rebased to the start of the array.
SpanNotRebased(first, count, index) ==
    LET first_index == first % Capacity
    IN  IF index < Capacity - first_index THEN first_index + index ELSE index

\* Handle paths walk the batch as two contiguous spans of the array.
SpanAt(first, count, index) ==
    LET first_index == first % Capacity
        contiguous_count == IF count < Capacity - first_index
                              THEN count ELSE Capacity - first_index
    IN  IF index < contiguous_count THEN first_index + index
                                    ELSE index - contiguous_count

------------------------------------------------------------------------------
(* Loads.  Reading v makes every older store unreadable; the load is an    *)
(* acquire, so v's release is also synchronised with.                      *)

NotOlder(view, latest, v) == {u \in view : Sub(latest, u) <= Sub(latest, v)}

\* Mutant: published_ loaded with memory_order_relaxed.
RelaxedPublished(c, v) ==
    /\ v \in pubView[c]
    /\ pubView' = [pubView EXCEPT ![c] = NotOlder(@, published, v)]
    /\ UNCHANGED <<published, pubAcquired>>

AcquirePublished(c, v) ==
    /\ v \in pubView[c]
    /\ pubView' = [pubView EXCEPT ![c] = NotOlder(@, published, v)]
    /\ pubAcquired' = [pubAcquired EXCEPT ![c] = v]
    /\ UNCHANGED published

\* Mutant: consumers_[c] loaded with memory_order_relaxed.
RelaxedConsumer(c, v) ==
    /\ v \in ackView[c]
    /\ ackView' = [ackView EXCEPT ![c] = NotOlder(@, consumers[c], v)]
    /\ UNCHANGED <<consumers, ackAcquired>>

AcquireConsumer(c, v) ==
    /\ v \in ackView[c]
    /\ ackView' = [ackView EXCEPT ![c] = NotOlder(@, consumers[c], v)]
    /\ ackAcquired' = [ackAcquired EXCEPT ![c] = v]
    /\ UNCHANGED consumers

------------------------------------------------------------------------------
\* Members of an object that does not exist, locals of a call not in progress.
NoCursor == [next |-> 0, available |-> 0, blocker |-> 0]

NoHandle == [live |-> FALSE, next |-> 0, cached |-> 0]

Calling(pc, p, count) == [pc |-> pc, path |-> p, count |-> count,
                          index |-> 0, lag |-> 0, slowest |-> 0]

Idle == Calling("idle", Owner, 0)

NotReading == [reading |-> FALSE, by |-> "index",
               first |-> 0, count |-> 0, index |-> 0]

Init ==
    \E initial_position \in InitialPositions :
        /\ published = initial_position
        /\ consumers = [c \in Consumers |-> initial_position]
        /\ events = [s \in Slots |-> Blank]
        /\ cursor = [p \in Paths |->
                        IF p = Owner THEN [next |-> initial_position,
                                           available |-> Capacity,
                                           blocker |-> 0]
                                     ELSE NoCursor]
        /\ object = [h \in Handles |-> "none"]
        /\ producer_state = "idle"
        /\ call = Idle
        /\ chandle = [c \in Consumers |-> NoHandle]
        /\ take = [c \in Consumers |-> NotReading]
        /\ pubView = [c \in Consumers |-> {initial_position}]
        /\ ackView = [c \in Consumers |-> {initial_position}]
        /\ pubAcquired = [c \in Consumers |-> initial_position]
        /\ ackAcquired = [c \in Consumers |-> initial_position]

------------------------------------------------------------------------------
(* The producer.                                                           *)

\* The contract: the disruptor publishes directly only while no handle owns
\* the producer state, and a moved-from handle publishes nothing.
Owns(p) == IF p = Owner THEN \A h \in Handles : object[h] # "owning"
                        ELSE object[p] = "owning"

Publishing(p) == IF p = Owner THEN "direct_publishing" ELSE "handle_publishing"

\* Mutant: a publication always leaves the debug state idle.
RestingIdle(p) == "idle"

Resting(p)    == IF p = Owner THEN "idle" ELSE "handle"

\* Mutant: no rejection of batches larger than the ring.
PublishableAnyCount(count) == count # 0

\* Counts that get past the two early returns.
Publishable(count) == count # 0 /\ count <= Capacity

\* try_publish_batch up to the capacity test: the cached capacity suffices, or
\* refresh_available_capacity is entered.
TryPublishBatch(p, count) ==
    /\ call.pc = "idle"
    /\ Owns(p)
    /\ Publishable(count)
    /\ IF count > cursor[p].available
         THEN /\ call' = Calling("blocker", p, count)
              /\ UNCHANGED producer_state
         ELSE /\ call' = Calling("write", p, count)
              /\ producer_state' = Publishing(p)
    /\ UNCHANGED <<events, cursor, object, consumerVars, pubVars, ackVars>>

\* Mutant: the scan assumes that the blocking consumer is consumer 0.
SkipFirst(index) == IF index = 0 THEN 1 ELSE index

\* The loop of refresh_available_capacity passes over the blocking consumer.
SkipBlocker(index) ==
    IF index = cursor[call.path].blocker THEN index + 1 ELSE index

Lag(v) == Sub(cursor[call.path].next, v)
MaximumLag == Capacity - call.count

\* refresh_available_capacity looks first at the consumer that blocked the
\* previous attempt and rejects on its account alone.
CheckBlocker ==
    LET b == cursor[call.path].blocker IN
    /\ call.pc = "blocker"
    /\ \E v \in ackView[b] :
        /\ AcquireConsumer(b, v)
        /\ IF Lag(v) > MaximumLag
             THEN call' = Idle
             ELSE call' = [call EXCEPT !.pc = "scan", !.lag = Lag(v),
                                       !.slowest = b,
                                       !.index = SkipBlocker(0)]
    /\ UNCHANGED <<events, cursor, object, producer_state, consumerVars, pubVars>>

\* One more consumer: too far behind, it becomes the blocker and the batch is
\* rejected; otherwise the greatest lag is tracked.
ScanConsumer ==
    /\ call.pc = "scan"
    /\ call.index < ConsumerCount
    /\ \E v \in ackView[call.index] :
        /\ AcquireConsumer(call.index, v)
        /\ IF Lag(v) > MaximumLag
             THEN /\ cursor' = [cursor EXCEPT ![call.path].blocker = call.index]
                  /\ call' = Idle
             ELSE /\ UNCHANGED cursor
                  /\ call' = [call EXCEPT
                       !.lag = IF Lag(v) > @ THEN Lag(v) ELSE @,
                       !.slowest = IF Lag(v) > call.lag THEN call.index ELSE @,
                       !.index = SkipBlocker(@ + 1)]
    /\ UNCHANGED <<events, object, producer_state, consumerVars, pubVars>>

\* Every consumer was near enough: cache what the slowest one leaves, remember
\* it, and start writing.
FinishRefresh ==
    /\ call.pc = "scan"
    /\ call.index = ConsumerCount
    /\ cursor' = [cursor EXCEPT ![call.path] =
                    [next |-> @.next, available |-> Capacity - call.lag,
                     blocker |-> call.slowest]]
    /\ call' = [call EXCEPT !.pc = "write", !.index = 0]
    /\ producer_state' = Publishing(call.path)
    /\ UNCHANGED <<events, object, consumerVars, pubVars, ackVars>>

PublishSlot(index) ==
    IF call.path = Owner
      THEN EventAt(Add(cursor[Owner].next, index))
      ELSE SpanAt(cursor[call.path].next, call.count, index)

\* One writer invocation.
WriteEvent ==
    /\ call.pc = "write"
    /\ call.index < call.count
    /\ events' = [events EXCEPT ![PublishSlot(call.index)] =
                                    Add(cursor[call.path].next, call.index)]
    /\ call' = [call EXCEPT !.index = @ + 1]
    /\ UNCHANGED <<cursor, object, producer_state, consumerVars, pubVars, ackVars>>

\* Mutant: the new position is never stored to published_.
PublishWithoutStore ==
    /\ call.pc = "write"
    /\ call.index = call.count
    /\ cursor' = [cursor EXCEPT ![call.path].next = Add(@, call.count),
                                ![call.path].available = @ - call.count]
    /\ producer_state' = Resting(call.path)
    /\ call' = Idle
    /\ UNCHANGED <<events, object, consumerVars, pubVars, ackVars>>

\* All writers have run: advance the private cursor, consume the cached
\* capacity, release-store published_, leave the publishing state.
Publish ==
    LET p == call.path
        next == Add(cursor[p].next, call.count)
    IN  /\ call.pc = "write"
        /\ call.index = call.count
        /\ cursor' = [cursor EXCEPT ![p].next = next,
                                    ![p].available = @ - call.count]
        /\ published' = next
        /\ pubView' = [c \in Consumers |-> pubView[c] \cup {next}]
        /\ producer_state' = Resting(p)
        /\ call' = Idle
        /\ UNCHANGED <<events, object, consumerVars, pubAcquired, ackVars>>

\* make_producer copies the disruptor's cursor into a new handle.
MakeProducer(h) ==
    /\ call.pc = "idle"
    /\ Owns(Owner)
    /\ object[h] = "none"
    /\ object' = [object EXCEPT ![h] = "owning"]
    /\ cursor' = [cursor EXCEPT ![h] = cursor[Owner]]
    /\ producer_state' = "handle"
    /\ UNCHANGED <<events, call, consumerVars, pubVars, ackVars>>

\* Mutant: the move constructor copies owner_ instead of exchanging it.
MoveKeepsOwner(h, g) ==
    /\ call.pc = "idle"
    /\ object[h] = "owning"
    /\ object[g] = "none"
    /\ object' = [object EXCEPT ![g] = "owning"]
    /\ cursor' = [cursor EXCEPT ![g] = cursor[h]]
    /\ UNCHANGED <<events, producer_state, call, consumerVars, pubVars, ackVars>>

\* The move constructor copies the cursor and takes owner_ away from the source.
MoveProducer(h, g) ==
    /\ call.pc = "idle"
    /\ object[h] = "owning"
    /\ object[g] = "none"
    /\ object' = [object EXCEPT ![h] = "moved", ![g] = "owning"]
    /\ cursor' = [cursor EXCEPT ![g] = cursor[h]]
    /\ UNCHANGED <<events, producer_state, call, consumerVars, pubVars, ackVars>>

\* Mutant: a moved-from handle writes its stale cursor back as well.
DestroyAlwaysSynchronizes(h) ==
    /\ call.pc = "idle"
    /\ object[h] # "none"
    /\ object' = [object EXCEPT ![h] = "none"]
    /\ cursor' = [cursor EXCEPT ![Owner] = cursor[h], ![h] = NoCursor]
    /\ producer_state' = IF object[h] = "owning" THEN "idle" ELSE producer_state
    /\ UNCHANGED <<events, call, consumerVars, pubVars, ackVars>>

\* The destructor: synchronize_owner_state, which a moved-from handle skips.
DestroyProducer(h) ==
    /\ call.pc = "idle"
    /\ object[h] # "none"
    /\ object' = [object EXCEPT ![h] = "none"]
    /\ IF object[h] = "owning"
         THEN /\ cursor' = [cursor EXCEPT ![Owner] = cursor[h],
                                          ![h] = NoCursor]
              /\ producer_state' = "idle"
         ELSE /\ cursor' = [cursor EXCEPT ![h] = NoCursor]
              /\ UNCHANGED producer_state
    /\ UNCHANGED <<events, call, consumerVars, pubVars, ackVars>>

------------------------------------------------------------------------------
(* The consumers.  Consumer c's thread is the only one that stores to      *)
(* consumers[c], so it always reads its own latest value.                  *)

MakeConsumer(c) ==
    /\ ~take[c].reading
    /\ ~chandle[c].live
    /\ chandle' = [chandle EXCEPT ![c] = [live |-> TRUE, next |-> consumers[c],
                                          cached |-> consumers[c]]]
    /\ UNCHANGED <<events, producerVars, take, pubVars, ackVars>>

\* Dropping a consumer handle writes nothing back: consumers_[c] is current.
DropConsumer(c) ==
    /\ ~take[c].reading
    /\ chandle[c].live
    /\ chandle' = [chandle EXCEPT ![c] = NoHandle]
    /\ UNCHANGED <<events, producerVars, take, pubVars, ackVars>>

\* The call hands over min(available, max_count) events, or returns 0.
Taking(first, available, max_count, by) ==
    LET available_count == Sub(available, first) IN
    IF available_count = 0 THEN NotReading
    ELSE [reading |-> TRUE, by |-> by, first |-> first,
          count |-> IF available_count < max_count THEN available_count
                                                   ELSE max_count,
          index |-> 0]

\* disruptor.consume_available(c, max_count, handler)
ConsumeIndexed(c, max_count) ==
    /\ ~take[c].reading
    /\ ~chandle[c].live
    /\ max_count # 0
    /\ \E v \in pubView[c] :
        /\ AcquirePublished(c, v)
        /\ take' = [take EXCEPT ![c] = Taking(consumers[c], v, max_count, "index")]
    /\ UNCHANGED <<events, producerVars, chandle, ackVars>>

\* handle.consume_available(max_count, handler) while the acquired range still
\* holds events: published_ is not read.
ConsumeCached(c, max_count) ==
    /\ ~take[c].reading
    /\ chandle[c].live
    /\ max_count # 0
    /\ chandle[c].cached # chandle[c].next
    /\ take' = [take EXCEPT ![c] = Taking(chandle[c].next, chandle[c].cached,
                                       max_count, "handle")]
    /\ UNCHANGED <<events, producerVars, chandle, pubVars, ackVars>>

\* handle.consume_available with the acquired range used up.
ConsumeReloading(c, max_count) ==
    /\ ~take[c].reading
    /\ chandle[c].live
    /\ max_count # 0
    /\ chandle[c].cached = chandle[c].next
    /\ \E v \in pubView[c] :
        /\ AcquirePublished(c, v)
        /\ chandle' = [chandle EXCEPT ![c].cached = v]
        /\ take' = [take EXCEPT ![c] = Taking(chandle[c].next, v, max_count, "handle")]
    /\ UNCHANGED <<events, producerVars, ackVars>>

\* The slot that holds the event the handler is given next.
ConsumeSlot(c) ==
    IF take[c].by = "handle"
      THEN SpanAt(take[c].first, take[c].count, take[c].index)
      ELSE EventAt(Add(take[c].first, take[c].index))

\* One handler invocation.
HandleEvent(c) ==
    /\ take[c].reading
    /\ take[c].index < take[c].count
    /\ take' = [take EXCEPT ![c].index = @ + 1]
    /\ UNCHANGED <<events, producerVars, chandle, pubVars, ackVars>>

\* Mutant: the handle's own position is not advanced.
ReleaseKeepsNext(c) ==
    LET next == Add(take[c].first, take[c].count) IN
    /\ take[c].reading
    /\ take[c].index = take[c].count
    /\ consumers' = [consumers EXCEPT ![c] = next]
    /\ ackView' = [ackView EXCEPT ![c] = @ \cup {next}]
    /\ take' = [take EXCEPT ![c] = NotReading]
    /\ UNCHANGED <<events, producerVars, chandle, pubVars, ackAcquired>>

\* Mutant: the handle advances but consumers_[c] is never stored.
ReleaseWithoutStore(c) ==
    /\ take[c].reading
    /\ take[c].index = take[c].count
    /\ chandle' = [chandle EXCEPT ![c].next = Add(take[c].first, take[c].count)]
    /\ take' = [take EXCEPT ![c] = NotReading]
    /\ UNCHANGED <<events, producerVars, pubVars, ackVars>>

\* The whole batch is handled: advance the handle, release-store consumers_[c].
Release(c) ==
    LET next == Add(take[c].first, take[c].count) IN
    /\ take[c].reading
    /\ take[c].index = take[c].count
    /\ consumers' = [consumers EXCEPT ![c] = next]
    /\ ackView' = [ackView EXCEPT ![c] = @ \cup {next}]
    /\ chandle' = IF take[c].by = "handle"
                    THEN [chandle EXCEPT ![c].next = next] ELSE chandle
    /\ take' = [take EXCEPT ![c] = NotReading]
    /\ UNCHANGED <<events, producerVars, pubVars, ackAcquired>>

------------------------------------------------------------------------------
(* Stores reach the other threads in finite time: older values eventually  *)
(* stop being readable.                                                    *)

PublishedPropagates(c) ==
    /\ pubView[c] # {published}
    /\ pubView' = [pubView EXCEPT ![c] = {published}]
    /\ UNCHANGED <<events, producerVars, consumerVars, ackVars, published,
                   pubAcquired>>

ReleasePropagates(c) ==
    /\ ackView[c] # {consumers[c]}
    /\ ackView' = [ackView EXCEPT ![c] = {consumers[c]}]
    /\ UNCHANGED <<events, producerVars, consumerVars, pubVars, consumers,
                   ackAcquired>>

------------------------------------------------------------------------------
ProducerStep ==
    \/ \E p \in Paths, count \in Counts : TryPublishBatch(p, count)
    \/ CheckBlocker
    \/ ScanConsumer
    \/ FinishRefresh
    \/ WriteEvent
    \/ Publish
    \/ \E h \in Handles : MakeProducer(h) \/ DestroyProducer(h)
    \/ \E h, g \in Handles : MoveProducer(h, g)

ConsumerStep(c) ==
    \/ MakeConsumer(c)
    \/ DropConsumer(c)
    \/ \E max_count \in MaxCounts :
          \/ ConsumeIndexed(c, max_count)
          \/ ConsumeCached(c, max_count)
          \/ ConsumeReloading(c, max_count)
    \/ HandleEvent(c)
    \/ Release(c)

Next ==
    \/ ProducerStep
    \/ \E c \in Consumers : \/ ConsumerStep(c)
                            \/ PublishedPropagates(c)
                            \/ ReleasePropagates(c)

Spec == Init /\ [][Next]_vars
------------------------------------------------------------------------------
(* Properties.                                                             *)

CursorType == [next : SequenceType, available : 0..Capacity,
               blocker : Consumers]

CallType == [pc : {"idle", "blocker", "scan", "write"}, path : Paths,
             count : 0..Capacity, index : 0..(Capacity + ConsumerCount),
             lag : 0..Capacity, slowest : Consumers]

HandleType == [live : BOOLEAN, next : SequenceType, cached : SequenceType]

TakeType == [reading : BOOLEAN, by : {"index", "handle"}, first : SequenceType,
             count : 0..Capacity, index : 0..Capacity]

\* The members and locals keep the ranges the code's casts and subtractions
\* assume: no count, lag or capacity goes below zero or beyond the ring.
TypeOK ==
    /\ published \in SequenceType
    /\ consumers \in [Consumers -> SequenceType]
    /\ events \in [Slots -> SequenceType \cup {Blank}]
    /\ cursor \in [Paths -> CursorType]
    /\ object \in [Handles -> {"none", "owning", "moved"}]
    /\ producer_state \in {"idle", "handle", "handle_publishing",
                           "direct_publishing"}
    /\ call \in CallType
    /\ chandle \in [Consumers -> HandleType]
    /\ take \in [Consumers -> TakeType]
    /\ pubView \in [Consumers -> SUBSET SequenceType]
    /\ ackView \in [Consumers -> SUBSET SequenceType]
    /\ pubAcquired \in [Consumers -> SequenceType]
    /\ ackAcquired \in [Consumers -> SequenceType]

\* Whenever the producer is writing a batch, then for every event still to be
\* written and every consumer it has acquired the release of the event whose
\* slot it overwrites: the plain store in the writer callback never races with
\* a handler's read (try_publish_batch, refresh_available_capacity).
NoWriteRace ==
    call.pc = "write" =>
        \A c \in Consumers, i \in call.index..(call.count - 1) :
            Sub(Add(cursor[call.path].next, i), ackAcquired[c]) < Capacity

\* Every event a consumer is still to hand over lies before the publication
\* boundary it has acquired, at most Capacity behind it: the handler's read
\* never races with the writer (consume_available of handle and disruptor).
NoReadRace ==
    \A c \in Consumers :
        take[c].reading =>
            \A i \in take[c].index..(take[c].count - 1) :
                Sub(pubAcquired[c], Add(take[c].first, i)) \in 1..Capacity

\* The event a handler is given is the one published under the sequence it is
\* given, whichever way (mask or two spans) each side computed the slot.
HandlerGetsItsEvent ==
    \A c \in Consumers :
        take[c].reading /\ take[c].index < take[c].count =>
            events[ConsumeSlot(c)] = Add(take[c].first, take[c].index)

\* The path that owns the producer state continues exactly where the visible
\* stream ends, and its cached capacity never promises a slot that some
\* consumer is not known to have released, across direct calls, handles made,
\* moved and destroyed (available_before_rescan_, synchronize_owner_state).
CapacityCacheSound ==
    \A p \in Paths :
        Owns(p) =>
            /\ cursor[p].next = published
            /\ \A c \in Consumers :
                 Sub(cursor[p].next, ackAcquired[c]) + cursor[p].available
                    <= Capacity

\* A debug build's producer_state_ says who owns publication and whether a
\* writer is running, so callers that keep the contract never trip an assert.
DebugStateTracksOwnership ==
    /\ call.pc # "idle" => Owns(call.path)
    /\ producer_state =
         IF call.pc = "write" THEN Publishing(call.path)
         ELSE IF Owns(Owner) THEN "idle" ELSE "handle"

\* No consumer's released position ever moves back or past what is published,
\* and what is published never moves back or more than Capacity past what the
\* slowest consumer has released, modulo the sequence range.
PositionsAdvance ==
    [][/\ \A c \in Consumers :
            Sub(consumers'[c], consumers[c]) <= Sub(published, consumers[c])
       /\ \A c \in Consumers :
            /\ Sub(published', consumers[c]) <= Capacity
            /\ Sub(published, consumers[c]) <= Sub(published', consumers[c])
      ]_vars

\* Refinement.  What consumer c has not handled yet is what the slots ahead of
\* it hold, so any write into them that is not a publication would show.
Handled(c) == IF take[c].reading THEN Add(take[c].first, take[c].index)
                                 ELSE consumers[c]

Pending(c) == [i \in 1..Sub(published, Handled(c)) |->
                 events[EventAt(Add(Handled(c), i - 1))]]

Stream == INSTANCE MulticastStream
            WITH tail <- published, pending <- [c \in Consumers |-> Pending(c)]

\* The disruptor implements the multicast stream: every event reaches every
\* consumer once and in order, batches appear whole, nothing is overwritten.
ImplementsStream == Stream!StreamSpec
==============================================================================
