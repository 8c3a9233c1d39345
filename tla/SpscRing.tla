------------------------------- MODULE SpscRing -------------------------------
(***************************************************************************)
(* spsc_ring of the disruptor's benchmarks/throughput.cpp, between the two *)
(* threads of benchmark_spsc_ring: one pushes 0 .. EventCount - 1, the     *)
(* other pops until it has counted EventCount values.                      *)
(*                                                                         *)
(* Memory order as in module Disruptor: readView and writeView are the     *)
(* values of read_ and write_ that coherence still lets the other thread   *)
(* load, readAcquired and writeAcquired the newest it has acquired.        *)
(***************************************************************************)
EXTENDS Integers

CONSTANTS Wrap,         \* number of std::uint64_t values
          Capacity,
          EventCount,
          Nothing       \* a value not received yet

ASSUME RingAssumption ==
    /\ Capacity \in Nat \ {0} /\ Wrap \in Nat
    /\ Wrap % Capacity = 0 /\ Capacity + 1 < Wrap
    /\ EventCount \in Nat
    /\ Nothing \notin Nat

Slots    == 0..(Capacity - 1)
Counters == 0..(Wrap - 1)

VARIABLES values, read, write,      \* values_, read_, write_
          readView, readAcquired,   \* the pusher's knowledge of read_
          writeView, writeAcquired, \* the popper's knowledge of write_
          pusher, pushed,           \* where try_push is; values pushed
          popper, popped, value,    \* where try_pop is; values popped; the last
          checksum

pushVars == <<pusher, pushed>>
popVars  == <<popper, popped, value, checksum>>
ringVars == <<values, read, write, readView, readAcquired, writeView, writeAcquired>>
vars     == <<ringVars, pushVars, popVars>>

Add(x, n) == (x + n) % Wrap
Sub(x, y) == (x - y) % Wrap

Init ==
    /\ values = [s \in Slots |-> 0]
    /\ read = 0 /\ readView = {0} /\ readAcquired = 0
    /\ write = 0 /\ writeView = {0} /\ writeAcquired = 0
    /\ pusher = "out" /\ pushed = 0
    /\ popper = "out" /\ popped = 0 /\ value = Nothing /\ checksum = 0

\* What stays readable once v has been read, latest being the newest store.
NotOlder(view, latest, v) == {u \in view : Sub(latest, u) <= Sub(latest, v)}

------------------------------------------------------------------------------
(* try_push.                                                               *)

\* Mutant: one value more than there are slots.
FullTooLate(next, v) == Sub(next, v) > Capacity + 1

Full(next, v) == Sub(next, v) > Capacity

\* Mutant: read_ loaded with memory_order_relaxed.
RelaxedRead(v) ==
    /\ v \in readView
    /\ readView' = NotOlder(readView, read, v)
    /\ UNCHANGED readAcquired

AcquireRead(v) ==
    /\ v \in readView
    /\ readView' = NotOlder(readView, read, v)
    /\ readAcquired' = v

\* The loads and the test; FALSE is returned and the loop comes back here.
TryPush ==
    /\ pusher = "out" /\ pushed < EventCount
    /\ \E v \in readView :
        /\ AcquireRead(v)
        /\ pusher' = IF Full(Add(write, 1), v) THEN "out" ELSE "store"
    /\ UNCHANGED <<values, read, write, writeView, writeAcquired, pushed, popVars>>

StoreValue ==
    /\ pusher = "store"
    /\ values' = [values EXCEPT ![write % Capacity] = pushed]
    /\ pusher' = "release"
    /\ UNCHANGED <<read, write, readView, readAcquired, writeView, writeAcquired,
                   pushed, popVars>>

ReleaseWrite ==
    /\ pusher = "release"
    /\ write' = Add(write, 1)
    /\ writeView' = writeView \cup {write'}
    /\ pushed' = pushed + 1
    /\ pusher' = "out"
    /\ UNCHANGED <<values, read, readView, readAcquired, writeAcquired, popVars>>

------------------------------------------------------------------------------
(* try_pop.                                                                *)

\* Mutant: write_ loaded with memory_order_relaxed.
RelaxedWrite(v) ==
    /\ v \in writeView
    /\ writeView' = NotOlder(writeView, write, v)
    /\ UNCHANGED writeAcquired

AcquireWrite(v) ==
    /\ v \in writeView
    /\ writeView' = NotOlder(writeView, write, v)
    /\ writeAcquired' = v

TryPop ==
    /\ popper = "out" /\ popped < EventCount
    /\ \E v \in writeView :
        /\ AcquireWrite(v)
        /\ popper' = IF read = v THEN "out" ELSE "load"
    /\ UNCHANGED <<values, read, write, readView, readAcquired, pushVars,
                   popped, value, checksum>>

LoadValue ==
    /\ popper = "load"
    /\ value' = values[read % Capacity]
    /\ popper' = "release"
    /\ UNCHANGED <<ringVars, pushVars, popped, checksum>>

\* Mutant: the position is advanced in a register only.
NeverReleased ==
    /\ popper = "release"
    /\ popped' = popped + 1
    /\ checksum' = checksum + value
    /\ popper' = "out"
    /\ UNCHANGED <<ringVars, pushVars, value>>

ReleaseRead ==
    /\ popper = "release"
    /\ read' = Add(read, 1)
    /\ readView' = readView \cup {read'}
    /\ popped' = popped + 1
    /\ checksum' = checksum + value
    /\ popper' = "out"
    /\ UNCHANGED <<values, write, readAcquired, writeView, writeAcquired,
                   pushVars, value>>

------------------------------------------------------------------------------
\* Stores become visible in finite time.
Memory ==
    /\ readView' = {read} /\ writeView' = {write}
    /\ UNCHANGED <<values, read, write, readAcquired, writeAcquired, pushVars, popVars>>

\* consumer_thread.join() has returned.
Ended == pushed = EventCount /\ popped = EventCount /\ UNCHANGED vars

PushThread == TryPush \/ StoreValue \/ ReleaseWrite
PopThread  == TryPop \/ LoadValue \/ ReleaseRead

Next == PushThread \/ PopThread \/ Memory \/ Ended

Spec == /\ Init /\ [][Next]_vars
        /\ WF_vars(PushThread) /\ WF_vars(PopThread) /\ WF_vars(Memory)

------------------------------------------------------------------------------
\* The plain accesses to values_ do not race: a slot is stored to only when the
\* pusher has acquired the release of what it held, and loaded only when the
\* popper has acquired the release of its value.
NoSlotRace ==
    /\ pusher = "store" => Sub(write, readAcquired) < Capacity
    /\ popper = "load" => Sub(writeAcquired, read) \in 1..Capacity

\* The values that are inside, read out of the slots: a value is taken out when
\* try_pop loads it, before its slot is released.
Taken == IF popper = "release" THEN Add(read, 1) ELSE read

Inside == [i \in 1..Sub(write, Taken) |-> values[Add(Taken, i - 1) % Capacity]]

Fifo == INSTANCE BoundedFifo
          WITH Bound <- Capacity, contents <- Inside, sent <- pushed, got <- value

\* The ring is a bounded FIFO, over any rollover of its positions.
ImplementsFifo == Fifo!FifoSpec

\* The popping thread has summed every value before popped once.
ChecksumIsExact == 2 * checksum = popped * (popped - 1)

\* Both loops are done, and the checksum is the one main expects.
Done == popped = EventCount /\ ChecksumIsExact

\* The comparison's numbers are of completed work: both loops end, and the
\* popping thread has summed every value once.
EndsWithChecksum == <>Done
==============================================================================
