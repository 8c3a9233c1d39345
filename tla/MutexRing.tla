------------------------------ MODULE MutexRing ------------------------------
(***************************************************************************)
(* mutex_ring of the disruptor's benchmarks/throughput.cpp, between the    *)
(* two threads of benchmark_mutex_ring.  A method holds mutex_ from its    *)
(* first to its last access, so locking, the body up to the size, the      *)
(* change of the size and unlocking are steps.                             *)
(***************************************************************************)
EXTENDS Integers

CONSTANTS RingSize,     \* Capacity
          ValueCount,   \* event_count
          NoValue       \* a value not received yet

\* A ring has a slot.
SizeAssumption == RingSize \in Nat \ {0}

Threads == {"pusher", "popper"}

VARIABLES ring,         \* values_
          read_index, write_index, size,
          mutex,        \* the thread that holds it, or "free"
          pc,           \* per thread: "out", "locked", "sizing"
          register,     \* per thread: size_ as its ++size_ or --size_ loads it
          pushes, pops, \* the loops' counts
          result, sum   \* what try_pop returned last; the popper's checksum

indexVars == <<ring, read_index, write_index, size>>
mutexVars == <<indexVars, mutex, pc, register, pushes, pops, result, sum>>

MutexInit ==
    /\ ring = [s \in 0..(RingSize - 1) |-> 0]
    /\ read_index = 0 /\ write_index = 0 /\ size = 0
    /\ mutex = "free"
    /\ pc = [t \in Threads |-> "out"]
    /\ register = [t \in Threads |-> 0]
    /\ pushes = 0 /\ pops = 0 /\ result = NoValue /\ sum = 0

Working(t) == IF t = "pusher" THEN pushes < ValueCount ELSE pops < ValueCount

\* std::scoped_lock lock{mutex_}
Lock(t) ==
    /\ pc[t] = "out" /\ Working(t)
    /\ mutex = "free"
    /\ mutex' = t
    /\ pc' = [pc EXCEPT ![t] = "locked"]
    /\ UNCHANGED <<indexVars, register, pushes, pops, result, sum>>

\* return false: the scope ends, the loop comes back.
Refuse(t) ==
    /\ pc[t] = "locked"
    /\ size = IF t = "pusher" THEN RingSize ELSE 0
    /\ mutex' = "free"
    /\ pc' = [pc EXCEPT ![t] = "out"]
    /\ UNCHANGED <<indexVars, register, pushes, pops, result, sum>>

StorePushed ==
    /\ pc["pusher"] = "locked" /\ size # RingSize
    /\ ring' = [ring EXCEPT ![write_index] = pushes]
    /\ write_index' = (write_index + 1) % RingSize
    /\ register' = [register EXCEPT !["pusher"] = size]
    /\ pc' = [pc EXCEPT !["pusher"] = "sizing"]
    /\ UNCHANGED <<read_index, size, mutex, pushes, pops, result, sum>>

LoadPopped ==
    /\ pc["popper"] = "locked" /\ size # 0
    /\ result' = ring[read_index]
    /\ read_index' = (read_index + 1) % RingSize
    /\ register' = [register EXCEPT !["popper"] = size]
    /\ pc' = [pc EXCEPT !["popper"] = "sizing"]
    /\ UNCHANGED <<ring, write_index, size, mutex, pushes, pops, sum>>

\* ++size_ or --size_, return true, unlock, and the caller's own count.
Finish(t) ==
    /\ pc[t] = "sizing"
    /\ size' = IF t = "pusher" THEN register[t] + 1 ELSE register[t] - 1
    /\ mutex' = "free"
    /\ pc' = [pc EXCEPT ![t] = "out"]
    /\ IF t = "pusher"
         THEN pushes' = pushes + 1 /\ UNCHANGED <<pops, sum>>
         ELSE pops' = pops + 1 /\ sum' = sum + result /\ UNCHANGED pushes
    /\ UNCHANGED <<ring, read_index, write_index, register, result>>

MutexEnded == pushes = ValueCount /\ pops = ValueCount /\ UNCHANGED mutexVars

MutexNext == \/ \E t \in Threads : Lock(t) \/ Refuse(t) \/ Finish(t)
             \/ StorePushed \/ LoadPopped
             \/ MutexEnded

MutexSpec == MutexInit /\ [][MutexNext]_mutexVars

------------------------------------------------------------------------------
\* What is inside: a value from its store to its load, whatever size_ says yet.
Stored == pushes + IF pc["pusher"] = "sizing" THEN 1 ELSE 0
Loaded == pops + IF pc["popper"] = "sizing" THEN 1 ELSE 0

InTheRing ==
    [i \in 1..(Stored - Loaded) |-> ring[(read_index + i - 1) % RingSize]]

RingFifo == INSTANCE BoundedFifo
              WITH Nothing <- NoValue, Bound <- RingSize,
                   contents <- InTheRing, sent <- Stored, got <- result

\* The mutex ring is a bounded FIFO: full and empty, where both indices are
\* equal, are told apart by a size that no interleaving loses an update of.
RingImplementsFifo == RingFifo!FifoSpec
==============================================================================
