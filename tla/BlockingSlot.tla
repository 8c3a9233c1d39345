----------------------------- MODULE BlockingSlot -----------------------------
(***************************************************************************)
(* blocking_slot of the disruptor's benchmarks/latency.cpp, between the    *)
(* two threads of blocking_latency: one slot, a mutex and two condition    *)
(* variables.  Waiting on a condition variable unlocks and sleeps in one   *)
(* step; a sleeper that is notified, or wakes up for no reason, must take  *)
(* the mutex again and tests its predicate again.                          *)
(***************************************************************************)
EXTENDS Integers

CONSTANTS Total,        \* warmup_count + sample_count
          NoStamp       \* a stamp not received yet

SlotThreads == {"publisher", "consumer"}
Other(t) == IF t = "publisher" THEN "consumer" ELSE "publisher"

VARIABLES full, published_at,   \* full_, published_at_; a stamp is its number
          mutex_,               \* the thread that holds it, or "free"
          waitSet,              \* sleepers: the publisher in consumed_, the
                                \* consumer in available_
          at,                   \* per thread: "out", "lock", "test", "notify"
          count,                \* per thread: turns of its loop
          taken                 \* what consume has copied out last

slotVars == <<full, published_at, mutex_, waitSet, at, count, taken>>

SlotInit ==
    /\ full = FALSE /\ published_at = 0
    /\ mutex_ = "free" /\ waitSet = {}
    /\ at = [t \in SlotThreads |-> "out"]
    /\ count = [t \in SlotThreads |-> 0]
    /\ taken = NoStamp

\* publish or consume is called.
Call(t) ==
    /\ at[t] = "out" /\ count[t] < Total
    /\ at' = [at EXCEPT ![t] = "lock"]
    /\ UNCHANGED <<full, published_at, mutex_, waitSet, count, taken>>

\* Locking, at the start and again when a sleeper has been woken.
LockSlot(t) ==
    /\ at[t] = "lock" /\ t \notin waitSet
    /\ mutex_ = "free"
    /\ mutex_' = t
    /\ at' = [at EXCEPT ![t] = "test"]
    /\ UNCHANGED <<full, published_at, waitSet, count, taken>>

\* The predicate of the wait: !full_ for publish, full_ for consume.
Ready(t) == IF t = "publisher" THEN ~full ELSE full

\* Not ready: unlock and sleep, at once.
Sleep(t) ==
    /\ at[t] = "test" /\ mutex_ = t
    /\ ~Ready(t)
    /\ mutex_' = "free"
    /\ waitSet' = waitSet \cup {t}
    /\ at' = [at EXCEPT ![t] = "lock"]
    /\ UNCHANGED <<full, published_at, count, taken>>

Transfer(t) ==
    /\ at[t] = "test" /\ mutex_ = t
    /\ Ready(t)
    /\ IF t = "publisher"
         THEN full' = TRUE /\ published_at' = count[t] /\ UNCHANGED taken
         ELSE full' = FALSE /\ taken' = published_at /\ UNCHANGED published_at
    /\ at' = [at EXCEPT ![t] = "notify"]
    /\ UNCHANGED <<mutex_, waitSet, count>>

\* notify_one of the condition variable the other thread may sleep in.
Notified(t) == waitSet \ {Other(t)}

\* notify_one, and the lock goes out of scope.
Notify(t) ==
    /\ at[t] = "notify"
    /\ waitSet' = Notified(t)
    /\ mutex_' = "free"
    /\ count' = [count EXCEPT ![t] = @ + 1]
    /\ at' = [at EXCEPT ![t] = "out"]
    /\ UNCHANGED <<full, published_at, taken>>

SpuriousWakeup(t) ==
    /\ t \in waitSet
    /\ waitSet' = waitSet \ {t}
    /\ UNCHANGED <<full, published_at, mutex_, at, count, taken>>

SlotEnded == (\A t \in SlotThreads : count[t] = Total) /\ UNCHANGED slotVars

SlotNext ==
    \/ \E t \in SlotThreads : \/ Call(t) \/ LockSlot(t) \/ Sleep(t)
                               \/ Transfer(t) \/ Notify(t) \/ SpuriousWakeup(t)
    \/ SlotEnded

SlotSpec == SlotInit /\ [][SlotNext]_slotVars

------------------------------------------------------------------------------
\* The stamp inside, if any.
InTheSlot == IF full THEN <<published_at>> ELSE <<>>

Sent == count["publisher"] + IF at["publisher"] = "notify" THEN 1 ELSE 0

SlotFifo == INSTANCE BoundedFifo
              WITH Nothing <- NoStamp, Bound <- 1, contents <- InTheSlot,
                   sent <- Sent, got <- taken

\* The slot is a FIFO of one: no stamp is overwritten before it is taken and
\* none is taken twice, over any order of locking and any wake-up for no reason.
SlotImplementsFifo == SlotFifo!FifoSpec

\* No wake-up is lost: a thread sleeps only while its predicate is false, or the
\* other one is about to notify it.
NoLostWakeup ==
    \A t \in waitSet : ~Ready(t) \/ at[Other(t)] = "notify"
==============================================================================
