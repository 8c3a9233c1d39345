------------------------ MODULE BenchmarkQueuesProofs ------------------------
(***************************************************************************)
(* The three queues that the disruptor is measured against are bounded     *)
(* FIFOs: spsc_ring, which has no race on a slot under the memory order it *)
(* asks for, mutex_ring and blocking_slot, which loses no wake-up, for every *)
(* capacity, width of a position and number of values.                     *)
(***************************************************************************)
EXTENDS SpscRing, MutexRing, BlockingSlot, Sequences, TLAPS

------------------------------------------------------------------------------
(* The mutex ring of throughput.cpp.                                       *)

Indices == 0..(RingSize - 1)

\* An index that has gone round at most once.
Round(k) == IF k < RingSize THEN k ELSE k - RingSize

\* Up to one lap, the remainder is a comparison and a subtraction.
LEMMA RemainderIsRound ==
    ASSUME SizeAssumption, NEW k \in 0..(2 * RingSize - 1)
    PROVE  k % RingSize = Round(k) /\ Round(k) \in Indices
<1>1. \A d \in Nat \ {0}, q \in Int : \A r \in 0..(d - 1) : (q * d + r) % d = r
  OBVIOUS
<1>2. RingSize \in Nat \ {0}
  BY DEF SizeAssumption
<1>3. CASE k < RingSize
  <2>1. k \in 0..(RingSize - 1) /\ 0 * RingSize + k = k
    BY <1>2, <1>3
  <2> QED
    BY <1>1, <1>2, <1>3, <2>1 DEF Round, Indices
<1>4. CASE ~(k < RingSize)
  <2>1. k - RingSize \in 0..(RingSize - 1) /\ 1 * RingSize + (k - RingSize) = k
    BY <1>2, <1>4
  <2> QED
    BY <1>1, <1>2, <1>4, <2>1 DEF Round, Indices
<1> QED
  BY <1>3, <1>4

------------------------------------------------------------------------------
RingTypes ==
    /\ ring \in [Indices -> Nat]
    /\ read_index \in Indices /\ write_index \in Indices
    /\ size \in 0..RingSize
    /\ pc \in [Threads -> {"out", "locked", "sizing"}]
    /\ register \in [Threads -> Int]
    /\ pushes \in Nat /\ pops \in Nat

\* Whoever is inside a method holds the mutex, so only one is.
MutexInv == \A t \in Threads : pc[t] # "out" => mutex = t

\* size_ counts completed calls, a thread about to change it still sees it in
\* its register, and there is room for the change.
SizeInv ==
    /\ size = pushes - pops
    /\ \A t \in Threads : pc[t] = "sizing" =>
          /\ register[t] = size
          /\ size # IF t = "pusher" THEN RingSize ELSE 0

\* The indices are as far apart as there are values between store and load.
IndexInv == write_index = Round(read_index + (Stored - Loaded))

RingInv == RingTypes /\ MutexInv /\ SizeInv /\ IndexInv

\* The ring starts empty with both indices at its first slot.
LEMMA RingStarts ==
    ASSUME SizeAssumption PROVE MutexInit => RingInv
<1> SUFFICES ASSUME MutexInit PROVE RingInv
  OBVIOUS
<1>1. RingTypes
  BY DEF SizeAssumption, MutexInit, RingTypes, Indices, Threads
<1>2. Stored = 0 /\ Loaded = 0
  BY DEF MutexInit, Stored, Loaded, Threads
<1> QED
  BY <1>1, <1>2
     DEF SizeAssumption, MutexInit, RingInv, MutexInv, SizeInv, IndexInv, Round

\* At most one of the two threads is inside a method.
LEMMA Exclusive ==
    ASSUME RingInv, NEW t \in Threads, NEW u \in Threads, u # t, pc[t] # "out"
    PROVE  pc[u] = "out"
  BY DEF RingInv, MutexInv

\* What Stored and Loaded are while a thread is at its body.
LEMMA AtTheBody ==
    ASSUME RingInv, NEW t \in Threads, pc[t] = "locked"
    PROVE  Stored = pushes /\ Loaded = pops /\ Stored - Loaded = size
<1>1. pc["pusher"] # "sizing" /\ pc["popper"] # "sizing"
  BY Exclusive DEF Threads
<1> QED
  BY <1>1 DEF Stored, Loaded, RingInv, SizeInv, RingTypes

\* Every step keeps the invariant.
LEMMA RingSteps ==
    ASSUME SizeAssumption PROVE RingInv /\ [MutexNext]_mutexVars => RingInv'
<1> SUFFICES ASSUME RingInv, [MutexNext]_mutexVars PROVE RingInv'
  OBVIOUS
<1>1. /\ RingTypes /\ "pusher" \in Threads /\ "popper" \in Threads
      /\ \A t \in Threads : t = "pusher" \/ t = "popper"
      /\ RingSize \in Nat \ {0}
  BY DEF SizeAssumption, RingInv, Threads
<1>2. ASSUME NEW t \in Threads, Lock(t)
      PROVE  RingInv'
  <2>1. \A u \in Threads : pc[u] = "out"
    BY <1>1, <1>2 DEF Lock, RingInv, MutexInv, Threads
  <2>2. /\ \A u \in Threads : pc'[u] = IF u = t THEN "locked" ELSE pc[u]
        /\ mutex' = t /\ RingTypes'
    BY <1>1, <1>2 DEF Lock, RingTypes, indexVars
  <2>3. MutexInv'
    BY <2>1, <2>2 DEF MutexInv
  <2>4. SizeInv' /\ IndexInv'
    BY <1>1, <1>2, <2>1, <2>2
       DEF Lock, indexVars, RingInv, SizeInv, IndexInv, Stored, Loaded
  <2> QED
    BY <2>2, <2>3, <2>4 DEF RingInv
<1>3. ASSUME NEW t \in Threads, Refuse(t)
      PROVE  RingInv'
  <2>1. \A u \in Threads : u # t => pc[u] = "out"
    BY <1>3, Exclusive DEF Refuse
  <2>2. /\ \A u \in Threads : pc'[u] = "out"
        /\ RingTypes'
    BY <1>1, <1>3, <2>1 DEF Refuse, RingTypes, indexVars
  <2>3. MutexInv'
    BY <2>2 DEF MutexInv
  <2>4. \A u \in Threads : pc[u] # "sizing"
    BY <1>3, <2>1 DEF Refuse
  <2>5. SizeInv' /\ IndexInv'
    BY <1>1, <1>3, <2>2, <2>4
       DEF Refuse, indexVars, RingInv, SizeInv, IndexInv, Stored, Loaded
  <2> QED
    BY <2>2, <2>3, <2>5 DEF RingInv
<1>4. ASSUME StorePushed
      PROVE  RingInv'
  <2>1. pc["popper"] = "out"
    BY <1>1, <1>4, Exclusive DEF StorePushed
  <2>2. Stored - Loaded = size /\ Stored = pushes /\ Loaded = pops
    BY <1>1, <1>4, AtTheBody DEF StorePushed
  <2>3. /\ write_index' = Round(write_index + 1) /\ write_index' \in Indices
    <3>1. write_index + 1 \in 0..(2 * RingSize - 1)
      BY <1>1 DEF RingTypes, Indices
    <3> QED
      BY <1>4, <3>1, RemainderIsRound DEF StorePushed
  <2>4. /\ pc'["pusher"] = "sizing" /\ pc'["popper"] = "out"
        /\ register'["pusher"] = size
        /\ UNCHANGED <<mutex, size, read_index, pushes, pops>>
    BY <1>1, <1>4, <2>1 DEF StorePushed, RingTypes
  <2>5. RingTypes'
    <3>1. ring' \in [Indices -> Nat]
      BY <1>1, <1>4 DEF StorePushed, RingTypes
    <3>2. register' \in [Threads -> Int]
      BY <1>1, <1>4 DEF StorePushed, RingTypes
    <3>3. pc' \in [Threads -> {"out", "locked", "sizing"}]
      BY <1>1, <1>4 DEF StorePushed, RingTypes
    <3> QED
      BY <1>1, <2>3, <2>4, <3>1, <3>2, <3>3 DEF RingTypes
  <2>6. MutexInv'
    BY <1>1, <1>4, <2>4 DEF StorePushed, RingInv, MutexInv
  <2>7. SizeInv'
    BY <1>1, <1>4, <2>4 DEF StorePushed, RingInv, SizeInv
  <2>8. Stored' = Stored + 1 /\ Loaded' = Loaded
    BY <1>1, <2>2, <2>4 DEF Stored, Loaded, RingTypes
  <2>9. size + 1 \in 1..RingSize
    BY <1>1, <1>4 DEF StorePushed, RingTypes
  <2>10. /\ write_index = Round(read_index + size)
         /\ Stored' - Loaded' = size + 1
    BY <1>1, <2>2, <2>8 DEF RingInv, IndexInv, RingTypes
  <2>11. IndexInv'
    BY <1>1, <2>3, <2>4, <2>9, <2>10 DEF IndexInv, Round, RingTypes, Indices
  <2> QED
    BY <2>5, <2>6, <2>7, <2>11 DEF RingInv
<1>5. ASSUME LoadPopped
      PROVE  RingInv'
  <2>1. pc["pusher"] = "out"
    BY <1>1, <1>5, Exclusive DEF LoadPopped
  <2>2. Stored - Loaded = size /\ Stored = pushes /\ Loaded = pops
    BY <1>1, <1>5, AtTheBody DEF LoadPopped
  <2>3. /\ read_index' = Round(read_index + 1) /\ read_index' \in Indices
    <3>1. read_index + 1 \in 0..(2 * RingSize - 1)
      BY <1>1 DEF RingTypes, Indices
    <3> QED
      BY <1>5, <3>1, RemainderIsRound DEF LoadPopped
  <2>4. /\ pc'["popper"] = "sizing" /\ pc'["pusher"] = "out"
        /\ register'["popper"] = size
        /\ UNCHANGED <<mutex, size, write_index, pushes, pops>>
    BY <1>1, <1>5, <2>1 DEF LoadPopped, RingTypes
  <2>5. RingTypes'
    <3>1. register' \in [Threads -> Int]
      BY <1>1, <1>5 DEF LoadPopped, RingTypes
    <3>2. pc' \in [Threads -> {"out", "locked", "sizing"}]
      BY <1>1, <1>5 DEF LoadPopped, RingTypes
    <3> QED
      BY <1>1, <1>5, <2>3, <2>4, <3>1, <3>2 DEF LoadPopped, RingTypes
  <2>6. MutexInv'
    BY <1>1, <1>5, <2>4 DEF LoadPopped, RingInv, MutexInv
  <2>7. SizeInv'
    BY <1>1, <1>5, <2>4 DEF LoadPopped, RingInv, SizeInv
  <2>8. Stored' = Stored /\ Loaded' = Loaded + 1
    BY <1>1, <2>2, <2>4 DEF Stored, Loaded, RingTypes
  <2>9. size - 1 \in 0..(RingSize - 1)
    BY <1>1, <1>5 DEF LoadPopped, RingTypes
  <2>10. /\ write_index = Round(read_index + size)
         /\ Stored' - Loaded' = size - 1
    BY <1>1, <2>2, <2>8 DEF RingInv, IndexInv, RingTypes
  <2>11. IndexInv'
    BY <1>1, <2>3, <2>4, <2>9, <2>10 DEF IndexInv, Round, RingTypes, Indices
  <2> QED
    BY <2>5, <2>6, <2>7, <2>11 DEF RingInv
<1>6. ASSUME NEW t \in Threads, Finish(t)
      PROVE  RingInv'
  <2>1. \A u \in Threads : u # t => pc[u] = "out"
    BY <1>6, Exclusive DEF Finish
  <2>2. /\ \A u \in Threads : pc'[u] = "out"
        /\ pc' \in [Threads -> {"out", "locked", "sizing"}]
    BY <1>1, <1>6, <2>1 DEF Finish, RingTypes
  <2>3. /\ register[t] = size /\ pc[t] = "sizing"
        /\ size # IF t = "pusher" THEN RingSize ELSE 0
        /\ size = pushes - pops
    BY <1>6 DEF Finish, RingInv, SizeInv
  <2>4. UNCHANGED <<ring, read_index, write_index, register>>
    BY <1>6 DEF Finish
  <2>5. CASE t = "pusher"
    <3>1. /\ size' = size + 1 /\ pushes' = pushes + 1 /\ pops' = pops
          /\ pc["popper"] = "out"
      BY <1>1, <1>6, <2>1, <2>3, <2>5 DEF Finish
    <3>2. RingTypes'
      BY <1>1, <2>2, <2>3, <2>4, <2>5, <3>1 DEF RingTypes
    <3>3. Stored' = Stored /\ Loaded' = Loaded
      BY <1>1, <2>2, <2>3, <2>5, <3>1 DEF Stored, Loaded, RingTypes
    <3>4. SizeInv' /\ MutexInv' /\ IndexInv'
      BY <1>1, <2>2, <2>3, <2>4, <3>1, <3>3
         DEF RingInv, SizeInv, MutexInv, IndexInv, RingTypes
    <3> QED
      BY <3>2, <3>4 DEF RingInv
  <2>6. CASE t = "popper"
    <3>1. /\ size' = size - 1 /\ pops' = pops + 1 /\ pushes' = pushes
          /\ pc["pusher"] = "out"
      BY <1>1, <1>6, <2>1, <2>3, <2>6 DEF Finish
    <3>2. RingTypes'
      BY <1>1, <2>2, <2>3, <2>4, <2>6, <3>1 DEF RingTypes
    <3>3. Stored' = Stored /\ Loaded' = Loaded
      BY <1>1, <2>2, <2>3, <2>6, <3>1 DEF Stored, Loaded, RingTypes
    <3>4. SizeInv' /\ MutexInv' /\ IndexInv'
      BY <1>1, <2>2, <2>3, <2>4, <3>1, <3>3
         DEF RingInv, SizeInv, MutexInv, IndexInv, RingTypes
    <3> QED
      BY <3>2, <3>4 DEF RingInv
  <2> QED
    BY <1>1, <2>5, <2>6
<1>7. CASE UNCHANGED mutexVars
  BY <1>7 DEF mutexVars, indexVars, RingInv, RingTypes, MutexInv, SizeInv,
              IndexInv, Stored, Loaded
<1> QED
  BY <1>2, <1>3, <1>4, <1>5, <1>6, <1>7 DEF MutexNext, MutexEnded

\* The invariant holds always.
LEMMA RingInvariance ==
    ASSUME SizeAssumption PROVE MutexSpec => []RingInv
  BY RingStarts, RingSteps, PTL DEF MutexSpec

------------------------------------------------------------------------------
(* The refinement.                                                         *)

\* The slot of the i-th value inside.
IndexOf(i) == Round(read_index + i - 1)

\* Every slot of what is inside is found by a comparison.
LEMMA SlotIsRound ==
    ASSUME SizeAssumption,
           NEW first \in Indices, NEW n \in 0..RingSize, NEW i \in 1..n
    PROVE  /\ (first + i - 1) % RingSize = Round(first + i - 1)
           /\ Round(first + i - 1) \in Indices
<1>1. first + i - 1 \in 0..(2 * RingSize - 1)
  BY DEF SizeAssumption, Indices
<1> QED
  BY <1>1, RemainderIsRound

\* What is inside, with every slot found by a comparison, is a sequence.
LEMMA InsideIs ==
    ASSUME SizeAssumption, RingTypes, Stored - Loaded \in 0..RingSize
    PROVE  /\ InTheRing = [i \in 1..(Stored - Loaded) |-> ring[IndexOf(i)]]
           /\ \A i \in 1..(Stored - Loaded) : IndexOf(i) \in Indices
           /\ InTheRing \in Seq(Nat) /\ Len(InTheRing) = Stored - Loaded
<1>1. \A i \in 1..(Stored - Loaded) :
        /\ (read_index + i - 1) % RingSize = IndexOf(i)
        /\ IndexOf(i) \in Indices
  BY SlotIsRound DEF IndexOf, RingTypes
<1>2. \A i \in 1..(Stored - Loaded) : ring[IndexOf(i)] \in Nat
  BY <1>1 DEF RingTypes
<1>3. InTheRing = [i \in 1..(Stored - Loaded) |-> ring[IndexOf(i)]]
  BY <1>1 DEF InTheRing
<1> QED
  BY <1>1, <1>2, <1>3

\* Every step of the ring is a push, a pop or a stutter of a bounded FIFO: full
\* and empty are never mistaken for each other, at any capacity.
THEOREM MutexRingIsAFifo ==
    ASSUME SizeAssumption PROVE MutexSpec => RingImplementsFifo
<1>1. MutexInit => RingFifo!FifoInit
  <2> SUFFICES ASSUME MutexInit PROVE RingFifo!FifoInit
    OBVIOUS
  <2>1. Stored = 0 /\ Loaded = 0
    BY DEF MutexInit, Stored, Loaded, Threads
  <2>2. InTheRing = <<>>
    BY <2>1 DEF InTheRing
  <2> QED
    BY <2>1, <2>2 DEF MutexInit, RingFifo!FifoInit
<1>2. ASSUME RingInv, RingInv', [MutexNext]_mutexVars
      PROVE  [RingFifo!Push \/ RingFifo!Pop]_(RingFifo!fifoVars)
  <2>1. /\ RingTypes /\ RingTypes' /\ "pusher" \in Threads /\ "popper" \in Threads
        /\ \A t \in Threads : t = "pusher" \/ t = "popper"
        /\ RingSize \in Nat \ {0}
    BY <1>2 DEF SizeAssumption, RingInv, Threads
  <2>2. ASSUME NEW t \in Threads, Lock(t) \/ Refuse(t)
        PROVE  UNCHANGED RingFifo!fifoVars
    <3>1. /\ UNCHANGED <<ring, read_index, pushes, pops, result>>
          /\ \A u \in Threads : pc'[u] = "sizing" <=> pc[u] = "sizing"
      BY <2>1, <2>2 DEF Lock, Refuse, indexVars, RingTypes
    <3>2. Stored' = Stored /\ Loaded' = Loaded
      BY <2>1, <3>1 DEF Stored, Loaded
    <3> QED
      BY <3>1, <3>2 DEF RingFifo!fifoVars, InTheRing
  <2>3. ASSUME NEW t \in Threads, Finish(t)
        PROVE  UNCHANGED RingFifo!fifoVars
    <3>1. /\ UNCHANGED <<ring, read_index, result>>
          /\ pc[t] = "sizing" /\ pc'[t] = "out"
          /\ \A u \in Threads : u # t => pc'[u] = pc[u]
          /\ t = "pusher" => pushes' = pushes + 1 /\ pops' = pops
          /\ t = "popper" => pops' = pops + 1 /\ pushes' = pushes
      BY <2>1, <2>3 DEF Finish, RingTypes
    <3>2. Stored' = Stored /\ Loaded' = Loaded
      <4>1. CASE t = "pusher"
        BY <2>1, <3>1, <4>1 DEF Stored, Loaded, RingTypes
      <4>2. CASE t = "popper"
        BY <2>1, <3>1, <4>2 DEF Stored, Loaded, RingTypes
      <4> QED
        BY <2>1, <4>1, <4>2
    <3> QED
      BY <3>1, <3>2 DEF RingFifo!fifoVars, InTheRing
  <2>4. ASSUME StorePushed
        PROVE  RingFifo!Push
    <3>1. /\ Stored = pushes /\ Stored - Loaded = size /\ size \in 0..(RingSize - 1)
          /\ Stored \in Int /\ Loaded \in Int
      BY <1>2, <2>1, <2>4, AtTheBody DEF StorePushed, RingTypes
    <3>2. /\ ring' = [ring EXCEPT ![write_index] = pushes]
          /\ UNCHANGED <<read_index, pushes, pops, result>>
          /\ pc["pusher"] = "locked" /\ pc'["pusher"] = "sizing"
          /\ pc'["popper"] = pc["popper"]
      BY <2>1, <2>4 DEF StorePushed, RingTypes
    <3>3. Stored' = Stored + 1 /\ Loaded' = Loaded
      BY <2>1, <3>1, <3>2 DEF Stored, Loaded, RingTypes
    <3>4. Stored' - Loaded' = size + 1 /\ Stored' - Loaded' \in 0..RingSize
      BY <2>1, <3>1, <3>3
    <3>5. /\ InTheRing = [i \in 1..size |-> ring[IndexOf(i)]]
          /\ InTheRing \in Seq(Nat) /\ Len(InTheRing) = size
      BY <2>1, <3>1, InsideIs
    <3>6. InTheRing' = [i \in 1..(size + 1) |-> ring'[IndexOf(i)]]
      <4>1. InTheRing' = [i \in 1..(Stored' - Loaded') |-> ring'[IndexOf(i)']]
        BY <2>1, <3>4, SlotIsRound DEF InTheRing, IndexOf, RingTypes
      <4> QED
        BY <3>2, <3>4, <4>1 DEF IndexOf
    <3>7. \A i \in 1..size : ring'[IndexOf(i)] = ring[IndexOf(i)]
      <4> SUFFICES ASSUME NEW i \in 1..size
                   PROVE  ring'[IndexOf(i)] = ring[IndexOf(i)]
        OBVIOUS
      <4>1. IndexOf(i) # write_index
        <5>1. write_index = Round(read_index + size)
          BY <1>2, <3>1 DEF RingInv, IndexInv
        <5> QED
          BY <2>1, <3>1, <5>1, SMTT(30) DEF IndexOf, Round, RingTypes, Indices
      <4>2. IndexOf(i) \in Indices
        BY <2>1, <3>1, InsideIs
      <4> QED
        BY <2>1, <3>2, <4>1, <4>2 DEF RingTypes
    <3>8. ring'[IndexOf(size + 1)] = pushes
      <4>1. IndexOf(size + 1) = write_index
        BY <1>2, <2>1, <3>1 DEF IndexOf, RingInv, IndexInv, RingTypes, Indices
      <4> QED
        BY <2>1, <3>2, <4>1 DEF RingTypes
    <3>9. InTheRing' = Append(InTheRing, pushes)
      <4>1. Append(InTheRing, pushes) =
              [i \in 1..(size + 1) |-> IF i <= size THEN InTheRing[i] ELSE pushes]
        BY <2>1, <3>1, <3>5 DEF RingTypes
      <4>2. \A i \in 1..(size + 1) :
              ring'[IndexOf(i)] = IF i <= size THEN InTheRing[i] ELSE pushes
        BY <3>1, <3>5, <3>7, <3>8
      <4> QED
        BY <3>6, <4>1, <4>2
    <3> QED
      BY <2>1, <3>1, <3>2, <3>3, <3>5, <3>9 DEF RingFifo!Push
  <2>5. ASSUME LoadPopped
        PROVE  RingFifo!Pop
    <3>1. /\ Stored = pushes /\ Stored - Loaded = size /\ size \in 1..RingSize
          /\ Stored \in Int /\ Loaded \in Int
      BY <1>2, <2>1, <2>5, AtTheBody DEF LoadPopped, RingTypes
    <3>2. /\ result' = ring[read_index]
          /\ read_index' = (read_index + 1) % RingSize
          /\ UNCHANGED <<ring, pushes, pops>>
          /\ pc["popper"] = "locked" /\ pc'["popper"] = "sizing"
          /\ pc'["pusher"] = pc["pusher"]
      BY <2>1, <2>5 DEF LoadPopped, RingTypes
    <3>3. Stored' = Stored /\ Loaded' = Loaded + 1
      BY <2>1, <3>1, <3>2 DEF Stored, Loaded, RingTypes
    <3>4. Stored' - Loaded' = size - 1 /\ Stored' - Loaded' \in 0..RingSize
      BY <2>1, <3>1, <3>3
    <3>5. /\ InTheRing = [i \in 1..size |-> ring[IndexOf(i)]]
          /\ InTheRing \in Seq(Nat) /\ Len(InTheRing) = size
      BY <2>1, <3>1, InsideIs
    <3>6. InTheRing' = [i \in 1..(size - 1) |-> ring[IndexOf(i)']]
      <4>1. InTheRing' = [i \in 1..(Stored' - Loaded') |-> ring'[IndexOf(i)']]
        BY <2>1, <3>4, SlotIsRound DEF InTheRing, IndexOf, RingTypes
      <4> QED
        BY <3>2, <3>4, <4>1
    <3>7. \A i \in 1..(size - 1) : IndexOf(i)' = IndexOf(i + 1)
      <4>1. read_index + 1 \in 0..(2 * RingSize - 1)
        BY <2>1 DEF RingTypes, Indices
      <4>2. read_index' = Round(read_index + 1)
        BY <3>2, <4>1, RemainderIsRound
      <4> QED
        BY <2>1, <3>1, <4>2 DEF IndexOf, Round, RingTypes, Indices
    <3>8. /\ InTheRing # <<>> /\ Head(InTheRing) = ring[read_index]
      <4>1. IndexOf(1) = read_index
        BY <2>1 DEF IndexOf, Round, RingTypes, Indices
      <4> QED
        BY <3>1, <3>5, <4>1
    <3>9. InTheRing' = Tail(InTheRing)
      <4>1. Tail(InTheRing) = [i \in 1..(size - 1) |-> InTheRing[i + 1]]
        BY <3>1, <3>5
      <4>2. \A i \in 1..(size - 1) : ring[IndexOf(i)'] = InTheRing[i + 1]
        BY <3>1, <3>5, <3>7
      <4> QED
        BY <3>6, <4>1, <4>2
    <3> QED
      BY <3>2, <3>3, <3>8, <3>9 DEF RingFifo!Pop
  <2>6. CASE UNCHANGED mutexVars
    BY <2>6 DEF mutexVars, indexVars, RingFifo!fifoVars, InTheRing, Stored, Loaded
  <2> QED
    BY <1>2, <2>2, <2>3, <2>4, <2>5, <2>6 DEF MutexNext, MutexEnded
<1> QED
  BY <1>1, <1>2, RingInvariance, PTL
     DEF MutexSpec, RingImplementsFifo, RingFifo!FifoSpec

------------------------------------------------------------------------------
(* The blocking slot of latency.cpp.                                       *)

SlotTypes ==
    /\ full \in BOOLEAN
    /\ waitSet \subseteq SlotThreads
    /\ at \in [SlotThreads -> {"out", "lock", "test", "notify"}]
    /\ count \in [SlotThreads -> Nat]

\* NoLostWakeup is not inductive: Notify takes only the other thread out of the
\* wait set, which is enough because no thread that runs is in it.
SlotInv ==
    /\ SlotTypes
    /\ \A t \in waitSet : at[t] = "lock"
    /\ NoLostWakeup

\* Nobody sleeps at the start.
LEMMA SlotStarts == SlotInit => SlotInv
<1> SUFFICES ASSUME SlotInit PROVE SlotInv
  OBVIOUS
<1>1. full \in BOOLEAN
  BY Zenon DEF SlotInit
<1>2. SlotTypes
  BY <1>1 DEF SlotInit, SlotTypes
<1> QED
  BY <1>2 DEF SlotInit, SlotInv, NoLostWakeup

\* The two threads are each other's only partners.
LEMMA OtherIsTheOther ==
    ASSUME NEW t \in SlotThreads
    PROVE  /\ Other(t) \in SlotThreads /\ Other(t) # t /\ Other(Other(t)) = t
           /\ \A u \in SlotThreads : u # t => u = Other(t)
  BY DEF Other, SlotThreads

\* One step of a thread, or a wake-up for no reason, keeps the invariant.
LEMMA SlotSteps == SlotInv /\ [SlotNext]_slotVars => SlotInv'
<1> SUFFICES ASSUME SlotInv, [SlotNext]_slotVars PROVE SlotInv'
  OBVIOUS
<1> USE DEF SlotInv
<1>1. ASSUME NEW t \in SlotThreads, Call(t)
      PROVE  SlotInv'
  <2>1. SlotTypes'
    BY <1>1 DEF Call, SlotTypes
  <2>2. t \notin waitSet /\ \A u \in SlotThreads \ {t} : at'[u] = at[u]
    BY <1>1 DEF Call, SlotTypes
  <2>3. \A u \in waitSet' : at'[u] = "lock"
    BY <1>1, <2>2 DEF Call, SlotTypes
  <2>4. NoLostWakeup'
    BY <1>1, <2>2, OtherIsTheOther DEF Call, SlotTypes, NoLostWakeup, Ready
  <2> QED
    BY <2>1, <2>3, <2>4
<1>2. ASSUME NEW t \in SlotThreads, LockSlot(t)
      PROVE  SlotInv'
  <2>1. SlotTypes'
    BY <1>2 DEF LockSlot, SlotTypes
  <2>2. t \notin waitSet /\ \A u \in SlotThreads \ {t} : at'[u] = at[u]
    BY <1>2 DEF LockSlot, SlotTypes
  <2>3. \A u \in waitSet' : at'[u] = "lock"
    BY <1>2, <2>2 DEF LockSlot, SlotTypes
  <2>4. NoLostWakeup'
    BY <1>2, <2>2, OtherIsTheOther DEF LockSlot, SlotTypes, NoLostWakeup, Ready
  <2> QED
    BY <2>1, <2>3, <2>4
<1>3. ASSUME NEW t \in SlotThreads, Sleep(t)
      PROVE  SlotInv'
  <2>1. SlotTypes'
    BY <1>3 DEF Sleep, SlotTypes
  <2>2. at'[t] = "lock" /\ \A u \in SlotThreads \ {t} : at'[u] = at[u]
    BY <1>3 DEF Sleep, SlotTypes
  <2>3. \A u \in waitSet' : at'[u] = "lock"
    BY <1>3, <2>2 DEF Sleep, SlotTypes
  <2>4. NoLostWakeup'
    BY <1>3, <2>2, OtherIsTheOther DEF Sleep, SlotTypes, NoLostWakeup, Ready
  <2> QED
    BY <2>1, <2>3, <2>4
<1>4. ASSUME NEW t \in SlotThreads, Transfer(t)
      PROVE  SlotInv'
  <2>1. SlotTypes'
    BY <1>4 DEF Transfer, SlotTypes
  <2>2. /\ t \notin waitSet /\ at'[t] = "notify"
        /\ \A u \in SlotThreads \ {t} : at'[u] = at[u]
    BY <1>4 DEF Transfer, SlotTypes
  <2>3. \A u \in waitSet' : at'[u] = "lock"
    BY <1>4, <2>2 DEF Transfer, SlotTypes
  <2>4. NoLostWakeup'
    BY <1>4, <2>2, OtherIsTheOther DEF Transfer, SlotTypes, NoLostWakeup
  <2> QED
    BY <2>1, <2>3, <2>4
<1>5. ASSUME NEW t \in SlotThreads, Notify(t)
      PROVE  SlotInv'
  <2>1. SlotTypes'
    BY <1>5 DEF Notify, Notified, SlotTypes
  <2>2. t \notin waitSet
    BY <1>5 DEF Notify
  <2>3. waitSet' = {}
    BY <1>5, <2>2, OtherIsTheOther DEF Notify, Notified, SlotTypes
  <2> QED
    BY <2>1, <2>3 DEF NoLostWakeup
<1>6. ASSUME NEW t \in SlotThreads, SpuriousWakeup(t)
      PROVE  SlotInv'
  BY <1>6 DEF SpuriousWakeup, SlotTypes, NoLostWakeup, Ready
<1>7. CASE UNCHANGED slotVars
  BY <1>7 DEF slotVars, SlotTypes, NoLostWakeup, Ready
<1> QED
  BY <1>1, <1>2, <1>3, <1>4, <1>5, <1>6, <1>7 DEF SlotNext, SlotEnded

\* The invariant holds always.
LEMMA SlotInvariance == SlotSpec => []SlotInv
  BY SlotStarts, SlotSteps, PTL DEF SlotSpec

\* publish and consume never leave the other thread asleep on a predicate that
\* has become true.
THEOREM WakeupsAreNotLost == SlotSpec => []NoLostWakeup
<1>1. SlotInv => NoLostWakeup
  BY DEF SlotInv
<1> QED
  BY <1>1, SlotInvariance, PTL

\* Every step of the slot is a push, a pop or a stutter of a FIFO of one: no
\* stamp is overwritten, lost or taken twice.
THEOREM SlotIsAFifo == SlotSpec => SlotImplementsFifo
<1> USE DEF InTheSlot, Sent
<1>1. SlotInit => SlotFifo!FifoInit
  BY DEF SlotInit, SlotFifo!FifoInit, SlotThreads
<1>2. ASSUME SlotInv, [SlotNext]_slotVars
      PROVE  [SlotFifo!Push \/ SlotFifo!Pop]_(SlotFifo!fifoVars)
  <2>1. SlotTypes /\ {"publisher", "consumer"} = SlotThreads
    BY <1>2 DEF SlotInv, SlotThreads
  <2>2. ASSUME NEW t \in SlotThreads,
               Call(t) \/ LockSlot(t) \/ Sleep(t) \/ SpuriousWakeup(t)
        PROVE  UNCHANGED SlotFifo!fifoVars
    <3>1. /\ UNCHANGED <<full, published_at, count, taken>>
          /\ at'["publisher"] = "notify" <=> at["publisher"] = "notify"
      BY <2>1, <2>2 DEF Call, LockSlot, Sleep, SpuriousWakeup, SlotTypes
    <3> QED
      BY <3>1 DEF SlotFifo!fifoVars
  <2>3. ASSUME Transfer("publisher")
        PROVE  SlotFifo!Push
    <3>1. /\ ~full /\ full' = TRUE /\ published_at' = count["publisher"]
          /\ at["publisher"] = "test" /\ at'["publisher"] = "notify"
          /\ UNCHANGED <<count, taken>>
      BY <2>1, <2>3 DEF Transfer, Ready, SlotTypes
    <3>2. /\ Sent = count["publisher"] /\ Sent' = Sent + 1
          /\ InTheSlot = <<>> /\ InTheSlot' = <<Sent>>
      BY <2>1, <3>1 DEF SlotTypes
    <3> QED
      BY <3>1, <3>2 DEF SlotFifo!Push
  <2>4. ASSUME Transfer("consumer")
        PROVE  SlotFifo!Pop
    <3>1. /\ full /\ full' = FALSE /\ taken' = published_at
          /\ UNCHANGED count /\ at'["publisher"] = at["publisher"]
      BY <2>1, <2>4 DEF Transfer, Ready, SlotTypes
    <3>2. /\ InTheSlot = <<published_at>> /\ InTheSlot' = <<>>
          /\ Sent' = Sent
      BY <3>1
    <3> QED
      BY <3>1, <3>2 DEF SlotFifo!Pop
  <2>5. ASSUME NEW t \in SlotThreads, Notify(t)
        PROVE  UNCHANGED SlotFifo!fifoVars
    <3>1. CASE t = "publisher"
      <4>1. /\ count["publisher"] \in Nat
            /\ count'["publisher"] = count["publisher"] + 1
            /\ at["publisher"] = "notify" /\ at'["publisher"] = "out"
            /\ UNCHANGED <<full, published_at, taken>>
        BY <2>1, <2>5, <3>1 DEF Notify, SlotTypes
      <4> QED
        BY <4>1 DEF SlotFifo!fifoVars
    <3>2. CASE t = "consumer"
      <4>1. /\ count'["publisher"] = count["publisher"]
            /\ at'["publisher"] = at["publisher"]
            /\ UNCHANGED <<full, published_at, taken>>
        BY <2>1, <2>5, <3>2 DEF Notify, SlotTypes
      <4> QED
        BY <4>1 DEF SlotFifo!fifoVars
    <3> QED
      BY <3>1, <3>2 DEF SlotThreads
  <2>6. CASE UNCHANGED slotVars
    BY <2>6 DEF slotVars, SlotFifo!fifoVars
  <2> QED
    BY <1>2, <2>1, <2>2, <2>3, <2>4, <2>5, <2>6 DEF SlotNext, SlotEnded
<1> QED
  BY <1>1, <1>2, SlotInvariance, PTL
     DEF SlotSpec, SlotImplementsFifo, SlotFifo!FifoSpec

------------------------------------------------------------------------------
(* The lock-free ring of throughput.cpp.                                   *)

\* The linear part of the assumptions.
LEMMA Bounds == /\ Capacity \in Nat /\ Capacity > 0
                /\ Wrap \in Nat /\ Capacity + 1 < Wrap
  BY RingAssumption

USE Bounds

------------------------------------------------------------------------------
(* Unsigned positions.                                                     *)

\* The distance is the difference, plus Wrap when it would be negative.
LEMMA SubCases ==
    ASSUME NEW x \in Counters, NEW y \in Counters
    PROVE  /\ Sub(x, y) \in Counters
           /\ Sub(x, y) = IF x >= y THEN x - y ELSE x - y + Wrap
<1>1. CASE x >= y
  BY <1>1 DEF Sub, Counters
<1>2. CASE x < y
  BY <1>2 DEF Sub, Counters
<1> QED
  BY <1>1, <1>2 DEF Counters

\* A sum is the sum, or rolls over once.
LEMMA AddCases ==
    ASSUME NEW x \in Counters, NEW n \in Counters
    PROVE  /\ Add(x, n) \in Counters
           /\ Add(x, n) = IF x + n < Wrap THEN x + n ELSE x + n - Wrap
  BY DEF Add, Counters

\* Advancing the front or the back of an interval changes its length by one.
LEMMA SubAdvance ==
    ASSUME NEW x \in Counters, NEW y \in Counters
    PROVE  /\ Add(x, 1) \in Counters
           /\ Sub(x, y) <= Capacity => Sub(Add(x, 1), y) = Sub(x, y) + 1
           /\ Sub(x, y) >= 1 => Sub(x, Add(y, 1)) = Sub(x, y) - 1
<1>1. 1 \in Counters
  BY DEF Counters
<1>2. Add(x, 1) \in Counters /\ Add(y, 1) \in Counters
  BY <1>1, AddCases
<1>3. /\ Sub(x, y) = IF x >= y THEN x - y ELSE x - y + Wrap
      /\ Sub(Add(x, 1), y) = IF Add(x, 1) >= y THEN Add(x, 1) - y
                             ELSE Add(x, 1) - y + Wrap
      /\ Sub(x, Add(y, 1)) = IF x >= Add(y, 1) THEN x - Add(y, 1)
                             ELSE x - Add(y, 1) + Wrap
      /\ Add(x, 1) = IF x + 1 < Wrap THEN x + 1 ELSE x + 1 - Wrap
      /\ Add(y, 1) = IF y + 1 < Wrap THEN y + 1 ELSE y + 1 - Wrap
  BY <1>1, <1>2, SubCases, AddCases
<1> QED
  BY <1>2, <1>3 DEF Counters

\* A position between two others divides their distance.
LEMMA SubBetween ==
    ASSUME NEW x \in Counters, NEW y \in Counters, NEW z \in Counters
    PROVE  /\ Sub(y, z) <= Sub(x, z) => Sub(x, y) = Sub(x, z) - Sub(y, z)
           /\ Sub(x, y) <= Sub(x, z) => Sub(y, z) = Sub(x, z) - Sub(x, y)
<1>1. /\ Sub(x, y) = IF x >= y THEN x - y ELSE x - y + Wrap
      /\ Sub(y, z) = IF y >= z THEN y - z ELSE y - z + Wrap
      /\ Sub(x, z) = IF x >= z THEN x - z ELSE x - z + Wrap
  BY SubCases
<1> QED
  BY <1>1 DEF Counters

\* Only equal positions are at distance zero.
LEMMA SubZero ==
    ASSUME NEW x \in Counters, NEW y \in Counters
    PROVE  (Sub(x, y) = 0) <=> (x = y)
<1>1. Sub(x, y) = IF x >= y THEN x - y ELSE x - y + Wrap
  BY SubCases
<1> QED
  BY <1>1 DEF Counters

\* Steps behind a position add up.
LEMMA AddSteps ==
    ASSUME NEW x \in Counters, NEW y \in Counters, NEW i \in 0..Sub(x, y)
    PROVE  /\ Add(y, i) \in Counters
           /\ Sub(x, Add(y, i)) = Sub(x, y) - i
           /\ i = Sub(x, y) => Add(y, i) = x
           /\ i < Sub(x, y) => Add(Add(y, 1), i) = Add(y, i + 1)
<1>1. Sub(x, y) \in Counters /\ i \in Counters /\ 1 \in Counters
  BY SubCases DEF Counters
<1>2. Add(y, i) \in Counters /\ Add(y, 1) \in Counters
  BY <1>1, AddCases
<1>3. /\ Sub(x, y) = IF x >= y THEN x - y ELSE x - y + Wrap
      /\ Add(y, i) = IF y + i < Wrap THEN y + i ELSE y + i - Wrap
      /\ Sub(x, Add(y, i)) = IF x >= Add(y, i) THEN x - Add(y, i)
                             ELSE x - Add(y, i) + Wrap
  BY <1>1, <1>2, SubCases, AddCases
<1>4. /\ Sub(x, Add(y, i)) = Sub(x, y) - i
      /\ i = Sub(x, y) => Add(y, i) = x
  BY <1>1, <1>2, <1>3 DEF Counters
<1>5. ASSUME i < Sub(x, y) PROVE Add(Add(y, 1), i) = Add(y, i + 1)
  <2>1. i + 1 \in Counters
    BY <1>1, <1>5 DEF Counters
  <2>2. /\ Add(y, i + 1) = IF y + (i + 1) < Wrap THEN y + (i + 1)
                           ELSE y + (i + 1) - Wrap
        /\ Add(y, 1) = IF y + 1 < Wrap THEN y + 1 ELSE y + 1 - Wrap
        /\ Add(Add(y, 1), i) = IF Add(y, 1) + i < Wrap THEN Add(y, 1) + i
                               ELSE Add(y, 1) + i - Wrap
    BY <1>1, <1>2, <2>1, AddCases
  <2> QED
    BY <1>1, <1>2, <2>1, <2>2 DEF Counters
<1> QED
  BY <1>2, <1>4, <1>5

\* Positions less than Capacity apart have different slots.
LEMMA SlotsDiffer ==
    ASSUME NEW x \in Counters, NEW y \in Counters,
           Sub(x, y) \in 1..(Capacity - 1)
    PROVE  x % Capacity # y % Capacity
<1> DEFINE a == x \div Capacity
           b == y \div Capacity
           w == Wrap \div Capacity
<1>1. /\ x = Capacity * a + (x % Capacity) /\ a \in Int
      /\ y = Capacity * b + (y % Capacity) /\ b \in Int
      /\ x % Capacity \in Int /\ y % Capacity \in Int
  BY DEF Counters
<1>2. Wrap = Capacity * w /\ w \in Int
  BY RingAssumption
<1>3. Sub(x, y) = IF x >= y THEN x - y ELSE x - y + Wrap
  BY SubCases
<1> HIDE DEF a, b, w
<1> SUFFICES ASSUME x % Capacity = y % Capacity PROVE FALSE
  OBVIOUS
<1>4. PICK k \in Int : Sub(x, y) = Capacity * k
  <2>1. CASE x >= y
    <3>1. Sub(x, y) = Capacity * (a - b) /\ a - b \in Int
      BY <1>1, <1>3, <2>1 DEF Counters
    <3> QED
      BY <3>1
  <2>2. CASE x < y
    <3>1. Sub(x, y) = Capacity * (a - b + w) /\ a - b + w \in Int
      BY <1>1, <1>2, <1>3, <2>2 DEF Counters
    <3> QED
      BY <3>1
  <2> QED
    BY <2>1, <2>2 DEF Counters
<1>5. k <= 0 => Capacity * k <= 0
  OBVIOUS
<1>6. k >= 1 => Capacity * k >= Capacity
  OBVIOUS
<1> QED
  BY <1>4, <1>5, <1>6

------------------------------------------------------------------------------
(* The inductive invariant.                                                *)

TypeInv ==
    /\ values \in [Slots -> Nat]
    /\ read \in Counters /\ readAcquired \in Counters /\ readView \subseteq Counters
    /\ write \in Counters /\ writeAcquired \in Counters /\ writeView \subseteq Counters
    /\ pusher \in {"out", "store", "release"} /\ pushed \in Nat
    /\ popper \in {"out", "load", "release"} /\ popped \in Nat

\* What the pusher knows of read_ lies between what it has acquired and what is
\* stored; a push in progress has a slot.  Distances are measured from write_.
PushInv ==
    /\ Sub(write, read) <= Sub(write, readAcquired)
    /\ \A v \in readView : /\ Sub(write, read) <= Sub(write, v)
                           /\ Sub(write, v) <= Sub(write, readAcquired)
    /\ Sub(write, readAcquired) <= Capacity
    /\ pusher # "out" => Sub(write, readAcquired) < Capacity

\* The same for the popper and write_; a pop in progress has a value.
\* Distances are measured from read_.
PopInv ==
    /\ Sub(writeAcquired, read) <= Sub(write, read)
    /\ \A v \in writeView : /\ Sub(writeAcquired, read) <= Sub(v, read)
                            /\ Sub(v, read) <= Sub(write, read)
    /\ popper # "out" => Sub(writeAcquired, read) >= 1

\* A value that is stored and not yet released is in its slot.
StoredInv == pusher = "release" => values[write % Capacity] = pushed

IInv == TypeInv /\ PushInv /\ PopInv /\ StoredInv

\* Both positions start at zero, and nothing is in progress.
LEMMA InitIInv == Init => IInv
<1> SUFFICES ASSUME Init PROVE IInv
  OBVIOUS
<1>1. 0 \in Counters /\ Sub(0, 0) = 0
  <2>1. 0 \in Counters
    BY DEF Counters
  <2> QED
    BY <2>1, SubZero
<1>2. TypeInv
  BY <1>1 DEF Init, TypeInv
<1> QED
  BY <1>1, <1>2 DEF Init, IInv, PushInv, PopInv, StoredInv

\* A slot has a number below Capacity.
LEMMA SlotType == \A x \in Counters : x % Capacity \in Slots
  BY DEF Counters, Slots

\* Every step keeps the invariant.
LEMMA NextIInv == IInv /\ [Next]_vars => IInv'
<1> SUFFICES ASSUME IInv, [Next]_vars PROVE IInv'
  OBVIOUS
<1>1. TypeInv /\ PushInv /\ PopInv /\ StoredInv
  BY DEF IInv
<1>2. \A x, y \in Counters : Sub(x, y) \in 0..(Wrap - 1)
  BY SubCases DEF Counters
<1>3. CASE TryPush
  <2>1. PICK v \in readView :
          /\ readView' = NotOlder(readView, read, v) /\ readAcquired' = v
          /\ pusher' = IF Full(Add(write, 1), v) THEN "out" ELSE "store"
    BY <1>3 DEF TryPush, AcquireRead
  <2>2. /\ UNCHANGED <<values, read, write, writeView, writeAcquired, pushed>>
        /\ UNCHANGED <<popper, popped>> /\ pusher = "out"
    BY <1>3 DEF TryPush, popVars
  <2>3. v \in Counters /\ readView' \subseteq readView
    BY <1>1, <2>1 DEF TypeInv, NotOlder
  <2>4. TypeInv'
    BY <1>1, <2>1, <2>2, <2>3 DEF TypeInv
  <2>5. PopInv' /\ StoredInv'
    BY <1>1, <2>1, <2>2 DEF PopInv, StoredInv
  <2>6. \A u \in readView' : Sub(write, u) <= Sub(write, v)
    <3> SUFFICES ASSUME NEW u \in readView' PROVE Sub(write, u) <= Sub(write, v)
      OBVIOUS
    <3>1. u \in readView /\ u \in Counters /\ Sub(read, u) <= Sub(read, v)
      BY <1>1, <2>1 DEF NotOlder, TypeInv
    <3>2. /\ Sub(read, u) = Sub(write, u) - Sub(write, read)
          /\ Sub(read, v) = Sub(write, v) - Sub(write, read)
      BY <1>1, <2>3, <3>1, SubBetween DEF PushInv, TypeInv
    <3> QED
      BY <1>1, <1>2, <2>3, <3>1, <3>2 DEF TypeInv
  <2>7. Sub(write, read) <= Sub(write, v) /\ Sub(write, v) <= Capacity
    BY <1>1, <1>2, <2>3 DEF PushInv, TypeInv
  <2>8. pusher' # "out" => Sub(write, v) < Capacity
    <3>1. Sub(Add(write, 1), v) = Sub(write, v) + 1
      BY <1>1, <2>3, <2>7, SubAdvance DEF TypeInv
    <3> QED
      BY <1>1, <1>2, <2>1, <2>3, <3>1 DEF Full, TypeInv
  <2>9. PushInv'
    BY <1>1, <2>1, <2>2, <2>3, <2>6, <2>7, <2>8 DEF PushInv
  <2> QED
    BY <2>4, <2>5, <2>9 DEF IInv
<1>4. CASE StoreValue
  <2>1. /\ values' = [values EXCEPT ![write % Capacity] = pushed]
        /\ pusher = "store" /\ pusher' = "release"
        /\ UNCHANGED <<read, write, readView, readAcquired, writeView, writeAcquired>>
        /\ UNCHANGED <<pushed, popper, popped>>
    BY <1>4 DEF StoreValue, popVars
  <2>2. TypeInv'
    BY <1>1, <2>1 DEF TypeInv
  <2>3. StoredInv'
    BY <1>1, <2>1, SlotType DEF StoredInv, TypeInv
  <2>4. PushInv' /\ PopInv'
    BY <1>1, <2>1 DEF PushInv, PopInv
  <2> QED
    BY <2>2, <2>3, <2>4 DEF IInv
<1>5. CASE ReleaseWrite
  <2>1. /\ write' = Add(write, 1) /\ writeView' = writeView \cup {write'}
        /\ pushed' = pushed + 1 /\ pusher = "release" /\ pusher' = "out"
        /\ UNCHANGED <<values, read, readView, readAcquired, writeAcquired>>
        /\ UNCHANGED <<popper, popped>>
    BY <1>5 DEF ReleaseWrite, popVars
  <2>2. write' \in Counters
    BY <1>1, <2>1, SubAdvance DEF TypeInv
  <2>3. TypeInv' /\ StoredInv'
    BY <1>1, <2>1, <2>2 DEF TypeInv, StoredInv
  <2>4. \A u \in Counters : Sub(write, u) <= Capacity => Sub(write', u) = Sub(write, u) + 1
    BY <1>1, <2>1, SubAdvance DEF TypeInv
  <2>5. /\ Sub(write', read) = Sub(write, read) + 1
        /\ Sub(write', readAcquired) = Sub(write, readAcquired) + 1
        /\ \A v \in readView : Sub(write', v) = Sub(write, v) + 1
    BY <1>1, <1>2, <2>4 DEF TypeInv, PushInv
  <2>6. PushInv'
    BY <1>1, <1>2, <2>1, <2>5 DEF PushInv, TypeInv
  <2>7. PopInv'
    BY <1>1, <1>2, <2>1, <2>5 DEF PopInv, TypeInv
  <2> QED
    BY <2>3, <2>6, <2>7 DEF IInv
<1>6. CASE TryPop
  <2>1. PICK v \in writeView :
          /\ writeView' = NotOlder(writeView, write, v) /\ writeAcquired' = v
          /\ popper' = IF read = v THEN "out" ELSE "load"
    BY <1>6 DEF TryPop, AcquireWrite
  <2>2. /\ UNCHANGED <<values, read, write, readView, readAcquired, popped>>
        /\ UNCHANGED <<pusher, pushed>> /\ popper = "out"
    BY <1>6 DEF TryPop, pushVars
  <2>3. v \in Counters /\ writeView' \subseteq writeView
    BY <1>1, <2>1 DEF TypeInv, NotOlder
  <2>4. TypeInv'
    BY <1>1, <2>1, <2>2, <2>3 DEF TypeInv
  <2>5. PushInv' /\ StoredInv'
    BY <1>1, <2>1, <2>2 DEF PushInv, StoredInv
  <2>6. \A u \in writeView' : Sub(v, read) <= Sub(u, read)
    <3> SUFFICES ASSUME NEW u \in writeView' PROVE Sub(v, read) <= Sub(u, read)
      OBVIOUS
    <3>1. u \in writeView /\ u \in Counters /\ Sub(write, u) <= Sub(write, v)
      BY <1>1, <2>1 DEF NotOlder, TypeInv
    <3>2. /\ Sub(write, u) = Sub(write, read) - Sub(u, read)
          /\ Sub(write, v) = Sub(write, read) - Sub(v, read)
      BY <1>1, <2>3, <3>1, SubBetween DEF PopInv, TypeInv
    <3> QED
      BY <1>1, <1>2, <2>3, <3>1, <3>2 DEF TypeInv
  <2>7. popper' # "out" => Sub(v, read) >= 1
    BY <1>1, <1>2, <2>1, <2>3, SubZero DEF TypeInv
  <2>8. PopInv'
    BY <1>1, <2>1, <2>2, <2>3, <2>6, <2>7 DEF PopInv
  <2> QED
    BY <2>4, <2>5, <2>8 DEF IInv
<1>7. CASE LoadValue
  <2>1. /\ UNCHANGED <<values, read, write, readView, readAcquired, writeView>>
        /\ UNCHANGED <<writeAcquired, pusher, pushed, popped>>
        /\ popper = "load" /\ popper' = "release"
    BY <1>7 DEF LoadValue, ringVars, pushVars
  <2> QED
    BY <1>1, <2>1 DEF IInv, TypeInv, PushInv, PopInv, StoredInv
<1>8. CASE ReleaseRead
  <2>1. /\ read' = Add(read, 1) /\ readView' = readView \cup {read'}
        /\ popped' = popped + 1 /\ popper = "release" /\ popper' = "out"
        /\ UNCHANGED <<values, write, readAcquired, writeView, writeAcquired>>
        /\ UNCHANGED <<pusher, pushed>>
    BY <1>8 DEF ReleaseRead, pushVars
  <2>2. read' \in Counters
    BY <1>1, <2>1, SubAdvance DEF TypeInv
  <2>3. TypeInv' /\ StoredInv'
    BY <1>1, <2>1, <2>2 DEF TypeInv, StoredInv
  <2>4. \A u \in Counters : Sub(u, read) >= 1 => Sub(u, read') = Sub(u, read) - 1
    BY <1>1, <2>1, SubAdvance DEF TypeInv
  <2>5. /\ Sub(write, read') = Sub(write, read) - 1
        /\ Sub(writeAcquired, read') = Sub(writeAcquired, read) - 1
        /\ \A v \in writeView : Sub(v, read') = Sub(v, read) - 1
    BY <1>1, <1>2, <2>1, <2>4 DEF TypeInv, PopInv
  <2>6. PopInv'
    BY <1>1, <1>2, <2>1, <2>5 DEF PopInv, TypeInv
  <2>7. PushInv'
    BY <1>1, <1>2, <2>1, <2>5 DEF PushInv, TypeInv
  <2> QED
    BY <2>3, <2>6, <2>7 DEF IInv
<1>9. CASE Memory
  <2>1. /\ readView' = {read} /\ writeView' = {write}
        /\ UNCHANGED <<values, read, write, readAcquired, writeAcquired>>
        /\ UNCHANGED <<pusher, pushed, popper, popped>>
    BY <1>9 DEF Memory, pushVars, popVars
  <2> QED
    BY <1>1, <1>2, <2>1 DEF IInv, TypeInv, PushInv, PopInv, StoredInv
<1>10. CASE UNCHANGED vars
  BY <1>1, <1>10 DEF vars, ringVars, pushVars, popVars, IInv, TypeInv, PushInv,
                     PopInv, StoredInv
<1> QED
  BY <1>3, <1>4, <1>5, <1>6, <1>7, <1>8, <1>9, <1>10
     DEF Next, PushThread, PopThread, Ended

\* The invariant holds always.
LEMMA Invariance == Spec => []IInv
  BY InitIInv, NextIInv, PTL DEF Spec

------------------------------------------------------------------------------
(* The theorems.                                                           *)

\* Acquire and release order every store to a slot after the load of what it
\* held, and every load after the store of its value.
THEOREM SlotsDoNotRace == Spec => []NoSlotRace
<1>1. ASSUME IInv PROVE NoSlotRace
  <2>1. /\ TypeInv /\ PushInv /\ PopInv
        /\ \A x, y \in Counters : Sub(x, y) \in 0..(Wrap - 1)
    BY <1>1, SubCases DEF IInv, Counters
  <2> QED
    BY <2>1 DEF NoSlotRace, TypeInv, PushInv, PopInv
<1> QED
  BY <1>1, Invariance, PTL

\* The slot of the i-th value inside, when first is the oldest one's position.
SlotOf(first, i) == Add(first, i - 1) % Capacity

\* The values in the slots from first up to w are a sequence, in which a store
\* to the slot of w, when there is room, changes nothing.
LEMMA SlotsBehind ==
    ASSUME NEW w \in Counters, NEW first \in Counters, NEW f \in [Slots -> Nat]
    PROVE  LET n   == Sub(w, first)
               seq == [i \in 1..n |-> f[SlotOf(first, i)]]
           IN  /\ n \in Nat /\ seq \in Seq(Nat) /\ Len(seq) = n
               /\ SlotOf(first, n + 1) = w % Capacity
               /\ \A i \in 1..n : SlotOf(first, i) \in Slots
               /\ n < Capacity => \A i \in 1..n : SlotOf(first, i) # w % Capacity
<1> DEFINE n == Sub(w, first)
<1>1. n \in Nat
  BY SubCases DEF Counters
<1> HIDE DEF n
<1>2. \A i \in 1..n : /\ Add(first, i - 1) \in Counters
                      /\ Sub(w, Add(first, i - 1)) = n - (i - 1)
  <2> SUFFICES ASSUME NEW i \in 1..n
               PROVE  /\ Add(first, i - 1) \in Counters
                      /\ Sub(w, Add(first, i - 1)) = n - (i - 1)
    OBVIOUS
  <2>1. i - 1 \in 0..n
    BY <1>1
  <2> QED
    BY <2>1, AddSteps DEF n
<1>3. \A i \in 1..n : SlotOf(first, i) \in Slots
  BY <1>2, SlotType DEF SlotOf
<1>4. SlotOf(first, n + 1) = w % Capacity
  <2>1. n \in 0..n /\ n + 1 - 1 = n
    BY <1>1
  <2>2. Add(first, n) = w
    BY <2>1, AddSteps DEF n
  <2> QED
    BY <2>1, <2>2 DEF SlotOf
<1>5. n < Capacity => \A i \in 1..n : SlotOf(first, i) # w % Capacity
  <2> SUFFICES ASSUME n < Capacity, NEW i \in 1..n
               PROVE  SlotOf(first, i) # w % Capacity
    OBVIOUS
  <2>1. Sub(w, Add(first, i - 1)) \in 1..(Capacity - 1)
    BY <1>1, <1>2
  <2> QED
    BY <1>2, <2>1, SlotsDiffer DEF SlotOf
<1>6. \A i \in 1..n : f[SlotOf(first, i)] \in Nat
  BY <1>3
<1>7. LET seq == [i \in 1..n |-> f[SlotOf(first, i)]]
      IN  seq \in Seq(Nat) /\ Len(seq) = n
  BY <1>1, <1>6
<1> QED
  BY <1>1, <1>3, <1>4, <1>5, <1>7 DEF n

\* Where the popper's next value is: a position, with at most Capacity values
\* from there to write_, fewer while a push is in progress.
LEMMA TakenType ==
    ASSUME IInv
    PROVE  /\ Taken \in Counters /\ Sub(write, Taken) \in 0..Capacity
           /\ pusher # "out" => Sub(write, Taken) < Capacity
<1>1. /\ TypeInv /\ PushInv /\ PopInv
      /\ \A x, y \in Counters : Sub(x, y) \in 0..(Wrap - 1)
  BY SubCases DEF IInv, Counters
<1>2. /\ Sub(write, read) \in 0..Capacity
      /\ pusher # "out" => Sub(write, read) < Capacity
  BY <1>1 DEF TypeInv, PushInv
<1>3. CASE popper = "release"
  <2>1. Taken = Add(read, 1) /\ Sub(write, read) >= 1
    BY <1>1, <1>3 DEF Taken, PopInv, TypeInv
  <2>2. Taken \in Counters /\ Sub(write, Taken) = Sub(write, read) - 1
    BY <1>1, <2>1, SubAdvance DEF TypeInv
  <2> QED
    BY <1>2, <2>1, <2>2
<1>4. CASE popper # "release"
  BY <1>1, <1>2, <1>4 DEF Taken, TypeInv
<1> QED
  BY <1>3, <1>4

\* A push goes in where its store to write_ is, a pop comes out where its value
\* is loaded, and no other step changes what is inside.
LEMMA RingMoves ==
    ASSUME IInv, [Next]_vars
    PROVE  /\ ReleaseWrite => Fifo!Push
           /\ LoadValue => Fifo!Pop
           /\ ReleaseWrite \/ LoadValue \/ UNCHANGED Fifo!fifoVars
<1> DEFINE n == Sub(write, Taken)
<1>1. /\ TypeInv /\ PushInv /\ PopInv /\ StoredInv
      /\ Taken \in Counters /\ n \in 0..Capacity
      /\ pusher # "out" => n < Capacity
  BY TakenType DEF IInv
<1>2. Inside = [i \in 1..n |-> values[SlotOf(Taken, i)]]
  BY DEF Inside, SlotOf
<1>3. /\ Inside \in Seq(Nat) /\ Len(Inside) = n
      /\ SlotOf(Taken, n + 1) = write % Capacity
      /\ \A i \in 1..n : SlotOf(Taken, i) \in Slots
      /\ n < Capacity => \A i \in 1..n : SlotOf(Taken, i) # write % Capacity
  BY <1>1, <1>2, SlotsBehind DEF TypeInv
<1> HIDE DEF n
<1>4. ASSUME TryPush \/ TryPop \/ Memory
      PROVE  UNCHANGED Fifo!fifoVars
  <2>1. UNCHANGED <<values, read, write, pushed, value>>
    BY <1>4 DEF TryPush, TryPop, Memory, pushVars, popVars
  <2>2. popper' = "release" <=> popper = "release"
    BY <1>4 DEF TryPush, TryPop, Memory, popVars
  <2>3. Taken' = Taken
    BY <2>1, <2>2 DEF Taken
  <2> QED
    BY <2>1, <2>3 DEF Fifo!fifoVars, Inside
<1>5. ASSUME StoreValue
      PROVE  UNCHANGED Fifo!fifoVars
  <2>1. /\ values' = [values EXCEPT ![write % Capacity] = pushed]
        /\ UNCHANGED <<read, write, popper, pushed, value>> /\ pusher = "store"
    BY <1>5 DEF StoreValue, popVars
  <2>2. Taken' = Taken
    BY <2>1 DEF Taken
  <2>3. \A i \in 1..n : values'[SlotOf(Taken, i)] = values[SlotOf(Taken, i)]
    BY <1>1, <1>3, <2>1 DEF TypeInv
  <2>4. Inside' = [i \in 1..n |-> values'[SlotOf(Taken, i)]]
    BY <2>1, <2>2 DEF Inside, SlotOf, n
  <2>5. Inside' = Inside
    BY <1>2, <2>3, <2>4
  <2> QED
    BY <2>1, <2>5 DEF Fifo!fifoVars
<1>6. ASSUME ReleaseWrite
      PROVE  Fifo!Push
  <2>1. /\ write' = Add(write, 1) /\ pushed' = pushed + 1 /\ pusher = "release"
        /\ UNCHANGED <<values, read, popper, value>>
        /\ pushed \in Nat /\ values[write % Capacity] = pushed
    BY <1>1, <1>6 DEF ReleaseWrite, popVars, StoredInv, TypeInv
  <2>2. Taken' = Taken /\ n < Capacity
    BY <1>1, <2>1 DEF Taken
  <2>3. Sub(write', Taken) = n + 1
    BY <1>1, <2>1, SubAdvance DEF n, TypeInv
  <2>4. Inside' = [i \in 1..(n + 1) |-> values[SlotOf(Taken, i)]]
    BY <2>1, <2>2, <2>3 DEF Inside, SlotOf
  <2>5. Append(Inside, pushed) =
          [i \in 1..(n + 1) |-> IF i <= n THEN Inside[i] ELSE pushed]
    BY <1>1, <1>2, <1>3, <2>1
  <2>6. \A i \in 1..(n + 1) :
          values[SlotOf(Taken, i)] = IF i <= n THEN Inside[i] ELSE pushed
    BY <1>1, <1>2, <1>3, <2>1
  <2>7. Inside' = Append(Inside, pushed)
    BY <2>4, <2>5, <2>6
  <2> QED
    BY <1>1, <1>3, <2>1, <2>2, <2>7 DEF Fifo!Push
<1>7. ASSUME LoadValue
      PROVE  Fifo!Pop
  <2>1. /\ value' = values[read % Capacity] /\ UNCHANGED <<values, read, write, pushed>>
        /\ popper = "load" /\ popper' = "release"
    BY <1>7 DEF LoadValue, ringVars, pushVars
  <2>2. Taken = read /\ Taken' = Add(read, 1) /\ read \in Counters
    BY <1>1, <2>1 DEF Taken, TypeInv
  <2>3. n >= 1
    <3>1. Sub(writeAcquired, read) \in Counters /\ Sub(write, read) \in Counters
      BY <1>1, SubCases DEF TypeInv
    <3> QED
      BY <1>1, <2>1, <2>2, <3>1 DEF PopInv, n, Counters
  <2>4. Sub(write, Taken') = n - 1
    BY <1>1, <2>2, <2>3, SubAdvance DEF n, TypeInv
  <2>5. Inside' = [i \in 1..(n - 1) |-> values[SlotOf(Taken', i)]]
    BY <2>1, <2>4 DEF Inside, SlotOf
  <2>6. \A i \in 1..(n - 1) : SlotOf(Taken', i) = SlotOf(Taken, i + 1)
    <3> SUFFICES ASSUME NEW i \in 1..(n - 1)
                 PROVE  Add(Add(read, 1), i - 1) = Add(read, i)
      BY <1>1, <2>2 DEF SlotOf
    <3>1. i - 1 \in 0..Sub(write, read) /\ i - 1 < Sub(write, read)
      BY <1>1, <2>2 DEF n
    <3>2. Add(Add(read, 1), i - 1) = Add(read, (i - 1) + 1)
      BY <1>1, <2>2, <3>1, AddSteps DEF TypeInv
    <3>3. (i - 1) + 1 = i
      BY <1>1
    <3> QED
      BY <3>2, <3>3
  <2>7. Inside # <<>> /\ Head(Inside) = values[read % Capacity]
    <3>1. SlotOf(Taken, 1) = read % Capacity
      <4>1. 0 \in Counters /\ Add(read, 0) = read
        <5>1. 0 \in Counters
          BY DEF Counters
        <5> QED
          BY <2>2, <5>1, AddCases DEF Counters
      <4> QED
        BY <2>2, <4>1 DEF SlotOf
    <3> QED
      BY <1>1, <1>2, <1>3, <2>3, <3>1
  <2>8. Tail(Inside) = [i \in 1..(n - 1) |-> Inside[i + 1]]
    BY <1>1, <1>2, <1>3, <2>3
  <2>9. \A i \in 1..(n - 1) : values[SlotOf(Taken', i)] = Inside[i + 1]
    BY <1>1, <1>2, <2>6
  <2>10. Inside' = Tail(Inside)
    BY <2>5, <2>8, <2>9
  <2> QED
    BY <2>1, <2>7, <2>10 DEF Fifo!Pop
<1>8. ASSUME ReleaseRead
      PROVE  UNCHANGED Fifo!fifoVars
  <2>1. /\ read' = Add(read, 1) /\ popper = "release" /\ popper' = "out"
        /\ UNCHANGED <<values, write, pushed, value>>
    BY <1>8 DEF ReleaseRead, pushVars
  <2>2. Taken' = Taken
    BY <2>1 DEF Taken
  <2> QED
    BY <2>1, <2>2 DEF Fifo!fifoVars, Inside
<1>9. ASSUME UNCHANGED vars
      PROVE  UNCHANGED Fifo!fifoVars
  BY <1>9 DEF vars, ringVars, pushVars, popVars, Fifo!fifoVars, Inside, Taken
<1> QED
  BY <1>4, <1>5, <1>6, <1>7, <1>8, <1>9 DEF Next, PushThread, PopThread, Ended

\* Every step of the ring is a push, a pop or a stutter of a bounded FIFO.
THEOREM RingIsAFifo == Spec => ImplementsFifo
<1>1. Init => Fifo!FifoInit
  <2> SUFFICES ASSUME Init PROVE Fifo!FifoInit
    OBVIOUS
  <2>1. Sub(write, Taken) = 0
    <3>1. 0 \in Counters
      BY DEF Counters
    <3> QED
      BY <3>1, SubZero DEF Init, Taken
  <2>2. Inside = <<>>
    BY <2>1 DEF Inside
  <2> QED
    BY <2>2 DEF Init, Fifo!FifoInit
<1>2. ASSUME IInv, [Next]_vars
      PROVE  [Fifo!Push \/ Fifo!Pop]_(Fifo!fifoVars)
  BY <1>2, RingMoves
<1> QED
  BY <1>1, <1>2, Invariance, PTL DEF Spec, ImplementsFifo, Fifo!FifoSpec

------------------------------------------------------------------------------
(* What comes out.                                                         *)

\* How many values have come out.
Out == IF popper = "release" THEN popped + 1 ELSE popped

\* The values inside are the ones pushed and not yet out, a value that is loaded
\* and not yet counted is the next one, and the others are in the sum.
SumInv ==
    /\ checksum \in Nat
    /\ Inside \in Seq(Nat) /\ pushed = Out + Len(Inside)
    /\ \A i \in 1..Len(Inside) : Inside[i] = Out + i - 1
    /\ popper = "release" => value = popped
    /\ ChecksumIsExact

\* n more to a sum of the numbers below n is the sum of the numbers up to n.
LEMMA NextSum ==
    ASSUME NEW n \in Nat, NEW s \in Nat, 2 * s = n * (n - 1)
    PROVE  2 * (s + n) = (n + 1) * ((n + 1) - 1)
<1> DEFINE x == n * (n - 1)
<1>1. (n + 1) * ((n + 1) - 1) = x + 2 * n /\ x \in Int
  OBVIOUS
<1>2. 2 * s = x
  OBVIOUS
<1> HIDE DEF x
<1> QED
  BY <1>1, <1>2

\* Every step keeps it.
LEMMA SumSteps ==
    ASSUME IInv, SumInv, [Next]_vars
    PROVE  SumInv'
<1>1. popped \in Nat /\ pushed \in Nat
  BY DEF IInv, TypeInv
<1>2. CASE ReleaseWrite
  <2>1. Inside' = Append(Inside, pushed) /\ pushed' = pushed + 1
    BY <1>2, RingMoves DEF Fifo!Push
  <2>2. UNCHANGED <<popper, popped, value, checksum>>
    BY <1>2 DEF ReleaseWrite, popVars
  <2>3. Out' = Out /\ Out \in Nat
    BY <1>1, <2>2 DEF Out
  <2>4. /\ Inside' \in Seq(Nat) /\ Len(Inside') = Len(Inside) + 1
        /\ \A i \in 1..Len(Inside) : Inside'[i] = Inside[i]
        /\ Inside'[Len(Inside) + 1] = pushed /\ Len(Inside) \in Nat
    BY <1>1, <2>1 DEF SumInv
  <2>5. pushed' = Out' + Len(Inside')
    BY <1>1, <2>1, <2>3, <2>4 DEF SumInv
  <2>6. \A i \in 1..Len(Inside') : Inside'[i] = Out' + i - 1
    BY <1>1, <2>1, <2>3, <2>4 DEF SumInv
  <2> QED
    BY <2>2, <2>4, <2>5, <2>6 DEF SumInv, ChecksumIsExact
<1>3. CASE LoadValue
  <2>1. /\ Inside # <<>> /\ value' = Head(Inside) /\ Inside' = Tail(Inside)
        /\ pushed' = pushed
    BY <1>3, RingMoves DEF Fifo!Pop
  <2>2. popper = "load" /\ popper' = "release" /\ UNCHANGED <<popped, checksum>>
    BY <1>3 DEF LoadValue
  <2>3. Out = popped /\ Out' = popped + 1
    BY <2>2 DEF Out
  <2>4. /\ Inside' \in Seq(Nat) /\ Len(Inside') = Len(Inside) - 1
        /\ Len(Inside) \in Nat \ {0} /\ Head(Inside) = Inside[1]
        /\ \A i \in 1..Len(Inside') : Inside'[i] = Inside[i + 1]
    BY <2>1 DEF SumInv
  <2>5. Inside[1] = popped
    BY <1>1, <2>3, <2>4 DEF SumInv
  <2>6. pushed' = Out' + Len(Inside')
    BY <1>1, <2>1, <2>3, <2>4 DEF SumInv
  <2>7. \A i \in 1..Len(Inside') : Inside'[i] = Out' + i - 1
    BY <1>1, <2>3, <2>4 DEF SumInv
  <2> QED
    BY <2>1, <2>2, <2>4, <2>5, <2>6, <2>7 DEF SumInv, ChecksumIsExact
<1>4. CASE ReleaseRead
  <2>1. /\ popped' = popped + 1 /\ checksum' = checksum + value
        /\ popper = "release" /\ popper' = "out"
    BY <1>4 DEF ReleaseRead
  <2>2. UNCHANGED Fifo!fifoVars
    BY <1>4, RingMoves DEF ReleaseRead, ReleaseWrite, LoadValue, pushVars
  <2>3. value = popped /\ Out' = Out
    BY <2>1 DEF SumInv, Out
  <2>4. checksum' \in Nat /\ ChecksumIsExact'
    BY <1>1, <2>1, <2>3, NextSum DEF SumInv, ChecksumIsExact
  <2> QED
    BY <2>1, <2>2, <2>3, <2>4 DEF SumInv, Fifo!fifoVars
<1>5. CASE ~ReleaseWrite /\ ~LoadValue /\ ~ReleaseRead
  <2>1. /\ UNCHANGED <<popped, checksum>>
        /\ popper' = "release" <=> popper = "release"
    BY <1>5 DEF Next, PushThread, PopThread, TryPush, StoreValue, TryPop,
                Memory, Ended, vars, popVars
  <2>2. UNCHANGED Fifo!fifoVars
    BY <1>5, RingMoves
  <2>3. Out' = Out
    BY <2>1 DEF Out
  <2> QED
    BY <2>1, <2>2, <2>3 DEF SumInv, ChecksumIsExact, Fifo!fifoVars
<1> QED
  BY <1>2, <1>3, <1>4, <1>5

\* The checksum that benchmark_spsc_ring compares at its end is right at every
\* moment: each value has been summed once, over any rollover.
THEOREM RingSumsEveryValue == Spec => []ChecksumIsExact
<1>1. Init => SumInv
  <2> SUFFICES ASSUME Init PROVE SumInv
    OBVIOUS
  <2>1. Sub(write, Taken) = 0
    <3>1. 0 \in Counters
      BY DEF Counters
    <3> QED
      BY <3>1, SubZero DEF Init, Taken
  <2>2. Inside = <<>> /\ Out = 0
    BY <2>1 DEF Inside, Out, Init
  <2> QED
    BY <2>2 DEF Init, SumInv, ChecksumIsExact
<1>2. SumInv => ChecksumIsExact
  BY DEF SumInv
<1> QED
  BY <1>1, <1>2, SumSteps, Invariance, PTL DEF Spec
==============================================================================
