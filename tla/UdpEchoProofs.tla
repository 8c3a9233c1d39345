---------------------------- MODULE UdpEchoProofs ----------------------------
(***************************************************************************)
(* The accounts of run_udp, for any number of warm-up and measured         *)
(* requests and whatever the network loses, delays, copies, swaps or       *)
(* delivers from other processes.                                          *)
(***************************************************************************)
EXTENDS UdpEcho, FiniteSetTheorems, SequenceTheorems, TLAPS

------------------------------------------------------------------------------
(* The inductive invariant.                                                *)

CountType == [seen : SUBSET Measured, high : -1..Total, duplicates : Nat,
              reordered : Nat, invalid : Nat, truncated : Nat]

UdpTypes ==
    /\ requests \in Seq(Datagram) /\ responses \in Seq(Datagram)
    /\ disturbed \in [copy : Nat, swap : Nat, stray : Nat]
    /\ server_state \in {-1, 0, 1, 2}
    /\ server \in [pc : {"start", "check", "receive", "echo", "count", "stop",
                         "ended"},
                   datagram : Datagram, count : CountType]
    /\ client \in [pc : {"start", "send", "wait", "receive", "missed", "join",
                         "cancel", "unwind", "returned", "threw"},
                   index : 0..Total, completed : Seq(Measured),
                   count : CountType]

Elements(queue) == {queue[i] : i \in DOMAIN queue}

\* What is on its way: queued datagrams, and the one the server is to echo.
Echoing == IF server.pc = "echo" THEN {server.datagram} ELSE {}
Counting == IF server.pc \in {"echo", "count"} THEN {server.datagram} ELSE {}

\* Where the threads are.
Places ==
    /\ client.pc = "receive" => responses # <<>>
    /\ client.pc = "missed" => client.index >= Warmup
    /\ client.pc \in {"wait", "receive", "missed"} => client.index < Total
    /\ server.pc = "ended" => server_state \in {-1, 2}
    /\ server_state = -1 => server.pc = "ended"
    /\ \A d \in Counting : d.seq < Total /\ d.kind \in {"whole", "body"}

\* Every answer from the server was echoed, and the server counts what it has
\* echoed unless it fails first.
Answers ==
    /\ \A d \in Elements(responses) : /\ d.from = "server" => d.seq \in echoed
                                      /\ FromServer(d) => d.from = "server"
    /\ \A n \in echoed : \/ n < Warmup \/ n \in server.count.seen
                         \/ server.pc = "count" /\ server.datagram.seq = n
                         \/ server_state = -1

\* Samples are taken in request order.
InOrder ==
    /\ \A i \in DOMAIN client.completed :
         client.completed[i] < client.index /\ client.completed[i] \in echoed
    /\ \A i, j \in DOMAIN client.completed :
         i < j => client.completed[i] < client.completed[j]
    /\ client.pc = "returned" =>
         server.pc = "ended" /\ Completed \subseteq server.count.seen

\* The request n has been sent.
WasSent(n) == \/ n < client.index
              \/ n = client.index /\ client.pc \notin {"start", "send"}

\* Without strays only this run's own messages are around.
OwnTraffic ==
    disturbed.stray = 0 =>
        /\ \A d \in Elements(requests) :
             d.kind = "whole" /\ d.from = "client"
             /\ d.seq < Total /\ WasSent(d.seq)
        /\ \A d \in Elements(responses) :
             d.kind = "whole" /\ d.from = "server"
             /\ d.seq < Total /\ WasSent(d.seq)
        /\ \A d \in Counting :
             d.kind = "whole" /\ d.from = "client" /\ WasSent(d.seq)
        /\ \A n \in server.count.seen \cup client.count.seen : WasSent(n)
        /\ server.count.truncated = 0 /\ client.count.truncated = 0
        /\ server.count.invalid = 0

Distinct(queue) ==
    \A i, j \in DOMAIN queue : i # j => queue[i].seq # queue[j].seq

\* Without strays and copies every request is in one place at a time: queued,
\* with the server, answered or taken; and a warm-up request that was answered
\* is gone.
Once ==
    disturbed.copy = 0 /\ disturbed.stray = 0 =>
        /\ Distinct(requests) /\ Distinct(responses)
        /\ \A d \in Elements(requests), e \in Elements(responses) :
             d.seq # e.seq
        /\ \A d \in Elements(requests), e \in Counting : d.seq # e.seq
        /\ \A d \in Elements(responses), e \in Echoing : d.seq # e.seq
        /\ \A d \in Elements(requests) \cup Counting :
             d.seq \notin server.count.seen
        /\ \A d \in Elements(requests) \cup Echoing \cup Elements(responses) :
             /\ d.seq \notin client.count.seen
             /\ d.seq < Warmup => d.seq >= client.index
        /\ server.count.duplicates = 0 /\ client.count.duplicates = 0
        /\ client.count.invalid = 0

Sorted(queue) ==
    \A i, j \in DOMAIN queue : i < j => queue[i].seq <= queue[j].seq

\* Without strays and swaps messages are in request order everywhere.
Ordered ==
    disturbed.swap = 0 /\ disturbed.stray = 0 =>
        /\ Sorted(requests) /\ Sorted(responses)
        /\ \A d \in Elements(requests), e \in Elements(responses) :
             e.seq <= d.seq
        /\ \A d \in Elements(requests), e \in Counting : e.seq <= d.seq
        /\ \A d \in Elements(responses), e \in Counting : d.seq <= e.seq
        /\ \A d \in Elements(requests) \cup Counting :
             server.count.high <= d.seq
        /\ \A d \in Elements(requests) \cup Echoing \cup Elements(responses) :
             client.count.high <= d.seq
        /\ server.count.reordered = 0 /\ client.count.reordered = 0

\* The newest sequence was seen.
Highs ==
    /\ server.count.high = -1 \/ server.count.high \in server.count.seen
    /\ client.count.high = -1 \/ client.count.high \in client.count.seen

UdpInv == /\ UdpTypes /\ Places /\ Answers /\ InOrder /\ Highs
          /\ OwnTraffic /\ Once /\ Ordered

------------------------------------------------------------------------------
(* Queues of datagrams.                                                    *)

\* The elements of a queue, and what orders and tells them apart.
LEMMA QueueIs ==
    ASSUME NEW q \in Seq(Datagram)
    PROVE  /\ Len(q) \in Nat /\ DOMAIN q = 1..Len(q)
           /\ \A i \in 1..Len(q) : q[i] \in Datagram /\ q[i].seq \in 0..Total
           /\ Elements(q) \subseteq Datagram
           /\ q # <<>> => Len(q) >= 1
  <1>1. Len(q) \in Nat /\ DOMAIN q = 1..Len(q)
    OBVIOUS
  <1>2. \A i \in 1..Len(q) : q[i] \in Datagram
    OBVIOUS
  <1>3. \A d \in Datagram : d.seq \in 0..Total
    BY DEF Datagram
  <1>4. Elements(q) \subseteq Datagram
    BY <1>1, <1>2 DEF Elements
  <1>5. q # <<>> => Len(q) >= 1
    BY <1>1, EmptySeq
  <1> QED
    BY <1>1, <1>2, <1>3, <1>4, <1>5

\* A datagram joins a queue.
LEMMA QueueAppend ==
    ASSUME NEW q \in Seq(Datagram), NEW d \in Datagram
    PROVE  /\ Append(q, d) \in Seq(Datagram) /\ Append(q, d) # <<>>
           /\ Elements(Append(q, d)) = Elements(q) \cup {d}
           /\ Distinct(q) /\ (\A e \in Elements(q) : e.seq # d.seq)
                => Distinct(Append(q, d))
           /\ Sorted(q) /\ (\A e \in Elements(q) : e.seq <= d.seq)
                => Sorted(Append(q, d))
  <1> DEFINE r == Append(q, d)
             n == Len(q)
  <1>1. /\ r \in Seq(Datagram) /\ r # <<>> /\ n \in Nat /\ DOMAIN q = 1..n
        /\ DOMAIN r = 1..(n + 1) /\ r[n + 1] = d
        /\ \A i \in 1..n : i \in 1..(n + 1) /\ r[i] = q[i]
    OBVIOUS
  <1> HIDE DEF r, n
  <1>2. Elements(r) = Elements(q) \cup {d}
    <2>1. ASSUME NEW e \in Elements(r)
          PROVE  e \in Elements(q) \cup {d}
      <3>1. PICK i \in 1..(n + 1) : e = r[i]
        BY <1>1, <2>1 DEF Elements
      <3>2. i \in 1..n \/ i = n + 1
        BY <1>1
      <3> QED
        BY <1>1, <3>1, <3>2 DEF Elements
    <2>2. d \in Elements(r)
      <3>1. n + 1 \in 1..(n + 1)
        BY <1>1
      <3> QED
        BY <1>1, <3>1 DEF Elements
    <2>3. Elements(q) \subseteq Elements(r)
      BY <1>1 DEF Elements
    <2> QED
      BY <2>1, <2>2, <2>3
  <1>3. ASSUME Distinct(q), \A e \in Elements(q) : e.seq # d.seq
        PROVE  Distinct(r)
    <2> SUFFICES ASSUME NEW i \in 1..(n + 1), NEW j \in 1..(n + 1), i # j
                 PROVE  r[i].seq # r[j].seq
      BY <1>1 DEF Distinct
    <2>1. \A k \in 1..n : r[k].seq # d.seq
      BY <1>1, <1>3 DEF Elements
    <2>2. (i \in 1..n \/ i = n + 1) /\ (j \in 1..n \/ j = n + 1)
      BY <1>1
    <2>3. CASE i \in 1..n /\ j \in 1..n
      BY <1>1, <1>3, <2>3 DEF Distinct
    <2> QED
      BY <1>1, <2>1, <2>2, <2>3
  <1>4. ASSUME Sorted(q), \A e \in Elements(q) : e.seq <= d.seq
        PROVE  Sorted(r)
    <2> SUFFICES ASSUME NEW i \in 1..(n + 1), NEW j \in 1..(n + 1), i < j
                 PROVE  r[i].seq <= r[j].seq
      BY <1>1 DEF Sorted
    <2>1. \A k \in 1..n : r[k].seq <= d.seq
      BY <1>1, <1>4 DEF Elements
    <2>2. i \in 1..n /\ (j \in 1..n \/ j = n + 1)
      BY <1>1
    <2>3. CASE j \in 1..n
      BY <1>1, <1>4, <2>2, <2>3 DEF Sorted
    <2> QED
      BY <1>1, <2>1, <2>2, <2>3
  <1> QED
    BY <1>1, <1>2, <1>3, <1>4 DEF r

\* The oldest datagram leaves a queue.
LEMMA QueueTail ==
    ASSUME NEW q \in Seq(Datagram), q # <<>>
    PROVE  /\ Head(q) \in Datagram /\ Head(q) \in Elements(q)
           /\ Tail(q) \in Seq(Datagram)
           /\ Elements(Tail(q)) \subseteq Elements(q)
           /\ Distinct(q) => /\ Distinct(Tail(q))
                             /\ \A e \in Elements(Tail(q)) : e.seq # Head(q).seq
           /\ Sorted(q) => /\ Sorted(Tail(q))
                           /\ \A e \in Elements(Tail(q)) : Head(q).seq <= e.seq
  <1> DEFINE r == Tail(q)
             h == Head(q)
             n == Len(q)
  <1>1. /\ n \in Nat \ {0} /\ h = q[1] /\ h \in Datagram
        /\ DOMAIN q = 1..n /\ DOMAIN r = 1..(n - 1) /\ r \in Seq(Datagram)
        /\ \A i \in 1..(n - 1) : i + 1 \in 1..n /\ r[i] = q[i + 1]
    BY QueueIs, HeadTailProperties
  <1> HIDE DEF r, h, n
  <1>2. 1 \in 1..n
    BY <1>1
  <1>3. h \in Elements(q)
    BY <1>1, <1>2 DEF Elements
  <1>4. Elements(r) \subseteq Elements(q)
    BY <1>1 DEF Elements
  <1>5. ASSUME Distinct(q)
        PROVE  Distinct(r) /\ \A e \in Elements(r) : e.seq # h.seq
    <2>1. \A i, j \in 1..(n - 1) : i # j => r[i].seq # r[j].seq
      <3> SUFFICES ASSUME NEW i \in 1..(n - 1), NEW j \in 1..(n - 1), i # j
                   PROVE  r[i].seq # r[j].seq
        OBVIOUS
      <3>1. /\ i + 1 # j + 1 /\ i + 1 \in DOMAIN q /\ j + 1 \in DOMAIN q
            /\ r[i] = q[i + 1] /\ r[j] = q[j + 1]
        BY <1>1
      <3>2. q[i + 1].seq # q[j + 1].seq
        BY <1>5, <3>1 DEF Distinct
      <3> QED
        BY <3>1, <3>2
    <2>2. \A i \in 1..(n - 1) : r[i].seq # h.seq
      <3> SUFFICES ASSUME NEW i \in 1..(n - 1)
                   PROVE  r[i].seq # h.seq
        OBVIOUS
      <3>1. i + 1 # 1
        BY <1>1
      <3> QED
        BY <1>1, <1>2, <1>5, <3>1, SMTT(30) DEF Distinct
    <2> QED
      BY <1>1, <2>1, <2>2 DEF Distinct, Elements
  <1>6. ASSUME Sorted(q)
        PROVE  Sorted(r) /\ \A e \in Elements(r) : h.seq <= e.seq
    <2>1. \A i, j \in 1..(n - 1) : i < j => r[i].seq <= r[j].seq
      <3> SUFFICES ASSUME NEW i \in 1..(n - 1), NEW j \in 1..(n - 1), i < j
                   PROVE  r[i].seq <= r[j].seq
        OBVIOUS
      <3>1. i + 1 < j + 1
        BY <1>1
      <3> QED
        BY <1>1, <1>6, <3>1 DEF Sorted
    <2>2. \A i \in 1..(n - 1) : h.seq <= r[i].seq
      <3> SUFFICES ASSUME NEW i \in 1..(n - 1)
                   PROVE  h.seq <= r[i].seq
        OBVIOUS
      <3>1. 1 < i + 1
        BY <1>1
      <3> QED
        BY <1>1, <1>2, <1>6, <3>1 DEF Sorted
    <2> QED
      BY <1>1, <2>1, <2>2 DEF Sorted, Elements
  <1> QED
    BY <1>1, <1>3, <1>4, <1>5, <1>6 DEF r, h

\* The network copies a datagram: order is kept.
LEMMA QueueCopy ==
    ASSUME NEW q \in Seq(Datagram), NEW i \in DOMAIN q
    PROVE  /\ Copy(q, i) \in Seq(Datagram) /\ Copy(q, i) # <<>>
           /\ Elements(Copy(q, i)) \subseteq Elements(q)
           /\ Sorted(q) => Sorted(Copy(q, i))
  <1> DEFINE n == Len(q)
             a == SubSeq(q, 1, i)
             b == SubSeq(q, i, n)
             r == a \o b
  <1>1. n \in Nat /\ DOMAIN q = 1..n /\ i \in 1..n
        /\ \A k \in 1..n : q[k] \in Datagram /\ q[k].seq \in 0..Total
    BY QueueIs
  <1>2. a \in Seq(Datagram) /\ Len(a) = i /\ \A k \in 1..i : a[k] = q[k]
    BY <1>1
  <1>3. /\ b \in Seq(Datagram) /\ Len(b) = n - i + 1
        /\ \A k \in 1..(n - i + 1) : b[k] = q[i + k - 1]
    BY <1>1
  <1> HIDE DEF a, b
  <1>4. /\ r \in Seq(Datagram) /\ DOMAIN r = 1..(n + 1)
        /\ \A k \in 1..(n + 1) : r[k] = IF k <= i THEN a[k] ELSE b[k - i]
    <2>1. Len(a) + Len(b) = n + 1
      BY <1>1, <1>2, <1>3
    <2>2. /\ r \in Seq(Datagram) /\ Len(r) = Len(a) + Len(b)
          /\ \A k \in 1..(Len(a) + Len(b)) :
                r[k] = IF k <= Len(a) THEN a[k] ELSE b[k - Len(a)]
      BY <1>2, <1>3, ConcatProperties
    <2>3. DOMAIN r = 1..Len(r)
      BY <2>2
    <2> QED
      BY <1>2, <2>1, <2>2, <2>3
  <1> DEFINE from(k) == IF k <= i THEN k ELSE k - 1
  <1> HIDE DEF r
  <1>5. ASSUME NEW k \in 1..(n + 1)
        PROVE  from(k) \in 1..n /\ r[k] = q[from(k)]
    <2>1. CASE k <= i
      BY <1>1, <1>2, <1>4, <2>1
    <2>2. CASE k > i
      <3>1. k - i \in 1..(n - i + 1) /\ i + (k - i) - 1 = k - 1 /\ k - 1 \in 1..n
        BY <1>1, <2>2
      <3>2. r[k] = b[k - i]
        BY <1>1, <1>4, <2>2
      <3>3. b[k - i] = q[i + (k - i) - 1]
        BY <1>3, <3>1
      <3> QED
        BY <1>1, <2>2, <3>1, <3>2, <3>3
    <2> QED
      BY <1>1, <2>1, <2>2
  <1>6. \A j, k \in 1..(n + 1) : j < k => from(j) <= from(k)
    BY <1>1
  <1> HIDE DEF from
  <1>7. Elements(r) \subseteq Elements(q)
    BY <1>1, <1>4, <1>5 DEF Elements
  <1>8. ASSUME Sorted(q), NEW j \in 1..(n + 1), NEW k \in 1..(n + 1), j < k
        PROVE  r[j].seq <= r[k].seq
    <2>1. from(j) \in 1..n /\ from(k) \in 1..n /\ from(j) <= from(k)
      BY <1>5, <1>6, <1>8
    <2>2. q[from(j)].seq <= q[from(k)].seq
      <3>1. CASE from(j) = from(k)
        BY <1>1, <2>1, <3>1
      <3>2. CASE from(j) < from(k)
        BY <1>1, <1>8, <2>1, <3>2 DEF Sorted
      <3> QED
        BY <2>1, <3>1, <3>2
    <2> QED
      BY <1>5, <2>2
  <1>9. Sorted(q) => Sorted(r)
    BY <1>4, <1>8 DEF Sorted
  <1>10. r # <<>>
    <2>1. 1 \in DOMAIN r
      BY <1>1, <1>4
    <2> QED
      BY <2>1
  <1> QED
    BY <1>4, <1>7, <1>9, <1>10 DEF Copy, r, a, b

\* The network swaps two datagrams: none is added.
LEMMA QueueSwap ==
    ASSUME NEW q \in Seq(Datagram), NEW i \in 1..(Len(q) - 1)
    PROVE  /\ Swap(q, i) \in Seq(Datagram) /\ Swap(q, i) # <<>>
           /\ Elements(Swap(q, i)) \subseteq Elements(q)
           /\ Distinct(q) => Distinct(Swap(q, i))
  <1> DEFINE n == Len(q)
             r == Swap(q, i)
             from(k) == IF k = i THEN i + 1 ELSE IF k = i + 1 THEN i ELSE k
  <1>1. n \in Nat /\ DOMAIN q = 1..n /\ i \in 1..n /\ i + 1 \in 1..n
        /\ \A k \in 1..n : q[k] \in Datagram
    BY QueueIs
  <1>2. /\ r \in Seq(Datagram) /\ DOMAIN r = 1..n
        /\ \A k \in 1..n : r[k] = q[from(k)]
    <2>1. r \in [1..n -> Datagram]
      BY <1>1 DEF Swap
    <2>2. \A k \in 1..n : r[k] = q[from(k)]
      BY <1>1 DEF Swap
    <2> QED
      BY <1>1, <2>1, <2>2
  <1>3. /\ \A k \in 1..n : from(k) \in 1..n
        /\ \A j, k \in 1..n : j # k => from(j) # from(k)
    BY <1>1
  <1> HIDE DEF r, from
  <1>4. Elements(r) \subseteq Elements(q)
    BY <1>1, <1>2, <1>3 DEF Elements
  <1>5. Distinct(q) => Distinct(r)
    <2> SUFFICES ASSUME Distinct(q), NEW j \in 1..n, NEW k \in 1..n, j # k
                 PROVE  r[j].seq # r[k].seq
      BY <1>2 DEF Distinct
    <2>1. from(j) \in 1..n /\ from(k) \in 1..n /\ from(j) # from(k)
      BY <1>3
    <2>2. q[from(j)].seq # q[from(k)].seq
      BY <1>1, <2>1 DEF Distinct
    <2> QED
      BY <1>2, <2>2
  <1>6. r # <<>>
    <2>1. 1 \in DOMAIN r
      BY <1>1, <1>2
    <2> QED
      BY <2>1
  <1> QED
    BY <1>2, <1>4, <1>5, <1>6 DEF r

------------------------------------------------------------------------------
(* Steps that only move a thread: what is queued and counted stays.        *)

Quiet ==
    /\ UNCHANGED <<network, echoed>>
    /\ server'.count = server.count /\ server'.datagram = server.datagram
    /\ client'.count = client.count /\ client'.completed = client.completed
    /\ Counting' \subseteq Counting /\ Echoing' \subseteq Echoing
    /\ \/ server_state' = -1
       \/ server_state # -1 /\ server.pc # "count"
       \/ UNCHANGED <<server, server_state>>
    /\ \/ client'.index = client.index
       \/ client'.index = client.index + 1 /\ client.index >= Warmup
    /\ \A n \in Nat : WasSent(n) => WasSent(n)'
    /\ client'.pc = "returned" =>
         server'.pc = "ended" /\ Completed \subseteq server.count.seen

\* Such a step keeps everything that is said about messages and counters.
LEMMA QuietStep ==
    ASSUME UdpInv, UdpTypes', Places', Quiet
    PROVE  UdpInv'
  <1> USE DEF UdpInv, Quiet
  <1>1. /\ requests' = requests /\ responses' = responses
        /\ disturbed' = disturbed /\ echoed' = echoed
    BY DEF network
  <1>2. /\ client.index \in 0..Total /\ client'.index \in 0..Total
        /\ Warmup \in Nat /\ Samples \in Nat /\ Total \in Nat
        /\ client.completed \in Seq(Measured)
        /\ server.count \in CountType /\ client.count \in CountType
        /\ Elements(requests) \subseteq Datagram
        /\ Elements(responses) \subseteq Datagram
        /\ server.datagram \in Datagram
        /\ Counting \subseteq Datagram /\ Echoing \subseteq Counting
    BY UdpAssumption, QueueIs, SMTT(30) DEF UdpTypes, Total, Counting, Echoing
  <1>3. \A d \in Datagram : d.seq \in 0..Total /\ d.seq \in Nat
    BY <1>2 DEF Datagram
  <1>4. Answers'
    BY <1>1 DEF Answers
  <1>5. InOrder'
    <2>1. \A i \in DOMAIN client.completed : client.completed[i] \in 0..Total
      BY <1>2 DEF Measured, Total
    <2>2. \A i \in DOMAIN client.completed : client.completed[i] < client'.index
      BY <1>2, <2>1 DEF InOrder
    <2>3. Completed' = Completed
      BY DEF Completed
    <2> QED
      BY <1>1, <2>2, <2>3 DEF InOrder
  <1>6. Highs'
    BY DEF Highs
  <1>7. OwnTraffic'
    <2>1. server.count.seen \cup client.count.seen \subseteq Nat
      <3>1. /\ server.count.seen \subseteq Measured
            /\ client.count.seen \subseteq Measured
        BY <1>2 DEF CountType
      <3>2. Measured \subseteq Nat
        BY <1>2 DEF Measured
      <3> QED
        BY <3>1, <3>2
    <2> HIDE DEF UdpInv
    <2> SUFFICES ASSUME disturbed.stray = 0
                 PROVE  OwnTraffic'
      BY <1>1 DEF OwnTraffic
    <2>2. OwnTraffic
      BY DEF UdpInv
    <2>3. \A d \in Elements(requests) :
             d.kind = "whole" /\ d.from = "client"
             /\ d.seq < Total /\ WasSent(d.seq)'
      BY <1>2, <1>3, <2>2 DEF OwnTraffic
    <2>4. \A d \in Elements(responses) :
             d.kind = "whole" /\ d.from = "server"
             /\ d.seq < Total /\ WasSent(d.seq)'
      BY <1>2, <1>3, <2>2 DEF OwnTraffic
    <2>5. \A d \in Counting' :
             d.kind = "whole" /\ d.from = "client" /\ WasSent(d.seq)'
      BY <1>2, <1>3, <2>2 DEF OwnTraffic
    <2>6. \A n \in server.count.seen \cup client.count.seen : WasSent(n)'
      BY <2>1, <2>2 DEF OwnTraffic
    <2> QED
      BY <1>1, <2>2, <2>3, <2>4, <2>5, <2>6 DEF OwnTraffic
  <1>8. Once'
    <2> SUFFICES ASSUME disturbed.copy = 0, disturbed.stray = 0
                 PROVE  Once'
      BY <1>1 DEF Once
    <2>1. Once
      OBVIOUS
    <2>2. \A d \in Elements(requests) \cup Echoing \cup Elements(responses) :
             d.seq < Warmup => d.seq >= client'.index
      BY <1>2, <1>3, <2>1 DEF Once
    <2> QED
      BY <1>1, <2>1, <2>2 DEF Once
  <1>9. Ordered'
    BY <1>1 DEF Ordered
  <1> QED
    BY <1>4, <1>5, <1>6, <1>7, <1>8, <1>9

\* The server thread between two messages: it starts, looks at the
\* cancellation flag, finds nothing to receive, stops or fails.
LEMMA ServerMoves ==
    ASSUME UdpInv,
           \/ ServerStart \/ ServerThrows \/ ServerCheck \/ ServerNotReady
           \/ ServerStop
    PROVE  UdpInv'
  <1>1. /\ UNCHANGED <<network, client, echoed>>
        /\ server'.count = server.count /\ server'.datagram = server.datagram
        /\ server'.pc \in {"check", "receive", "stop", "ended"}
        /\ server_state' \in {-1, 0, 1, 2}
        /\ server \in [pc : {"start", "check", "receive", "echo", "count",
                            "stop", "ended"},
                      datagram : Datagram, count : CountType]
        /\ server' = [server EXCEPT !.pc = server'.pc]
    BY DEF UdpInv, UdpTypes, ServerStart, ServerThrows, ServerCheck,
           ServerNotReady, ServerStop
  <1>2. UdpTypes'
    BY <1>1 DEF UdpInv, UdpTypes, network
  <1>3. Counting' = {} /\ Echoing' = {}
    BY <1>1 DEF Counting, Echoing
  <1>4. /\ server'.pc = "ended" => server_state' \in {-1, 2}
        /\ server_state' = -1 => server'.pc = "ended"
    BY <1>1 DEF UdpInv, Places, ServerStart, ServerThrows, ServerCheck,
                ServerNotReady, ServerStop
  <1>5. Places'
    BY <1>1, <1>3, <1>4 DEF UdpInv, Places, network
  <1>6. \/ server_state' = -1
        \/ server_state # -1 /\ server.pc # "count"
    BY DEF UdpInv, Places, ServerStart, ServerThrows, ServerCheck,
           ServerNotReady, ServerStop
  <1>7. \A n \in Nat : WasSent(n) => WasSent(n)'
    BY <1>1 DEF WasSent
  <1>8. client'.pc = "returned" =>
          server'.pc = "ended" /\ Completed \subseteq server.count.seen
    BY <1>1 DEF UdpInv, InOrder, ServerStart, ServerThrows, ServerCheck,
                ServerNotReady, ServerStop
  <1>9. /\ client'.count = client.count /\ client'.completed = client.completed
        /\ client'.index = client.index
        /\ UNCHANGED <<network, echoed>>
        /\ Counting' \subseteq Counting /\ Echoing' \subseteq Echoing
    BY <1>1, <1>3
  <1>10. Quiet
    BY <1>1, <1>6, <1>7, <1>8, <1>9 DEF Quiet
  <1> QED
    BY <1>2, <1>5, <1>10, QuietStep

\* The client thread between two messages.
LEMMA ClientMoves ==
    ASSUME UdpInv,
           \/ ClientStart \/ ClientThrows \/ ClientWait \/ ClientMissed
           \/ ClientFinish \/ ClientCatch \/ DeadlinePasses \/ UNCHANGED vars
    PROVE  UdpInv'
  <1> DEFINE Pcs == {"start", "send", "wait", "receive", "missed", "join",
                     "cancel", "unwind", "returned", "threw"}
             Records == [pc : Pcs, index : 0..Total, completed : Seq(Measured),
                         count : CountType]
  <1>1. client \in Records
    BY DEF UdpInv, UdpTypes
  <1>2. /\ UNCHANGED <<network, server, server_state, echoed>>
        /\ client'.count = client.count /\ client'.completed = client.completed
    BY <1>1 DEF vars, network, ClientStart, ClientThrows, ClientWait,
         ClientMissed, ClientFinish, ClientCatch, DeadlinePasses
  <1>3. \/ client' = [client EXCEPT !.pc = client'.pc]
        \/ client' = [client EXCEPT !.pc = "send", !.index = @ + 1]
           /\ client.pc = "missed"
    BY <1>1 DEF vars, ClientStart, ClientThrows, ClientWait,
         ClientMissed, ClientFinish, ClientCatch, DeadlinePasses
  <1>4. client'.pc \in Pcs
    BY <1>1 DEF vars, ClientStart, ClientThrows, ClientWait,
         ClientMissed, ClientFinish, ClientCatch, DeadlinePasses
  <1>5. Warmup \in Nat /\ Total \in Nat
    BY UdpAssumption DEF Total
  <1>6. /\ client.index \in 0..Total
        /\ client.pc = "missed" => client.index >= Warmup /\ client.index < Total
    BY <1>1 DEF UdpInv, Places
  <1>7. client' \in Records
    <2>1. CASE client' = [client EXCEPT !.pc = client'.pc]
      <3> DEFINE new == client'.pc
      <3>1. new \in Pcs /\ client' = [client EXCEPT !.pc = new]
        BY <1>4, <2>1
      <3> HIDE DEF new
      <3> QED
        BY <1>1, <3>1
    <2>2. CASE client' = [client EXCEPT !.pc = "send", !.index = @ + 1]
               /\ client.pc = "missed"
      <3>1. client.index + 1 \in 0..Total
        BY <1>5, <1>6, <2>2
      <3> QED
        BY <1>1, <2>2, <3>1
    <2> QED
      BY <1>3, <2>1, <2>2
  <1>8. UdpTypes'
    BY <1>2, <1>7 DEF UdpInv, UdpTypes, network
  <1>9. Counting' = Counting /\ Echoing' = Echoing
    BY <1>2 DEF Counting, Echoing
  <1>10. \/ client'.index = client.index
         \/ client'.index = client.index + 1 /\ client.index >= Warmup
    BY <1>1, <1>3, <1>6
  <1>11. /\ client'.pc = "receive" => responses # <<>>
         /\ client'.pc = "missed" => client'.index >= Warmup
         /\ client'.pc \in {"wait", "receive", "missed"} => client'.index < Total
    <2>1. /\ client.pc = "receive" => responses # <<>>
          /\ client.pc \in {"wait", "receive", "missed"} => client.index < Total
      BY DEF UdpInv, Places
    <2>2. CASE ClientWait
      BY <1>1, <1>5, <1>6, <2>1, <2>2 DEF ClientWait
    <2>3. CASE ClientMissed
      BY <1>1, <2>3 DEF ClientMissed
    <2>4. CASE \/ ClientStart \/ ClientThrows \/ ClientFinish \/ ClientCatch
      BY <1>1, <2>4 DEF ClientStart, ClientThrows, ClientFinish, ClientCatch
    <2>5. CASE DeadlinePasses \/ UNCHANGED vars
      BY <1>6, <2>1, <2>5 DEF DeadlinePasses, vars
    <2> QED
      BY <2>2, <2>3, <2>4, <2>5
  <1>12. Places'
    BY <1>2, <1>9, <1>11 DEF UdpInv, Places, network
  <1>13. \A n \in Nat : WasSent(n) => WasSent(n)'
    <2> SUFFICES ASSUME NEW n \in Nat, WasSent(n)
                 PROVE  WasSent(n)'
      OBVIOUS
    <2>1. CASE client'.pc \notin {"start", "send"}
      BY <1>6, <1>10, <2>1 DEF WasSent
    <2>2. CASE client'.pc \in {"start", "send"}
      <3>1. \/ client'.pc = client.pc /\ client'.index = client.index
            \/ client.pc = "start" /\ client'.index = client.index
            \/ client'.index = client.index + 1
        BY <1>1, <2>2 DEF vars, ClientStart, ClientThrows, ClientWait,
             ClientMissed, ClientFinish, ClientCatch, DeadlinePasses
      <3> QED
        BY <1>6, <3>1 DEF WasSent
    <2> QED
      BY <2>1, <2>2
  <1>14. client'.pc = "returned" =>
           server'.pc = "ended" /\ Completed \subseteq server.count.seen
    <2>1. client'.pc = "returned" => client.pc = "returned"
      BY <1>1 DEF vars, ClientStart, ClientThrows, ClientWait,
           ClientMissed, ClientFinish, ClientCatch, DeadlinePasses
    <2> QED
      BY <1>2, <2>1 DEF UdpInv, InOrder
  <1>15. /\ UNCHANGED <<network, echoed>> /\ server'.count = server.count
         /\ server'.datagram = server.datagram
         /\ UNCHANGED <<server, server_state>>
         /\ Counting' \subseteq Counting /\ Echoing' \subseteq Echoing
    BY <1>2, <1>9
  <1>16. Quiet
    BY <1>2, <1>10, <1>13, <1>14, <1>15 DEF Quiet
  <1> QED
    BY <1>8, <1>12, <1>16, QuietStep

\* Samples are distinct requests, so there are no more of them than requests
\* the server has counted when all of them are among those.
LEMMA NotMoreSamples ==
    ASSUME UdpInv, Completed \subseteq server.count.seen
    PROVE  /\ Len(client.completed) \in Nat
           /\ Cardinality(server.count.seen) \in Nat
           /\ Len(client.completed) <= Cardinality(server.count.seen)
  <1> DEFINE c == client.completed
             S == server.count.seen
             n == Len(c)
  <1>1. Warmup \in Int /\ Total - 1 \in Int
    BY UdpAssumption DEF Total
  <1>2. IsFiniteSet(Measured)
    BY <1>1, FS_Interval DEF Measured
  <1>3. c \in Seq(Measured) /\ S \subseteq Measured
    BY DEF UdpInv, UdpTypes, CountType
  <1>4. n \in Nat /\ DOMAIN c = 1..n
    BY <1>3
  <1>5. \A i, j \in 1..n : i < j => c[i] < c[j]
    BY <1>4 DEF UdpInv, InOrder
  <1>6. \A i \in 1..n : c[i] \in S /\ c[i] \in Int
    <2>1. Measured \subseteq Int
      BY <1>1 DEF Measured
    <2> QED
      BY <1>3, <1>4, <2>1 DEF Completed
  <1>7. IsFiniteSet(S)
    BY <1>2, <1>3, FS_Subset
  <1>8. IsFiniteSet(1..n) /\ Cardinality(1..n) = n
    BY <1>4, FS_Interval
  <1> DEFINE f == [i \in 1..n |-> c[i]]
  <1>9. f \in Injection(1..n, S)
    <2> SUFFICES ASSUME NEW i \in 1..n, NEW j \in 1..n, c[i] = c[j]
                 PROVE  i = j
      BY <1>6 DEF Injection, IsInjective
    <2>1. ~(i < j) /\ ~(j < i)
      BY <1>5, <1>6
    <2> QED
      BY <1>4, <2>1
  <1>10. Cardinality(1..n) <= Cardinality(S)
    BY <1>7, <1>8, <1>9, FS_Injection
  <1>11. Cardinality(S) \in Nat
    BY <1>7, FS_CardinalityType
  <1> QED
    BY <1>4, <1>8, <1>10, <1>11

\* The join: a server that did not fail has counted every request it answered,
\* so the accounts are consistent.
LEMMA JoinStep ==
    ASSUME UdpInv, ClientJoin
    PROVE  UdpInv'
  <1> DEFINE Pcs == {"start", "send", "wait", "receive", "missed", "join",
                     "cancel", "unwind", "returned", "threw"}
             Records == [pc : Pcs, index : 0..Total, completed : Seq(Measured),
                         count : CountType]
  <1>1. client \in Records /\ server_state \in {-1, 0, 1, 2}
    BY DEF UdpInv, UdpTypes
  <1>2. client.pc = "join" /\ server.pc = "ended" /\ server_state \in {-1, 2}
    BY DEF UdpInv, Places, ClientJoin
  <1>3. server_state = 2 => Completed \subseteq server.count.seen
    <2> SUFFICES ASSUME server_state = 2, NEW i \in DOMAIN client.completed
                 PROVE  client.completed[i] \in server.count.seen
      BY DEF Completed
    <2>1. client.completed[i] \in echoed
      BY DEF UdpInv, InOrder
    <2>2. ~(client.completed[i] < Warmup)
      BY <1>1, UdpAssumption DEF Measured, Total
    <2> QED
      BY <1>2, <2>1, <2>2 DEF UdpInv, Answers
  <1>4. server_state = 2 => ~(RequestsUnobserved > DeadlineMisses)
    BY <1>3, NotMoreSamples, UdpAssumption
       DEF RequestsUnobserved, DeadlineMisses
  <1>5. \E p \in {"threw", "returned"} :
          /\ client' = [client EXCEPT !.pc = p]
          /\ p = "returned" => Completed \subseteq server.count.seen
    <2>1. CASE server_state = -1
      BY <2>1 DEF ClientJoin
    <2>2. CASE server_state = 2
      BY <1>3, <1>4, <2>2 DEF ClientJoin
    <2> QED
      BY <1>2, <2>1, <2>2
  <1>6. PICK p \in {"threw", "returned"} :
          /\ client' = [client EXCEPT !.pc = p]
          /\ p = "returned" => Completed \subseteq server.count.seen
    BY <1>5
  <1>7. client' \in Records
    BY <1>1, <1>6
  <1>8. UNCHANGED <<network, server, server_state, echoed>>
    BY DEF ClientJoin
  <1>9. UdpTypes'
    BY <1>7, <1>8 DEF UdpInv, UdpTypes, network
  <1>10. /\ client'.pc = p /\ client'.index = client.index
         /\ client'.count = client.count /\ client'.completed = client.completed
    BY <1>1, <1>6
  <1>11. Counting' = Counting /\ Echoing' = Echoing
    BY <1>8 DEF Counting, Echoing
  <1>12. Places'
    BY <1>8, <1>10, <1>11 DEF UdpInv, Places, network
  <1>13. \A n \in Nat : WasSent(n) => WasSent(n)'
    BY <1>10 DEF WasSent
  <1>14. Quiet
    BY <1>2, <1>6, <1>8, <1>10, <1>11, <1>13 DEF Quiet
  <1> QED
    BY <1>9, <1>12, <1>14, QuietStep

------------------------------------------------------------------------------
(* Steps of the network.                                                   *)

\* The threads and their counters stay, and so does what either of them holds.
LEMMA NetworkStep ==
    ASSUME UdpInv, NEW what \in {"copy", "swap", "stray"}, Disturb(what)
    PROVE  /\ UNCHANGED <<server_state, server, client, echoed>>
           /\ Counting' = Counting /\ Echoing' = Echoing
           /\ disturbed' \in [copy : Nat, swap : Nat, stray : Nat]
           /\ disturbed'[what] # 0
           /\ \A w \in {"copy", "swap", "stray"} :
                 disturbed'[w] = 0 => disturbed[w] = 0
           /\ \A n : WasSent(n)' <=> WasSent(n)
           /\ InOrder' /\ Highs'
           /\ requests \in Seq(Datagram) /\ responses \in Seq(Datagram)
  <1>1. /\ disturbed \in [copy : Nat, swap : Nat, stray : Nat]
        /\ requests \in Seq(Datagram) /\ responses \in Seq(Datagram)
    BY DEF UdpInv, UdpTypes
  <1>2. UNCHANGED <<server_state, server, client, echoed>>
    BY DEF Disturb
  <1>3. /\ disturbed' \in [copy : Nat, swap : Nat, stray : Nat]
        /\ disturbed'[what] # 0
        /\ \A w \in {"copy", "swap", "stray"} :
              disturbed'[w] = 0 => disturbed[w] = 0
    BY <1>1 DEF Disturb
  <1>4. Counting' = Counting /\ Echoing' = Echoing /\ Completed' = Completed
    BY <1>2 DEF Counting, Echoing, Completed
  <1>5. \A n : WasSent(n)' <=> WasSent(n)
    BY <1>2 DEF WasSent
  <1>6. InOrder' /\ Highs'
    BY <1>2, <1>4 DEF UdpInv, InOrder, Highs
  <1> QED
    BY <1>1, <1>2, <1>3, <1>4, <1>5, <1>6

\* Copying or swapping puts no new message into a queue.
LEMMA Rearranged ==
    ASSUME UdpInv, NEW what \in {"copy", "swap"}, Disturb(what),
           requests' \in Seq(Datagram), responses' \in Seq(Datagram),
           Elements(requests') \subseteq Elements(requests),
           Elements(responses') \subseteq Elements(responses),
           responses' = <<>> => responses = <<>>
    PROVE  UdpTypes' /\ Places' /\ Answers' /\ OwnTraffic'
  <1>1. /\ UNCHANGED <<server_state, server, client, echoed>>
        /\ Counting' = Counting /\ Echoing' = Echoing
        /\ disturbed' \in [copy : Nat, swap : Nat, stray : Nat]
        /\ disturbed'["stray"] = 0 => disturbed["stray"] = 0
        /\ \A n : WasSent(n)' <=> WasSent(n)
    BY NetworkStep
  <1>2. UdpTypes'
    BY <1>1 DEF UdpInv, UdpTypes
  <1>3. Places'
    BY <1>1 DEF UdpInv, Places
  <1>4. Answers'
    BY <1>1 DEF UdpInv, Answers
  <1>5. OwnTraffic'
    BY <1>1 DEF UdpInv, OwnTraffic
  <1> QED
    BY <1>2, <1>3, <1>4, <1>5

\* A copy keeps the order of a queue.
LEMMA CopyStep ==
    ASSUME UdpInv, CopyDatagram
    PROVE  UdpInv'
  <1>1. /\ Disturb("copy")
        /\ requests \in Seq(Datagram) /\ responses \in Seq(Datagram)
    BY DEF UdpInv, UdpTypes, CopyDatagram
  <1>2. /\ requests' \in Seq(Datagram) /\ responses' \in Seq(Datagram)
        /\ Elements(requests') \subseteq Elements(requests)
        /\ Elements(responses') \subseteq Elements(responses)
        /\ responses' = <<>> => responses = <<>>
        /\ Sorted(requests) => Sorted(requests')
        /\ Sorted(responses) => Sorted(responses')
    BY <1>1, QueueCopy DEF CopyDatagram
  <1>3. /\ disturbed'["copy"] # 0
        /\ disturbed'["swap"] = 0 => disturbed["swap"] = 0
        /\ disturbed'["stray"] = 0 => disturbed["stray"] = 0
        /\ UNCHANGED <<server, client>>
        /\ Counting' = Counting /\ Echoing' = Echoing
        /\ InOrder' /\ Highs'
    BY <1>1, NetworkStep
  <1>4. UdpTypes' /\ Places' /\ Answers' /\ OwnTraffic'
    BY <1>1, <1>2, Rearranged
  <1>5. Once'
    BY <1>3 DEF Once
  <1>6. Ordered'
    BY <1>2, <1>3 DEF UdpInv, Ordered
  <1> QED
    BY <1>3, <1>4, <1>5, <1>6 DEF UdpInv

\* A swap adds no second copy.
LEMMA SwapStep ==
    ASSUME UdpInv, SwapDatagrams
    PROVE  UdpInv'
  <1>1. /\ Disturb("swap")
        /\ requests \in Seq(Datagram) /\ responses \in Seq(Datagram)
    BY DEF UdpInv, UdpTypes, SwapDatagrams
  <1>2. /\ requests' \in Seq(Datagram) /\ responses' \in Seq(Datagram)
        /\ Elements(requests') \subseteq Elements(requests)
        /\ Elements(responses') \subseteq Elements(responses)
        /\ responses' = <<>> => responses = <<>>
        /\ Distinct(requests) => Distinct(requests')
        /\ Distinct(responses) => Distinct(responses')
    BY <1>1, QueueSwap DEF SwapDatagrams
  <1>3. /\ disturbed'["swap"] # 0
        /\ disturbed'["copy"] = 0 => disturbed["copy"] = 0
        /\ disturbed'["stray"] = 0 => disturbed["stray"] = 0
        /\ UNCHANGED <<server, client>>
        /\ Counting' = Counting /\ Echoing' = Echoing
        /\ InOrder' /\ Highs'
    BY <1>1, NetworkStep
  <1>4. UdpTypes' /\ Places' /\ Answers' /\ OwnTraffic'
    BY <1>1, <1>2, Rearranged
  <1>5. Ordered'
    BY <1>3 DEF Ordered
  <1>6. Once'
    BY <1>2, <1>3 DEF UdpInv, Once
  <1> QED
    BY <1>3, <1>4, <1>5, <1>6 DEF UdpInv

\* A stray is never taken for an answer of the server: a connected socket gets
\* none, and an unconnected one compares the sender's endpoint.
LEMMA StrayStep ==
    ASSUME UdpInv, StrayDatagram
    PROVE  UdpInv'
  <1>1. /\ Disturb("stray")
        /\ requests \in Seq(Datagram) /\ responses \in Seq(Datagram)
    BY DEF UdpInv, UdpTypes, StrayDatagram
  <1>2. PICK d \in Strays :
          \/ requests' = Append(requests, d) /\ UNCHANGED responses
          \/ responses' = Append(responses, d) /\ UNCHANGED requests
    BY DEF StrayDatagram
  <1>3. d \in Datagram /\ d.from = "other" /\ ~Connected
    BY UdpAssumption
  <1>4. /\ requests' \in Seq(Datagram) /\ responses' \in Seq(Datagram)
        /\ Elements(responses') \subseteq Elements(responses) \cup {d}
        /\ responses' = <<>> => responses = <<>>
    BY <1>1, <1>2, <1>3, QueueAppend
  <1>5. /\ UNCHANGED <<server_state, server, client, echoed>>
        /\ Counting' = Counting
        /\ disturbed' \in [copy : Nat, swap : Nat, stray : Nat]
        /\ disturbed'["stray"] # 0
        /\ InOrder' /\ Highs'
    BY <1>1, NetworkStep
  <1>6. UdpTypes'
    BY <1>4, <1>5 DEF UdpInv, UdpTypes
  <1>7. Places'
    BY <1>4, <1>5 DEF UdpInv, Places
  <1>8. Answers'
    BY <1>3, <1>4, <1>5 DEF UdpInv, Answers, FromServer
  <1>9. OwnTraffic' /\ Once' /\ Ordered'
    BY <1>5 DEF OwnTraffic, Once, Ordered
  <1> QED
    BY <1>5, <1>6, <1>7, <1>8, <1>9 DEF UdpInv

------------------------------------------------------------------------------
(* The counters of both threads.                                           *)

\* Counting an anomaly changes that counter only.
LEMMA BumpIs ==
    ASSUME NEW c \in CountType,
           NEW field \in {"duplicates", "invalid", "truncated"}
    PROVE  /\ Bump(c, field) \in CountType
           /\ Bump(c, field).seen = c.seen /\ Bump(c, field).high = c.high
           /\ Bump(c, field).reordered = c.reordered
           /\ field # "duplicates" => Bump(c, field).duplicates = c.duplicates
           /\ field # "invalid" => Bump(c, field).invalid = c.invalid
           /\ field # "truncated" => Bump(c, field).truncated = c.truncated
  <1>1. CASE field = "duplicates"
    BY <1>1 DEF Bump, CountType
  <1>2. CASE field = "invalid"
    BY <1>2 DEF Bump, CountType
  <1>3. CASE field = "truncated"
    BY <1>3 DEF Bump, CountType
  <1> QED
    BY <1>1, <1>2, <1>3

\* A first arrival is seen, and is the newest unless a newer one was.
LEMMA FirstArrivalIs ==
    ASSUME NEW c \in CountType, NEW n \in Measured
    PROVE  /\ FirstArrival(c, n) \in CountType
           /\ FirstArrival(c, n).seen = c.seen \cup {n}
           /\ FirstArrival(c, n).high \in {n, c.high}
           /\ c.high <= n => /\ FirstArrival(c, n).reordered = c.reordered
                             /\ FirstArrival(c, n).high = n
           /\ FirstArrival(c, n).duplicates = c.duplicates
           /\ FirstArrival(c, n).invalid = c.invalid
           /\ FirstArrival(c, n).truncated = c.truncated
  <1>1. n \in Nat /\ n \in -1..Total /\ Total \in Nat
    BY UdpAssumption DEF Measured, Total
  <1>2. /\ c.seen \subseteq Measured /\ c.high \in -1..Total
        /\ c.reordered \in Nat
    BY DEF CountType
  <1>3. /\ FirstArrival(c, n).seen = c.seen \cup {n}
        /\ FirstArrival(c, n).high = IF n > c.high THEN n ELSE c.high
        /\ FirstArrival(c, n).reordered =
              IF n < c.high THEN c.reordered + 1 ELSE c.reordered
        /\ FirstArrival(c, n).duplicates = c.duplicates
        /\ FirstArrival(c, n).invalid = c.invalid
        /\ FirstArrival(c, n).truncated = c.truncated
    BY DEF FirstArrival, CountType
  <1>4. FirstArrival(c, n) \in CountType
    <2> DEFINE seen == c.seen \cup {n}
               high == IF n > c.high THEN n ELSE c.high
               reordered == IF n < c.high THEN c.reordered + 1 ELSE c.reordered
    <2>1. /\ seen \in SUBSET Measured /\ high \in -1..Total
          /\ reordered \in Nat
      BY <1>1, <1>2
    <2>2. FirstArrival(c, n) = [c EXCEPT !.seen = seen, !.reordered = reordered,
                                         !.high = high]
      BY DEF FirstArrival, CountType
    <2> HIDE DEF seen, high, reordered
    <2> QED
      BY <2>1, <2>2 DEF CountType
  <1> QED
    BY <1>1, <1>2, <1>3, <1>4

------------------------------------------------------------------------------
(* The server handles a message.                                           *)

\* The server thread's part of the types, and what it leaves alone.
LEMMA ServerTypes ==
    ASSUME UdpInv
    PROVE  /\ server \in [pc : {"start", "check", "receive", "echo", "count",
                               "stop", "ended"},
                         datagram : Datagram, count : CountType]
           /\ client.count \in CountType /\ client.index \in 0..Total
           /\ Warmup \in Nat /\ Samples \in Nat /\ Total \in Nat
           /\ Measured \subseteq Nat
           /\ requests \in Seq(Datagram) /\ responses \in Seq(Datagram)
           /\ Elements(requests) \subseteq Datagram
           /\ Elements(responses) \subseteq Datagram
           /\ \A d \in Datagram : d.seq \in 0..Total
  <1>1. /\ Warmup \in Nat /\ Samples \in Nat /\ Total \in Nat
        /\ Measured \subseteq Nat
    BY UdpAssumption DEF Total, Measured
  <1>2. \A d \in Datagram : d.seq \in 0..Total
    BY DEF Datagram
  <1> QED
    BY <1>1, <1>2, QueueIs DEF UdpInv, UdpTypes

\* It takes a request from its queue, to drop or to echo it.
LEMMA ServerReceiveStep ==
    ASSUME UdpInv, ServerReceive
    PROVE  UdpInv'
  <1> DEFINE d == Head(requests)
             reason == ServerRejects(d)
  <1>1. /\ server.pc = "receive" /\ requests # <<>>
        /\ requests' = Tail(requests)
        /\ UNCHANGED <<responses, disturbed, server_state, client, echoed>>
    BY DEF ServerReceive
  <1>2. /\ d \in Datagram /\ d \in Elements(requests)
        /\ requests' \in Seq(Datagram)
        /\ Elements(requests') \subseteq Elements(requests)
        /\ Distinct(requests) => /\ Distinct(requests')
                                 /\ \A e \in Elements(requests') : e.seq # d.seq
        /\ Sorted(requests) => /\ Sorted(requests')
                               /\ \A e \in Elements(requests') : d.seq <= e.seq
    BY <1>1, ServerTypes, QueueTail
  <1>3. /\ reason \in {"truncated", "invalid", "none"}
        /\ reason = "none" => d.seq < Total /\ d.kind \in {"whole", "body"}
        /\ d.kind = "whole" /\ d.seq < Total => reason = "none"
    BY <1>2, ServerTypes DEF ServerRejects, Datagram, Kinds
  <1>4. CASE reason = "none"
    <2>1. server' = [server EXCEPT !.pc = "echo", !.datagram = d]
      BY <1>4 DEF ServerReceive
    <2>2. /\ server'.pc = "echo" /\ server'.datagram = d
          /\ server'.count = server.count
      BY <2>1, ServerTypes
    <2>3. Counting' = {d} /\ Echoing' = {d} /\ Completed' = Completed
      BY <1>1, <2>2 DEF Counting, Echoing, Completed
    <2>4. \A n : WasSent(n)' <=> WasSent(n)
      BY <1>1 DEF WasSent
    <2>5. UdpTypes'
      <3>1. server' \in [pc : {"start", "check", "receive", "echo", "count",
                              "stop", "ended"},
                        datagram : Datagram, count : CountType]
        BY <1>2, <2>1, ServerTypes
      <3> QED
        BY <1>1, <1>2, <3>1 DEF UdpInv, UdpTypes
    <2>6. Places'
      BY <1>1, <1>3, <1>4, <2>2, <2>3 DEF UdpInv, Places
    <2>7. Answers' /\ InOrder' /\ Highs'
      BY <1>1, <2>2, <2>3 DEF UdpInv, Answers, InOrder, Highs
    <2>8. OwnTraffic'
      BY <1>1, <1>2, <2>2, <2>3, <2>4 DEF UdpInv, OwnTraffic
    <2>9. Once'
      BY <1>1, <1>2, <2>2, <2>3, ServerTypes DEF UdpInv, Once
    <2>10. Ordered'
      BY <1>1, <1>2, <2>2, <2>3, ServerTypes DEF UdpInv, Ordered
    <2> QED
      BY <2>5, <2>6, <2>7, <2>8, <2>9, <2>10 DEF UdpInv
  <1>5. CASE reason # "none"
    <2>1. server' = [server EXCEPT !.pc = "check", !.count = Bump(@, reason)]
      BY <1>5 DEF ServerReceive
    <2>2. reason \in {"truncated", "invalid"}
      BY <1>3, <1>5
    <2> HIDE DEF reason
    <2>3. /\ server'.pc = "check" /\ server'.datagram = server.datagram
          /\ server'.count \in CountType
          /\ server'.count.seen = server.count.seen
          /\ server'.count.high = server.count.high
          /\ server'.count.duplicates = server.count.duplicates
          /\ server'.count.reordered = server.count.reordered
      <3>1. /\ server'.pc = "check" /\ server'.datagram = server.datagram
            /\ server'.count = Bump(server.count, reason)
        BY <2>1, ServerTypes
      <3>2. server.count \in CountType
        BY ServerTypes
      <3> QED
        BY <2>2, <3>1, <3>2, BumpIs
    <2>4. Counting' = {} /\ Echoing' = {} /\ Completed' = Completed
      BY <1>1, <2>3 DEF Counting, Echoing, Completed
    <2>5. UdpTypes'
      <3>1. server' \in [pc : {"start", "check", "receive", "echo", "count",
                              "stop", "ended"},
                        datagram : Datagram, count : CountType]
        <4> DEFINE c == server'.count
        <4>1. /\ c \in CountType
              /\ server' = [server EXCEPT !.pc = "check", !.count = c]
          BY <2>1, <2>3, ServerTypes
        <4> HIDE DEF c
        <4> QED
          BY <4>1, ServerTypes
      <3> QED
        BY <1>1, <1>2, <3>1 DEF UdpInv, UdpTypes
    <2>6. Places'
      BY <1>1, <2>3, <2>4 DEF UdpInv, Places
    <2>7. Answers' /\ InOrder' /\ Highs'
      BY <1>1, <2>3, <2>4 DEF UdpInv, Answers, InOrder, Highs
    <2>8. OwnTraffic' /\ Once' /\ Ordered'
      <3>1. disturbed.stray # 0
        BY <1>2, <1>3, <1>5 DEF UdpInv, OwnTraffic
      <3> QED
        BY <1>1, <1>2, <2>3, <2>4, <3>1 DEF UdpInv, OwnTraffic, Once, Ordered
    <2> QED
      BY <2>5, <2>6, <2>7, <2>8 DEF UdpInv
  <1> QED
    BY <1>4, <1>5

\* It sends the echo, which is queued behind the older ones or lost.
LEMMA ServerEchoStep ==
    ASSUME UdpInv, ServerEcho
    PROVE  UdpInv'
  <1> DEFINE d == server.datagram
             a == [d EXCEPT !.from = "server"]
  <1>1. /\ server.pc = "echo" /\ d \in Datagram
        /\ server' = [server EXCEPT !.pc = "count"]
        /\ UNCHANGED <<requests, disturbed, server_state, client>>
    BY ServerTypes DEF ServerEcho
  <1>2. /\ server'.pc = "count" /\ server'.datagram = d
        /\ server'.count = server.count
    BY <1>1, ServerTypes
  <1>3. /\ a \in Datagram /\ a.from = "server" /\ a.seq = d.seq
        /\ a.kind = d.kind
    BY <1>1 DEF Datagram
  <1>4. /\ Counting = {d} /\ Echoing = {d} /\ Counting' = {d}
        /\ Echoing' = {} /\ Completed' = Completed
    BY <1>1, <1>2 DEF Counting, Echoing, Completed
  <1>5. \/ /\ d.from = "client" /\ echoed' = echoed \cup {d.seq}
           /\ responses' = Append(responses, a)
        \/ d.from = "client" /\ echoed' = echoed \cup {d.seq}
           /\ responses' = responses
        \/ d.from # "client" /\ echoed' = echoed /\ responses' = responses
    BY DEF ServerEcho, Sent
  <1> HIDE DEF a
  <1>6. /\ responses' \in Seq(Datagram)
        /\ Elements(responses') \subseteq Elements(responses) \cup {a}
        /\ responses' = <<>> => responses = <<>>
        /\ d.from = "client" \/ Elements(responses') = Elements(responses)
        /\ Distinct(responses) /\ (\A e \in Elements(responses) : e.seq # d.seq)
             => Distinct(responses')
        /\ Sorted(responses) /\ (\A e \in Elements(responses) : e.seq <= d.seq)
             => Sorted(responses')
    BY <1>3, <1>5, ServerTypes, QueueAppend, ZenonT(30)
  <1>7. \A n : WasSent(n)' <=> WasSent(n)
    BY <1>1 DEF WasSent
  <1>8. UdpTypes'
    <2>1. server' \in [pc : {"start", "check", "receive", "echo", "count",
                            "stop", "ended"},
                      datagram : Datagram, count : CountType]
      BY <1>1, ServerTypes
    <2> QED
      BY <1>1, <1>6, <2>1 DEF UdpInv, UdpTypes
  <1>9. Places'
    BY <1>1, <1>2, <1>4, <1>6 DEF UdpInv, Places
  <1>10. Answers'
    <2>1. \A e \in Elements(responses') : /\ e.from = "server" => e.seq \in echoed'
                                          /\ FromServer(e) => e.from = "server"
      BY <1>3, <1>5, <1>6 DEF UdpInv, Answers
    <2>2. \A n \in echoed' : \/ n < Warmup \/ n \in server'.count.seen
                             \/ server'.pc = "count" /\ server'.datagram.seq = n
                             \/ server_state' = -1
      BY <1>1, <1>2, <1>5 DEF UdpInv, Answers
    <2> QED
      BY <2>1, <2>2 DEF Answers
  <1>11. InOrder' /\ Highs'
    BY <1>1, <1>2, <1>4, <1>5 DEF UdpInv, InOrder, Highs
  <1>12. OwnTraffic'
    BY <1>1, <1>2, <1>3, <1>4, <1>6, <1>7 DEF UdpInv, OwnTraffic, Places
  <1>13. Once'
    BY <1>1, <1>2, <1>3, <1>4, <1>6 DEF UdpInv, Once
  <1>14. Ordered'
    <2> SUFFICES ASSUME disturbed.swap = 0, disturbed.stray = 0
                 PROVE  Ordered'
      BY <1>1 DEF Ordered
    <2>1. d.seq \in Nat
      BY <1>1, ServerTypes
    <2> QED
      BY <1>1, <1>2, <1>3, <1>4, <1>6, <2>1 DEF UdpInv, Ordered
  <1> QED
    BY <1>8, <1>9, <1>10, <1>11, <1>12, <1>13, <1>14 DEF UdpInv

\* It accounts for what it has echoed.
LEMMA ServerCountStep ==
    ASSUME UdpInv, ServerCount
    PROVE  UdpInv'
  <1> DEFINE d == server.datagram
             n == d.seq
             c == server.count
  <1>1. /\ server.pc = "count" /\ d \in Datagram /\ c \in CountType
        /\ UNCHANGED <<requests, responses, disturbed, server_state, client,
                       echoed>>
    BY ServerTypes DEF ServerCount, network
  <1>2. Counting = {d} /\ Echoing = {} /\ n \in 0..Total /\ n < Total
    BY <1>1, ServerTypes DEF Counting, Echoing, UdpInv, Places
  <1>3. n < Warmup \/ n \in Measured
    BY <1>2, ServerTypes DEF Measured
  <1> DEFINE new == IF n < Warmup THEN c
                    ELSE IF n \in c.seen THEN Bump(c, "duplicates")
                    ELSE FirstArrival(c, n)
  <1>4. server' = [server EXCEPT !.pc = "check", !.count = new]
    BY ServerTypes DEF ServerCount
  <1>5. /\ new \in CountType
        /\ \/ new.seen = c.seen \cup {n}
           \/ n < Warmup /\ new.seen = c.seen
        /\ \/ new.high = c.high
           \/ new.high = n /\ n \in new.seen
        /\ new.invalid = c.invalid /\ new.truncated = c.truncated
        /\ n \notin c.seen => new.duplicates = c.duplicates
        /\ c.high <= n => new.reordered = c.reordered
    <2>1. CASE n < Warmup
      BY <1>1, <2>1
    <2>2. CASE ~(n < Warmup) /\ n \in c.seen
      <3>1. new = Bump(c, "duplicates")
        BY <2>2
      <3> QED
        BY <1>1, <2>2, <3>1, BumpIs
    <2>3. CASE ~(n < Warmup) /\ n \notin c.seen
      <3>1. new = FirstArrival(c, n) /\ n \in Measured
        BY <1>3, <2>3
      <3> QED
        BY <1>1, <2>3, <3>1, FirstArrivalIs
    <2> QED
      BY <2>1, <2>2, <2>3
  <1> HIDE DEF new
  <1>6. /\ server'.pc = "check" /\ server'.datagram = d /\ server'.count = new
    BY <1>4, ServerTypes
  <1>7. Counting' = {} /\ Echoing' = {} /\ Completed' = Completed
    BY <1>1, <1>6 DEF Counting, Echoing, Completed
  <1>8. \A k : WasSent(k)' <=> WasSent(k)
    BY <1>1 DEF WasSent
  <1>9. UdpTypes'
    <2>1. server' \in [pc : {"start", "check", "receive", "echo", "count",
                            "stop", "ended"},
                      datagram : Datagram, count : CountType]
      BY <1>4, <1>5, ServerTypes
    <2> QED
      BY <1>1, <2>1 DEF UdpInv, UdpTypes
  <1>10. Places'
    BY <1>1, <1>6, <1>7 DEF UdpInv, Places
  <1>11. Answers'
    BY <1>1, <1>2, <1>5, <1>6 DEF UdpInv, Answers
  <1>12. InOrder'
    <2>1. client.pc # "returned"
      BY <1>1 DEF UdpInv, InOrder
    <2> QED
      BY <1>1, <1>7, <2>1 DEF UdpInv, InOrder
  <1>13. Highs'
    BY <1>1, <1>5, <1>6 DEF UdpInv, Highs
  <1>14. OwnTraffic'
    BY <1>1, <1>2, <1>5, <1>6, <1>7, <1>8 DEF UdpInv, OwnTraffic
  <1>15. Once'
    BY <1>1, <1>2, <1>5, <1>6, <1>7 DEF UdpInv, Once
  <1>16. Ordered'
    BY <1>1, <1>2, <1>5, <1>6, <1>7 DEF UdpInv, Ordered
  <1> QED
    BY <1>9, <1>10, <1>11, <1>12, <1>13, <1>14, <1>15, <1>16 DEF UdpInv

------------------------------------------------------------------------------
(* The client handles a message.                                           *)

\* What the client thread works on.
LEMMA ClientTypes ==
    ASSUME UdpInv
    PROVE  /\ client \in [pc : {"start", "send", "wait", "receive", "missed",
                               "join", "cancel", "unwind", "returned", "threw"},
                         index : 0..Total, completed : Seq(Measured),
                         count : CountType]
           /\ client.index \in Nat /\ client.count.seen \subseteq Nat
           /\ server.count.seen \subseteq Nat
           /\ Counting \subseteq Datagram /\ Echoing \subseteq Counting
  <1>1. client \in [pc : {"start", "send", "wait", "receive", "missed",
                         "join", "cancel", "unwind", "returned", "threw"},
                   index : 0..Total, completed : Seq(Measured),
                   count : CountType]
    BY DEF UdpInv, UdpTypes
  <1>2. /\ client.count.seen \subseteq Measured
        /\ server.count.seen \subseteq Measured
    BY <1>1, ServerTypes DEF CountType
  <1>3. Counting \subseteq Datagram /\ Echoing \subseteq Counting
    BY ServerTypes DEF Counting, Echoing
  <1> QED
    BY <1>1, <1>2, <1>3, ServerTypes

\* A request that is sent is newer than all that was sent before.
LEMMA ClientSendStep ==
    ASSUME UdpInv, ClientSend
    PROVE  UdpInv'
  <1> DEFINE d == Request(client.index)
             k == client.index
  <1>1. /\ client.pc = "send" /\ k < Total /\ k \in Nat
        /\ client' = [client EXCEPT !.pc = "wait"]
        /\ UNCHANGED <<responses, disturbed, server_state, server, echoed>>
        /\ requests' = requests \/ requests' = Append(requests, d)
    BY ClientTypes DEF ClientSend, Sent
  <1>2. /\ client'.pc = "wait" /\ client'.index = k
        /\ client'.count = client.count /\ client'.completed = client.completed
    BY <1>1, ClientTypes
  <1>3. /\ d \in Datagram /\ d.seq = k /\ d.kind = "whole"
        /\ d.from = "client"
    BY <1>1, ServerTypes DEF Request, Datagram, Kinds
  <1> HIDE DEF d
  <1>4. /\ requests' \in Seq(Datagram)
        /\ Elements(requests') \subseteq Elements(requests) \cup {d}
        /\ Distinct(requests) /\ (\A e \in Elements(requests) : e.seq # d.seq)
             => Distinct(requests')
        /\ Sorted(requests) /\ (\A e \in Elements(requests) : e.seq <= d.seq)
             => Sorted(requests')
    BY <1>1, <1>3, ServerTypes, QueueAppend, ZenonT(30)
  <1>5. Counting' = Counting /\ Echoing' = Echoing /\ Completed' = Completed
    BY <1>1, <1>2 DEF Counting, Echoing, Completed
  <1>6. /\ \A n \in Nat : WasSent(n) => n < k
        /\ \A n \in Nat : WasSent(n)' <=> n <= k
    BY <1>1, <1>2 DEF WasSent
  <1>7. ASSUME disturbed.stray = 0
        PROVE  /\ \A e \in Elements(requests) \cup Elements(responses) \cup Counting
                        \cup Echoing : e.seq < k /\ e.seq \in Nat
               /\ \A n \in server.count.seen \cup client.count.seen : n < k
    <2>1. \A e \in Elements(requests) \cup Elements(responses) \cup Counting :
            e.seq < k /\ e.seq \in Nat
      BY <1>6, <1>7, ServerTypes, ClientTypes DEF UdpInv, OwnTraffic
    <2>2. \A n \in server.count.seen \cup client.count.seen : n < k
      BY <1>6, <1>7, ClientTypes DEF UdpInv, OwnTraffic
    <2> QED
      BY <2>1, <2>2, ClientTypes
  <1>8. UdpTypes'
    <2>1. client' \in [pc : {"start", "send", "wait", "receive", "missed",
                            "join", "cancel", "unwind", "returned", "threw"},
                      index : 0..Total, completed : Seq(Measured),
                      count : CountType]
      BY <1>1, ClientTypes
    <2> QED
      BY <1>1, <1>4, <2>1 DEF UdpInv, UdpTypes
  <1>9. Places'
    BY <1>1, <1>2, <1>5 DEF UdpInv, Places
  <1>10. Answers' /\ InOrder' /\ Highs'
    BY <1>1, <1>2, <1>5 DEF UdpInv, Answers, InOrder, Highs
  <1>11. OwnTraffic'
    <2> SUFFICES ASSUME disturbed.stray = 0
                 PROVE  OwnTraffic'
      BY <1>1 DEF OwnTraffic
    <2>1. /\ \A e \in Elements(requests') : WasSent(e.seq)' /\ e.seq < Total
          /\ \A e \in Elements(responses) \cup Counting : WasSent(e.seq)'
      <3>1. \A e \in Elements(requests') :
              e.seq \in Nat /\ e.seq <= k /\ e.seq < Total
        BY <1>1, <1>3, <1>4, <1>7, ServerTypes
      <3>2. \A e \in Elements(responses) \cup Counting :
              e.seq \in Nat /\ e.seq <= k
        BY <1>1, <1>7
      <3> QED
        BY <1>6, <3>1, <3>2
    <2>2. \A n \in server.count.seen \cup client.count.seen : WasSent(n)'
      BY <1>1, <1>6, <1>7, ClientTypes
    <2> QED
      BY <1>1, <1>2, <1>3, <1>4, <1>5, <2>1, <2>2 DEF UdpInv, OwnTraffic
  <1>12. Once'
    <2> SUFFICES ASSUME disturbed.copy = 0, disturbed.stray = 0
                 PROVE  Once'
      BY <1>1 DEF Once
    <2>1. /\ \A e \in Elements(requests) \cup Elements(responses) \cup Counting
                   \cup Echoing : e.seq # d.seq
          /\ d.seq \notin server.count.seen /\ d.seq \notin client.count.seen
      BY <1>1, <1>3, <1>7
    <2>2. d.seq >= k
      BY <1>1, <1>3
    <2> QED
      BY <1>1, <1>2, <1>4, <1>5, <2>1, <2>2 DEF UdpInv, Once
  <1>13. Ordered'
    <2> SUFFICES ASSUME disturbed.swap = 0, disturbed.stray = 0
                 PROVE  Ordered'
      BY <1>1 DEF Ordered
    <2>1. \A e \in Elements(requests) \cup Elements(responses) \cup Counting
                 \cup Echoing : e.seq <= d.seq
      BY <1>1, <1>3, <1>7
    <2>2. server.count.high <= d.seq /\ client.count.high <= d.seq
      <3>1. server.count.high = -1 \/ server.count.high < k
        BY <1>7 DEF UdpInv, Highs
      <3>2. client.count.high = -1 \/ client.count.high < k
        BY <1>7 DEF UdpInv, Highs
      <3>3. server.count.high \in Int /\ client.count.high \in Int
        BY ServerTypes, SMTT(30) DEF CountType
      <3> QED
        BY <1>1, <1>3, <3>1, <3>2, <3>3
    <2> QED
      BY <1>1, <1>2, <1>4, <1>5, <2>1, <2>2 DEF UdpInv, Ordered
  <1> QED
    BY <1>8, <1>9, <1>10, <1>11, <1>12, <1>13 DEF UdpInv

\* A further sample keeps the samples in request order.
LEMMA SampleAppended ==
    ASSUME NEW c \in Seq(Measured), NEW n \in Measured,
           \A i \in DOMAIN c : c[i] < n,
           \A i, j \in DOMAIN c : i < j => c[i] < c[j]
    PROVE  /\ Append(c, n) \in Seq(Measured)
           /\ \A i \in DOMAIN Append(c, n) :
                 \/ i \in DOMAIN c /\ Append(c, n)[i] = c[i]
                 \/ Append(c, n)[i] = n
           /\ \A i, j \in DOMAIN Append(c, n) :
                 i < j => Append(c, n)[i] < Append(c, n)[j]
  <1> DEFINE r == Append(c, n)
             l == Len(c)
  <1>1. /\ l \in Nat /\ DOMAIN c = 1..l /\ DOMAIN r = 1..(l + 1)
        /\ r \in Seq(Measured) /\ r[l + 1] = n
        /\ \A i \in 1..l : r[i] = c[i]
    OBVIOUS
  <1> HIDE DEF r, l
  <1>2. \A i \in 1..(l + 1) : i \in 1..l \/ i = l + 1
    BY <1>1
  <1>3. \A i \in DOMAIN r : \/ i \in DOMAIN c /\ r[i] = c[i]
                           \/ r[i] = n
    BY <1>1, <1>2
  <1>4. ASSUME NEW i \in DOMAIN r, NEW j \in DOMAIN r, i < j
        PROVE  r[i] < r[j]
    <2>1. i \in 1..l /\ (j \in 1..l \/ j = l + 1)
      BY <1>1, <1>4
    <2>2. CASE j \in 1..l
      BY <1>1, <1>4, <2>1, <2>2
    <2>3. CASE j = l + 1
      BY <1>1, <2>1, <2>3
    <2> QED
      BY <2>1, <2>2, <2>3
  <1> QED
    BY <1>1, <1>3, <1>4 DEF r

\* What taking the datagram d does to the client's counters.
Takes(d) ==
    LET old == client.count
        new == client'.count IN
    /\ client'.pc \in {"wait", "send", "cancel"}
    /\ \/ client'.pc # "send" /\ client'.index = client.index
       \/ /\ client'.pc = "send" /\ client'.index = client.index + 1
          /\ d.seq = client.index
    /\ \/ new.seen = old.seen /\ new.high = old.high
       \/ new.seen = old.seen \cup {d.seq} /\ new.high \in {d.seq, old.high}
    /\ disturbed.stray = 0 => new.truncated = old.truncated
    /\ disturbed.stray = 0 /\ disturbed.copy = 0 =>
         new.duplicates = old.duplicates /\ new.invalid = old.invalid
    /\ disturbed.stray = 0 /\ disturbed.swap = 0 =>
         new.reordered = old.reordered
    /\ \/ client'.completed = client.completed
       \/ /\ client'.completed = Append(client.completed, d.seq)
          /\ d.seq \in echoed /\ d.seq \in Measured /\ d.seq = client.index
          /\ client'.index = client.index + 1
    /\ client' \in [pc : {"start", "send", "wait", "receive", "missed",
                          "join", "cancel", "unwind", "returned", "threw"},
                    index : 0..Total, completed : Seq(Measured),
                    count : CountType]

\* During warm-up the answer to the awaited request is all it takes.
LEMMA WarmupTakes ==
    ASSUME UdpInv, client.pc = "receive",
           NEW d \in Datagram, WarmupReceive(d)
    PROVE  Takes(d)
  <1>1. client.index < Total /\ client.index \in Nat /\ Total \in Nat
    BY ServerTypes, ClientTypes DEF UdpInv, Places
  <1>2. CASE client' = [client EXCEPT !.pc = "cancel"]
    BY <1>2, ClientTypes DEF Takes
  <1>3. CASE /\ client' = [client EXCEPT !.pc = "send", !.index = @ + 1]
             /\ d.seq = client.index
    <2>1. client.index + 1 \in 0..Total
      BY <1>1
    <2> QED
      BY <1>3, <2>1, ClientTypes DEF Takes
  <1> QED
    BY <1>2, <1>3 DEF WarmupReceive

\* A measured answer is rejected, noted as late, or taken as a sample.
LEMMA MeasuredTakes ==
    ASSUME UdpInv, client.pc = "receive", client.index >= Warmup,
           NEW d \in Elements(responses), MeasuredReceive(d)
    PROVE  Takes(d)
  <1> DEFINE reason == ClientRejects(d)
             c == client.count
  <1>1. /\ client.index < Total /\ client.index \in Nat /\ Total \in Nat
        /\ Warmup \in Nat
        /\ d \in Datagram /\ d.seq \in 0..Total /\ c \in CountType
    BY ServerTypes, ClientTypes DEF UdpInv, Places
  <1>2. /\ reason \in {"truncated", "invalid", "duplicates", "none"}
        /\ reason = "truncated" => d.kind # "whole"
        /\ reason = "invalid" => \/ d.kind # "whole" \/ d.from # "server"
                                 \/ d.seq \notin Measured
        /\ reason = "duplicates" => d.seq \in c.seen
        /\ reason = "none" => FromServer(d) /\ d.seq \in Measured
    BY DEF ClientRejects, FromServer
  <1>3. CASE reason # "none"
    <2>1. /\ client' = [client EXCEPT !.pc = "wait", !.count = Bump(@, reason)]
          /\ reason \in {"truncated", "invalid", "duplicates"}
      BY <1>2, <1>3 DEF MeasuredReceive
    <2>2. reason = "truncated" => disturbed.stray # 0
      BY <1>2 DEF UdpInv, OwnTraffic
    <2>3. reason = "invalid" => disturbed.stray # 0 \/ disturbed.copy # 0
      <3> SUFFICES ASSUME reason = "invalid", disturbed.stray = 0,
                          disturbed.copy = 0
                   PROVE  FALSE
        OBVIOUS
      <3>1. d.kind = "whole" /\ d.from = "server" /\ d.seq < Total
        BY DEF UdpInv, OwnTraffic
      <3>2. d.seq < Warmup => d.seq >= client.index
        BY DEF UdpInv, Once
      <3>3. d.seq \in Measured
        BY <1>1, <3>1, <3>2 DEF Measured
      <3> QED
        BY <1>2, <3>1, <3>3
    <2>4. reason = "duplicates" => disturbed.stray # 0 \/ disturbed.copy # 0
      BY <1>2 DEF UdpInv, Once
    <2> HIDE DEF reason
    <2>5. /\ client'.pc = "wait" /\ client'.index = client.index
          /\ client'.completed = client.completed
          /\ client'.count = Bump(c, reason)
      BY <2>1, ClientTypes
    <2>6. /\ Bump(c, reason) \in CountType
          /\ Bump(c, reason).seen = c.seen /\ Bump(c, reason).high = c.high
          /\ Bump(c, reason).reordered = c.reordered
          /\ reason # "duplicates" => Bump(c, reason).duplicates = c.duplicates
          /\ reason # "invalid" => Bump(c, reason).invalid = c.invalid
          /\ reason # "truncated" => Bump(c, reason).truncated = c.truncated
      BY <1>1, <2>1, BumpIs
    <2>7. client' \in [pc : {"start", "send", "wait", "receive", "missed",
                            "join", "cancel", "unwind", "returned", "threw"},
                      index : 0..Total, completed : Seq(Measured),
                      count : CountType]
      <3> DEFINE new == Bump(c, reason)
      <3>1. new \in CountType
            /\ client' = [client EXCEPT !.pc = "wait", !.count = new]
        BY <2>1, <2>6
      <3> HIDE DEF new
      <3> QED
        BY <3>1, ClientTypes
    <2> QED
      BY <2>2, <2>3, <2>4, <2>5, <2>6, <2>7 DEF Takes
  <1>4. CASE reason = "none"
    <2> DEFINE new == FirstArrival(c, d.seq)
    <2>1. FromServer(d) /\ d.seq \in Measured
      BY <1>2, <1>4
    <2>2. d.seq \in echoed
      BY <2>1 DEF UdpInv, Answers
    <2>3. /\ new \in CountType
          /\ new.seen = c.seen \cup {d.seq} /\ new.high \in {d.seq, c.high}
          /\ c.high <= d.seq => new.reordered = c.reordered
          /\ new.duplicates = c.duplicates /\ new.invalid = c.invalid
          /\ new.truncated = c.truncated
      BY <1>1, <2>1, FirstArrivalIs
    <2>4. disturbed.stray = 0 /\ disturbed.swap = 0 => c.high <= d.seq
      BY DEF UdpInv, Ordered
    <2>5. \/ client' = [client EXCEPT !.pc = "wait", !.count = new]
          \/ /\ client' = [client EXCEPT !.pc = "send", !.index = @ + 1,
                                !.count = new, !.completed = Append(@, d.seq)]
             /\ d.seq = client.index
      BY <1>4 DEF MeasuredReceive
    <2> HIDE DEF new
    <2>6. CASE client' = [client EXCEPT !.pc = "wait", !.count = new]
      BY <2>3, <2>4, <2>6, ClientTypes DEF Takes
    <2>7. CASE /\ client' = [client EXCEPT !.pc = "send", !.index = @ + 1,
                                !.count = new, !.completed = Append(@, d.seq)]
               /\ d.seq = client.index
      <3>1. /\ client.index + 1 \in 0..Total
            /\ Append(client.completed, d.seq) \in Seq(Measured)
        BY <1>1, <2>1, ClientTypes
      <3>2. /\ client'.pc = "send" /\ client'.index = client.index + 1
            /\ client'.count = new
            /\ client'.completed = Append(client.completed, d.seq)
        BY <2>7, ClientTypes
      <3>3. client' \in [pc : {"start", "send", "wait", "receive", "missed",
                              "join", "cancel", "unwind", "returned", "threw"},
                        index : 0..Total, completed : Seq(Measured),
                        count : CountType]
        BY <2>3, <2>7, <3>1, ClientTypes
      <3> QED
        BY <2>1, <2>2, <2>3, <2>4, <2>7, <3>2, <3>3 DEF Takes
    <2> QED
      BY <2>5, <2>6, <2>7
  <1> QED
    BY <1>3, <1>4

\* The client takes an answer from its queue.
LEMMA ClientReceiveStep ==
    ASSUME UdpInv, ClientReceive
    PROVE  UdpInv'
  <1> DEFINE d == Head(responses)
             k == client.index
  <1>1. /\ client.pc = "receive" /\ responses # <<>> /\ k < Total /\ k \in Nat
        /\ responses' = Tail(responses)
        /\ UNCHANGED <<requests, disturbed, server_state, server, echoed>>
    BY ClientTypes DEF ClientReceive, UdpInv, Places
  <1>2. /\ d \in Datagram /\ d \in Elements(responses)
        /\ responses' \in Seq(Datagram)
        /\ Elements(responses') \subseteq Elements(responses)
        /\ Distinct(responses) => /\ Distinct(responses')
                                  /\ \A e \in Elements(responses') :
                                       e.seq # d.seq
        /\ Sorted(responses) => /\ Sorted(responses')
                                /\ \A e \in Elements(responses') :
                                     d.seq <= e.seq
    BY <1>1, ServerTypes, QueueTail
  <1>3. Takes(d)
    <2>1. CASE k < Warmup
      BY <1>1, <1>2, <2>1, WarmupTakes DEF ClientReceive
    <2>2. CASE ~(k < Warmup)
      <3>1. k >= Warmup
        BY <1>1, <2>2, ServerTypes
      <3> QED
        BY <1>1, <1>2, <2>2, <3>1, MeasuredTakes DEF ClientReceive
    <2> QED
      BY <2>1, <2>2
  <1> HIDE DEF d
  <1>4. Counting' = Counting /\ Echoing' = Echoing
    BY <1>1 DEF Counting, Echoing
  <1>5. \A n \in Nat : WasSent(n) => WasSent(n)'
    BY <1>1, <1>3 DEF WasSent, Takes
  <1>6. UdpTypes'
    BY <1>1, <1>2, <1>3 DEF UdpInv, UdpTypes, Takes
  <1>7. Places'
    BY <1>1, <1>3, <1>4 DEF UdpInv, Places, Takes
  <1>8. Answers'
    BY <1>1, <1>2 DEF UdpInv, Answers
  <1>9. Highs'
    BY <1>1, <1>3 DEF UdpInv, Highs, Takes
  <1>10. InOrder'
    <2>1. client'.pc # "returned"
      BY <1>3 DEF Takes
    <2>2. CASE client'.completed = client.completed
      <3>1. k <= client'.index /\ client'.index \in Nat
        BY <1>1, <1>3 DEF Takes
      <3>2. \A i \in DOMAIN client.completed : client.completed[i] \in Nat
        BY ServerTypes, ClientTypes
      <3>3. \A i \in DOMAIN client.completed :
              client.completed[i] < client'.index
        BY <1>1, <3>1, <3>2 DEF UdpInv, InOrder
      <3> QED
        BY <1>1, <2>1, <2>2, <3>3 DEF UdpInv, InOrder
    <2>3. CASE /\ client'.completed = Append(client.completed, d.seq)
               /\ d.seq \in echoed /\ d.seq \in Measured /\ d.seq = k
               /\ client'.index = k + 1
      <3>1. /\ client.completed \in Seq(Measured)
            /\ \A i \in DOMAIN client.completed :
                  client.completed[i] \in Nat /\ client.completed[i] < k
                  /\ client.completed[i] \in echoed
            /\ \A i, j \in DOMAIN client.completed :
                  i < j => client.completed[i] < client.completed[j]
        BY ServerTypes, ClientTypes DEF UdpInv, InOrder
      <3>2. /\ \A i \in DOMAIN client'.completed :
                  \/ /\ i \in DOMAIN client.completed
                     /\ client'.completed[i] = client.completed[i]
                  \/ client'.completed[i] = k
            /\ \A i, j \in DOMAIN client'.completed :
                  i < j => client'.completed[i] < client'.completed[j]
        BY <2>3, <3>1, SampleAppended
      <3>3. \A i \in DOMAIN client'.completed :
              client'.completed[i] < client'.index
              /\ client'.completed[i] \in echoed
        BY <1>1, <2>3, <3>1, <3>2
      <3> QED
        BY <1>1, <2>1, <3>2, <3>3 DEF InOrder
    <2> QED
      BY <1>3, <2>2, <2>3 DEF Takes
  <1>11. OwnTraffic'
    <2> SUFFICES ASSUME disturbed.stray = 0
                 PROVE  OwnTraffic'
      BY <1>1 DEF OwnTraffic
    <2>1. /\ \A e \in Elements(requests) \cup Elements(responses) \cup Counting :
                WasSent(e.seq)'
          /\ \A n \in server.count.seen \cup client.count.seen : WasSent(n)'
      <3>1. /\ \A e \in Elements(requests) \cup Elements(responses) \cup Counting :
                  e.seq \in Nat /\ WasSent(e.seq)
            /\ \A n \in server.count.seen \cup client.count.seen :
                  n \in Nat /\ WasSent(n)
        BY ServerTypes, ClientTypes DEF UdpInv, OwnTraffic
      <3> QED
        BY <1>5, <3>1
    <2>2. \A n \in server.count.seen \cup client'.count.seen : WasSent(n)'
      BY <1>2, <1>3, <2>1 DEF Takes
    <2> QED
      BY <1>1, <1>2, <1>3, <1>4, <2>1, <2>2 DEF UdpInv, OwnTraffic, Takes
  <1>12. Once'
    <2> SUFFICES ASSUME disturbed.copy = 0, disturbed.stray = 0
                 PROVE  Once'
      BY <1>1 DEF Once
    <2> DEFINE rest == Elements(requests) \cup Echoing \cup Elements(responses')
    <2>1. \A e \in rest : e.seq \in Nat /\ e.seq # d.seq
      BY <1>2, ServerTypes, ClientTypes DEF UdpInv, Once
    <2>2. \A e \in rest : e.seq \notin client.count.seen
                         /\ (e.seq < Warmup => e.seq >= k)
      BY <1>2 DEF UdpInv, Once
    <2>3. \A e \in rest : e.seq \notin client'.count.seen
      BY <1>3, <2>1, <2>2 DEF Takes
    <2>4. \A e \in rest : e.seq < Warmup => e.seq >= client'.index
      BY <1>1, <1>3, <2>1, <2>2 DEF Takes
    <2>5. /\ client'.count.duplicates = client.count.duplicates
          /\ client'.count.invalid = client.count.invalid
      BY <1>3 DEF Takes
    <2> QED
      BY <1>1, <1>2, <1>4, <2>3, <2>4, <2>5 DEF UdpInv, Once
  <1>13. Ordered'
    <2> SUFFICES ASSUME disturbed.swap = 0, disturbed.stray = 0
                 PROVE  Ordered'
      BY <1>1 DEF Ordered
    <2> DEFINE rest == Elements(requests) \cup Echoing \cup Elements(responses')
    <2>1. \A e \in rest : d.seq <= e.seq /\ client.count.high <= e.seq
      BY <1>2, ClientTypes DEF UdpInv, Ordered
    <2>2. \A e \in rest : client'.count.high <= e.seq
      BY <1>3, <2>1 DEF Takes
    <2>3. client'.count.reordered = client.count.reordered
      BY <1>3 DEF Takes
    <2> QED
      BY <1>1, <1>2, <1>4, <2>2, <2>3 DEF UdpInv, Ordered
  <1> QED
    BY <1>6, <1>7, <1>8, <1>9, <1>10, <1>11, <1>12, <1>13 DEF UdpInv

------------------------------------------------------------------------------
(* The theorems.                                                           *)

\* run_udp starts with empty queues and counters.
LEMMA UdpStart == Init => UdpInv
  <1> SUFFICES ASSUME Init
               PROVE  UdpInv
    OBVIOUS
  <1>1. /\ Warmup \in Nat /\ Samples \in Nat /\ Total \in Nat
    BY UdpAssumption DEF Total
  <1>2. Counters \in CountType /\ Request(0) \in Datagram
    BY <1>1 DEF Counters, CountType, Request, Datagram, Kinds
  <1>3. requests = <<>> /\ responses = <<>> /\ client.completed = <<>>
    BY DEF Init
  <1>4. /\ requests \in Seq(Datagram) /\ responses \in Seq(Datagram)
        /\ client.completed \in Seq(Measured)
    BY <1>3
  <1>5. /\ DOMAIN client.completed = {}
        /\ Elements(requests) = {} /\ Elements(responses) = {}
        /\ Distinct(requests) /\ Distinct(responses)
        /\ Sorted(requests) /\ Sorted(responses)
    BY <1>3 DEF Elements, Distinct, Sorted
  <1>6. UdpTypes
    <2>1. client \in [pc : {"start", "send", "wait", "receive", "missed",
                           "join", "cancel", "unwind", "returned", "threw"},
                     index : 0..Total, completed : Seq(Measured),
                     count : CountType]
      BY <1>1, <1>2 DEF Init
    <2>2. server \in [pc : {"start", "check", "receive", "echo", "count",
                           "stop", "ended"},
                     datagram : Datagram, count : CountType]
      BY <1>2 DEF Init
    <2> QED
      BY <1>4, <2>1, <2>2 DEF Init, UdpTypes
  <1>7. Counting = {} /\ Echoing = {}
    BY DEF Init, Counting, Echoing
  <1>8. /\ server.count = Counters /\ client.count = Counters
        /\ server.pc = "start" /\ client.pc = "start"
        /\ server_state = 0 /\ echoed = {}
    BY DEF Init
  <1>9. Places /\ Answers /\ InOrder /\ Highs
    BY <1>5, <1>7, <1>8 DEF Places, Answers, InOrder, Highs, Counters
  <1>10. OwnTraffic /\ Once /\ Ordered
    BY <1>5, <1>7, <1>8 DEF OwnTraffic, Once, Ordered, Counters
  <1> QED
    BY <1>6, <1>9, <1>10 DEF UdpInv

\* The inductive invariant of run_udp: where every request can be, and what
\* the counters say of it, for any number of requests and disturbances.
THEOREM UdpInvariance == Spec => []UdpInv
  <1>1. UdpInv /\ [Next]_vars => UdpInv'
    <2> SUFFICES ASSUME UdpInv, [Next]_vars
                 PROVE  UdpInv'
      OBVIOUS
    <2>1. CASE Server \/ ServerThrows
      BY <2>1, ServerMoves, ServerReceiveStep, ServerEchoStep, ServerCountStep
         DEF Server
    <2>2. CASE Client \/ ClientThrows \/ DeadlinePasses
      BY <2>2, ClientMoves, ClientSendStep, ClientReceiveStep, JoinStep
         DEF Client
    <2>3. CASE CopyDatagram \/ SwapDatagrams \/ StrayDatagram
      BY <2>3, CopyStep, SwapStep, StrayStep
    <2>4. CASE Ended \/ UNCHANGED vars
      BY <2>4, ClientMoves DEF Ended
    <2> QED
      BY <2>1, <2>2, <2>3, <2>4 DEF Next
  <1> QED
    BY <1>1, UdpStart, PTL DEF Spec

\* run_udp's accounts add up: the "inconsistent UDP deadline accounting" error
\* is never thrown, every sample of a finished run was counted by the server,
\* and measured_seen and response_seen are only indexed inside their bounds.
THEOREM UdpAccounts == Spec => []AccountsAddUp
  <1>1. UdpInv => AccountsAddUp
    <2> SUFFICES ASSUME UdpInv
                 PROVE  AccountsAddUp
      OBVIOUS
    <2>1. server.count.seen \cup client.count.seen \subseteq Measured
      BY ServerTypes DEF CountType
    <2>2. client.pc # "inconsistent"
      BY ClientTypes
    <2> QED
      BY <2>1, <2>2 DEF UdpInv, InOrder, AccountsAddUp
  <1> QED
    BY <1>1, UdpInvariance, PTL

\* Every latency sample is an answer of this server to the request it is
\* attributed to, and no request gives two samples.
THEOREM UdpSamples == Spec => []SamplesAreAnswers
  <1>1. UdpInv => SamplesAreAnswers
    BY DEF UdpInv, InOrder, SamplesAreAnswers, Completed
  <1> QED
    BY <1>1, UdpInvariance, PTL

\* A duplicate, reordered, invalid or truncated message is reported only if the
\* network produced one: loss and lateness are never reported as such.
THEOREM UdpAnomalies == Spec => []AnomaliesAreReal
  <1>1. UdpInv => AnomaliesAreReal
    <2> SUFFICES ASSUME UdpInv
                 PROVE  AnomaliesAreReal
      OBVIOUS
    <2>1. /\ disturbed.copy \in Nat /\ disturbed.swap \in Nat
          /\ disturbed.stray \in Nat
      BY DEF UdpInv, UdpTypes
    <2>2. /\ Happened("copy") <=> disturbed.copy # 0
          /\ Happened("swap") <=> disturbed.swap # 0
          /\ Happened("stray") <=> disturbed.stray # 0
      BY <2>1 DEF Happened
    <2>3. disturbed.stray = 0 => ~Counted("truncated")
      BY DEF UdpInv, OwnTraffic, Counted
    <2>4. disturbed.stray = 0 /\ disturbed.copy = 0 =>
            ~Counted("duplicates") /\ ~Counted("invalid")
      BY DEF UdpInv, OwnTraffic, Once, Counted
    <2>5. disturbed.stray = 0 /\ disturbed.swap = 0 => ~Counted("reordered")
      BY DEF UdpInv, Ordered, Counted
    <2> QED
      BY <2>2, <2>3, <2>4, <2>5 DEF AnomaliesAreReal
  <1> QED
    BY <1>1, UdpInvariance, PTL

\* Whether it returns or throws, run_udp has joined its server thread, which
\* does nothing afterwards.
THEOREM UdpJoinsItsServer == Spec => []NoThreadLeftBehind
  <1>1. Init => NoThreadLeftBehind
    BY DEF Init, NoThreadLeftBehind, Over
  <1>2. ASSUME UdpInv, NoThreadLeftBehind, [Next]_vars
        PROVE  NoThreadLeftBehind'
    <2>1. CASE Server \/ ServerThrows
      <3>1. client' = client /\ server.pc # "ended"
        BY <2>1 DEF Server, ServerStart, ServerThrows, ServerCheck,
                    ServerNotReady, ServerReceive, ServerEcho, ServerCount,
                    ServerStop
      <3> QED
        BY <1>2, <3>1 DEF NoThreadLeftBehind, Over
    <2>2. CASE ClientJoin \/ ClientCatch
      <3>1. server' = server
        BY <2>2 DEF ClientJoin, ClientCatch
      <3>2. Over' => server.pc = "ended"
        BY <2>2, ClientTypes, <1>2 DEF ClientJoin, ClientCatch, Over
      <3> QED
        BY <3>1, <3>2 DEF NoThreadLeftBehind
    <2>3. CASE \/ ClientStart \/ ClientSend \/ ClientWait \/ ClientReceive
               \/ ClientMissed \/ ClientFinish \/ ClientThrows
      <3>1. server' = server
        BY <2>3 DEF ClientStart, ClientSend, ClientWait, ClientReceive,
                    ClientMissed, ClientFinish, ClientThrows
      <3>2. ~Over'
        BY <2>3, ClientTypes, <1>2
           DEF Over, ClientStart, ClientSend, ClientWait, ClientReceive,
               WarmupReceive, MeasuredReceive, ClientMissed, ClientFinish,
               ClientThrows
      <3> QED
        BY <3>1, <3>2 DEF NoThreadLeftBehind
    <2>4. CASE \/ DeadlinePasses \/ CopyDatagram \/ SwapDatagrams
               \/ StrayDatagram \/ Ended \/ UNCHANGED vars
      <3>1. server' = server /\ client' = client
        BY <2>4 DEF DeadlinePasses, CopyDatagram, SwapDatagrams, StrayDatagram,
                    Disturb, Ended, vars
      <3> QED
        BY <1>2, <3>1 DEF NoThreadLeftBehind, Over
    <2> QED
      BY <1>2, <2>1, <2>2, <2>3, <2>4 DEF Next, Client
  <1> QED
    BY <1>1, <1>2, UdpInvariance, PTL DEF Spec
==============================================================================
