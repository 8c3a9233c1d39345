---------------------------- MODULE SocketProofs -----------------------------
(***************************************************************************)
(* The safety of lls::networking: the stream and datagram calls, for all   *)
(* span and buffer sizes, all kernel buffers and any length of the stream; *)
(* the option helpers, for every set of callers, every width of an int,    *)
(* every requested budget and whatever the kernel stores.                  *)
(***************************************************************************)
EXTENDS StreamSockets, DatagramSockets, SocketOptions,
        SequenceTheorems, TLAPS

------------------------------------------------------------------------------
(* Streams.                                                                *)

\* What the kernel and the two callers hold are sequences of byte numbers, and
\* neither loop runs past the end of its span.
StreamTypes ==
    /\ wire \in Seq(Nat) /\ collected \in Seq(Nat)
    /\ closed \in BOOLEAN
    /\ told \in Nat
    /\ sender \in [calling : BOOLEAN, size : Nat, bytes_sent : Nat]
    /\ sender.bytes_sent <= sender.size
    /\ receiver \in [mode : {"none", "blocking", "spin"}, size : Nat,
                     bytes_received : Nat,
                     state : {"receiving", "complete", "stopped", "peer_closed",
                              "error"}]
    /\ Receiving => /\ receiver.bytes_received <= receiver.size
                           /\ span \in [1..receiver.size -> Nat]

\* The numbers from a + 1 to a + n.
CountFrom(a, n) == [k \in 1..n |-> a + k]

\* The bytes of the stream in order: taken, held, under way.
Bytes == collected \o Held \o wire

\* The inductive invariant: the bytes are those accepted, in order, a closed
\* connection has no call in progress, and nothing is left on the wire once a
\* peer_closed has been reported.
StreamInv ==
    /\ StreamTypes
    /\ Bytes = CountFrom(0, Accepted)
    /\ closed => ~sender.calling
    /\ receiver.state = "peer_closed" => closed /\ wire = <<>>

\* The first n elements of a sequence, or of a span.
LEMMA Prefix ==
    ASSUME NEW m \in Nat, NEW f \in [1..m -> Nat], NEW n \in 0..m
    PROVE  /\ SubSeq(f, 1, n) \in Seq(Nat)
           /\ Len(SubSeq(f, 1, n)) = n
           /\ \A i \in 1..n : SubSeq(f, 1, n)[i] = f[i]
  <1>1. \A i \in 1..n : f[i] \in Nat
    OBVIOUS
  <1>2. 1 \in Int /\ n \in Int /\ n - 1 + 1 = n
    OBVIOUS
  <1>3. /\ SubSeq(f, 1, n) \in Seq(Nat)
        /\ Len(SubSeq(f, 1, n)) = IF 1 <= n THEN n - 1 + 1 ELSE 0
        /\ \A i \in 1..(n - 1 + 1) : SubSeq(f, 1, n)[i] = f[1 + i - 1]
    BY <1>1, <1>2, SubSeqProperties
  <1> QED
    BY <1>3

\* A concatenation by its two parts.
LEMMA ConcatParts ==
    ASSUME NEW s \in Seq(Nat), NEW t \in Seq(Nat)
    PROVE  /\ s \o t \in Seq(Nat)
           /\ Len(s \o t) = Len(s) + Len(t)
           /\ \A i \in 1..Len(s) : (s \o t)[i] = s[i]
           /\ \A i \in 1..Len(t) : (s \o t)[Len(s) + i] = t[i]
  OBVIOUS

\* A sequence that agrees with s and then with t is their concatenation.
LEMMA ConcatEqual ==
    ASSUME NEW s \in Seq(Nat), NEW t \in Seq(Nat), NEW u \in Seq(Nat),
           Len(u) = Len(s) + Len(t),
           \A i \in 1..Len(s) : u[i] = s[i],
           \A i \in 1..Len(t) : u[Len(s) + i] = t[i]
    PROVE  u = s \o t
  <1> DEFINE v == s \o t
  <1>1. /\ v \in Seq(Nat) /\ Len(v) = Len(s) + Len(t)
        /\ \A i \in 1..Len(s) : v[i] = s[i]
        /\ \A i \in 1..Len(t) : v[Len(s) + i] = t[i]
    BY ConcatParts
  <1> HIDE DEF v
  <1>2. ASSUME NEW i \in 1..Len(u)
        PROVE  u[i] = v[i]
    <2>1. CASE i <= Len(s)
      BY <1>1, <2>1
    <2>2. CASE i > Len(s)
      <3> DEFINE j == i - Len(s)
      <3>1. j \in 1..Len(t) /\ i = Len(s) + j
        BY <2>2
      <3> HIDE DEF j
      <3> QED
        BY <1>1, <3>1
    <2> QED
      BY <2>1, <2>2
  <1>3. u = v
    BY <1>1, <1>2, SeqEqual
  <1> QED
    BY <1>3 DEF v

\* Counting on from a adds the next n numbers at the end.
LEMMA CountOn ==
    ASSUME NEW a \in Nat, NEW n \in Nat
    PROVE  /\ CountFrom(a, n) \in Seq(Nat)
           /\ CountFrom(0, a) \o CountFrom(a, n) = CountFrom(0, a + n)
  <1>1. \A b, m \in Nat : /\ CountFrom(b, m) \in Seq(Nat)
                          /\ Len(CountFrom(b, m)) = m
                          /\ \A k \in 1..m : CountFrom(b, m)[k] = b + k
    BY DEF CountFrom
  <1> DEFINE s == CountFrom(0, a)
             t == CountFrom(a, n)
             u == CountFrom(0, a + n)
  <1>2. /\ s \in Seq(Nat) /\ Len(s) = a /\ \A k \in 1..a : s[k] = k
        /\ t \in Seq(Nat) /\ Len(t) = n /\ \A k \in 1..n : t[k] = a + k
        /\ u \in Seq(Nat) /\ Len(u) = a + n
        /\ \A k \in 1..(a + n) : u[k] = k
    <2>1. \A m \in Nat : /\ CountFrom(0, m) \in Seq(Nat)
                         /\ Len(CountFrom(0, m)) = m
                         /\ \A k \in 1..m : CountFrom(0, m)[k] = k
      BY DEF CountFrom
    <2>2. a + n \in Nat
      OBVIOUS
    <2> QED
      BY <1>1, <2>1, <2>2
  <1> HIDE DEF s, t, u
  <1>3. /\ \A i \in 1..Len(s) : u[i] = s[i]
        /\ \A i \in 1..Len(t) : u[Len(s) + i] = t[i]
    BY <1>2
  <1>4. u = s \o t
    BY <1>2, <1>3, ConcatEqual
  <1> QED
    BY <1>2, <1>4 DEF s, t, u

\* bytes written into the span f behind its first b elements.
Patch(size, f, b, bytes) ==
    [k \in 1..size |-> IF k - b \in DOMAIN bytes THEN bytes[k - b] ELSE f[k]]

\* Writing bytes behind the first b elements of a span extends these.
LEMMA PatchExtends ==
    ASSUME NEW size \in Nat, NEW f \in [1..size -> Nat], NEW b \in Nat,
           NEW bytes \in Seq(Nat), b + Len(bytes) <= size
    PROVE  /\ Patch(size, f, b, bytes) \in [1..size -> Nat]
           /\ SubSeq(Patch(size, f, b, bytes), 1, b + Len(bytes))
                = SubSeq(f, 1, b) \o bytes
  <1> DEFINE n == Len(bytes)
             g == Patch(size, f, b, bytes)
             held == SubSeq(f, 1, b)
             s == SubSeq(g, 1, b + n)
  <1>1. /\ n \in Nat /\ DOMAIN bytes = 1..n /\ b + n \in 0..size /\ b \in 0..size
        /\ \A i \in 1..n : bytes[i] \in Nat
    OBVIOUS
  <1>2. \A i \in 1..b : i \in 1..size /\ g[i] = f[i]
    BY <1>1 DEF Patch
  <1>3. \A i \in 1..n : b + i \in 1..size /\ g[b + i] = bytes[i]
    <2> SUFFICES ASSUME NEW i \in 1..n
                 PROVE  b + i \in 1..size /\ g[b + i] = bytes[i]
      OBVIOUS
    <2>1. b + i \in 1..size /\ (b + i) - b = i
      BY <1>1
    <2> QED
      BY <1>1, <2>1 DEF Patch
  <1>4. g \in [1..size -> Nat]
    BY <1>1 DEF Patch
  <1> HIDE DEF n, g
  <1>5. held \in Seq(Nat) /\ Len(held) = b /\ \A i \in 1..b : held[i] = f[i]
    BY <1>1, Prefix
  <1>6. s \in Seq(Nat) /\ Len(s) = b + n /\ \A i \in 1..(b + n) : s[i] = g[i]
    BY <1>1, <1>4, Prefix
  <1> HIDE DEF held, s
  <1>7. /\ Len(s) = Len(held) + Len(bytes)
        /\ \A i \in 1..Len(held) : s[i] = held[i]
        /\ \A i \in 1..Len(bytes) : s[Len(held) + i] = bytes[i]
    <2>1. /\ \A i \in 1..b : i \in 1..(b + n)
          /\ \A i \in 1..n : b + i \in 1..(b + n)
      BY <1>1
    <2>2. \A i \in 1..b : s[i] = held[i]
      BY <1>2, <1>5, <1>6, <2>1, Zenon
    <2>3. \A i \in 1..n : s[b + i] = bytes[i]
      BY <1>3, <1>6, <2>1, Zenon
    <2> QED
      BY <1>5, <1>6, <2>2, <2>3 DEF n
  <1>8. s = held \o bytes
    BY <1>5, <1>6, <1>7, ConcatEqual
  <1> QED
    BY <1>4, <1>8 DEF s, held, g, n

\* recv at the end of the bytes received so far extends them.
LEMMA StoreExtends ==
    ASSUME StreamTypes, Receiving,
           NEW n \in 1..(receiver.size - receiver.bytes_received),
           n <= Len(wire)
    PROVE  LET bytes == SubSeq(wire, 1, n)
               after == Store(receiver.bytes_received, bytes)
           IN  /\ after \in [1..receiver.size -> Nat]
               /\ SubSeq(after, 1, receiver.bytes_received + n)
                    = SubSeq(span, 1, receiver.bytes_received) \o bytes
  <1> DEFINE b     == receiver.bytes_received
             size  == receiver.size
             bytes == SubSeq(wire, 1, n)
  <1>1. /\ b \in Nat /\ size \in Nat /\ b + n <= size /\ n \in 0..Len(wire)
        /\ span \in [1..size -> Nat]
        /\ Len(wire) \in Nat /\ wire \in [1..Len(wire) -> Nat]
    BY DEF StreamTypes
  <1>2. bytes \in Seq(Nat) /\ Len(bytes) = n
    BY <1>1, Prefix
  <1> HIDE DEF b, size, bytes
  <1>3. b + Len(bytes) <= size
    BY <1>1, <1>2
  <1>4. /\ Patch(size, span, b, bytes) \in [1..size -> Nat]
        /\ SubSeq(Patch(size, span, b, bytes), 1, b + Len(bytes))
             = SubSeq(span, 1, b) \o bytes
    BY <1>1, <1>2, <1>3, PatchExtends
  <1>5. Patch(size, span, b, bytes) = Store(b, bytes)
    BY DEF Patch, Store, size
  <1> QED
    BY <1>2, <1>4, <1>5 DEF b, size, bytes

\* What the receiving side holds beyond what its caller has kept.
LEMMA HeldIs ==
    ASSUME StreamTypes
    PROVE  /\ Held \in Seq(Nat)
           /\ ~Receiving => Held = <<>>
           /\ Receiving =>
                Held = SubSeq(span, 1, receiver.bytes_received)
  <1>1. CASE Receiving
    <2>1. /\ receiver.size \in Nat /\ span \in [1..receiver.size -> Nat]
          /\ receiver.bytes_received \in 0..receiver.size
      BY <1>1 DEF StreamTypes
    <2>2. SubSeq(span, 1, receiver.bytes_received) \in Seq(Nat)
      BY <2>1, Prefix
    <2> QED
      BY <1>1, <2>2 DEF Held
  <1>2. CASE ~Receiving
    BY <1>2 DEF Held
  <1> QED
    BY <1>1, <1>2

\* What the calls hold are sequences.
LEMMA BytesAreSeqs ==
    ASSUME StreamTypes
    PROVE  /\ wire \in Seq(Nat) /\ collected \in Seq(Nat)
           /\ Held \in Seq(Nat)
           /\ collected \o Held \in Seq(Nat)
  <1>1. /\ wire \in Seq(Nat) /\ collected \in Seq(Nat)
        /\ Held \in Seq(Nat)
    BY HeldIs DEF StreamTypes
  <1> QED
    BY <1>1, ConcatProperties

\* A send that is accepted appends to the stream.
LEMMA SendBytesExact ==
    ASSUME StreamInv, SendBytes
    PROVE  StreamInv'
  <1> DEFINE a == told + sender.bytes_sent
  <1>1. PICK n \in 1..(sender.size - sender.bytes_sent) :
          /\ wire' = wire \o [k \in 1..n |-> told + sender.bytes_sent + k]
          /\ sender' = [sender EXCEPT !.bytes_sent = @ + n]
    BY DEF SendBytes
  <1>2. /\ UNCHANGED <<closed, told, receiver, span, stop, collected>>
        /\ sender.calling /\ ~closed
    BY DEF SendBytes, StreamInv
  <1>3. /\ told \in Nat /\ sender.bytes_sent \in Nat /\ sender.size \in Nat
        /\ sender \in [calling : BOOLEAN, size : Nat, bytes_sent : Nat]
    BY DEF StreamInv, StreamTypes
  <1>4. n \in Nat /\ a \in Nat /\ sender.bytes_sent + n <= sender.size
    BY <1>3
  <1>5. /\ sender'.bytes_sent = sender.bytes_sent + n
        /\ sender'.size = sender.size /\ sender'.calling = sender.calling
        /\ sender' \in [calling : BOOLEAN, size : Nat, bytes_sent : Nat]
    <2>1. sender' = [sender EXCEPT !.bytes_sent = sender.bytes_sent + n]
      BY <1>1
    <2>2. sender'.calling = sender.calling
      BY <1>3, <2>1, Zenon
    <2>3. sender.bytes_sent + n \in Nat
      BY <1>3, <1>4
    <2> QED
      BY <1>3, <2>1, <2>2, <2>3
  <1>6. Accepted = a /\ Accepted' = a + n
    BY <1>2, <1>3, <1>4, <1>5 DEF Accepted
  <1>7. wire' = wire \o CountFrom(a, n)
    BY <1>1 DEF CountFrom
  <1> HIDE DEF a
  <1>8. /\ CountFrom(a, n) \in Seq(Nat)
        /\ CountFrom(0, a) \o CountFrom(a, n) = CountFrom(0, a + n)
    BY <1>4, CountOn
  <1>9. /\ wire \in Seq(Nat) /\ collected \o Held \in Seq(Nat)
        /\ Bytes = CountFrom(0, a)
    BY <1>6, BytesAreSeqs DEF StreamInv
  <1>10. wire' \in Seq(Nat)
    BY <1>7, <1>8, <1>9, ConcatProperties
  <1>11. StreamTypes'
    BY <1>2, <1>4, <1>5, <1>10 DEF StreamInv, StreamTypes, Receiving
  <1>12. Bytes' = Bytes \o CountFrom(a, n)
    <2>1. Bytes' = collected \o Held \o (wire \o CountFrom(a, n))
      BY <1>2, <1>7 DEF Bytes, Held, Receiving
    <2> DEFINE s == collected \o Held
               r == CountFrom(a, n)
    <2>2. s \in Seq(Nat) /\ r \in Seq(Nat) /\ wire \in Seq(Nat)
      BY <1>8, <1>9
    <2> HIDE DEF s, r
    <2>3. (s \o wire) \o r = s \o (wire \o r)
      BY <2>2, ConcatAssociative, SMTT(30)
    <2> QED
      BY <2>1, <2>3 DEF s, r, Bytes
  <1>13. Bytes' = CountFrom(0, Accepted')
    BY <1>6, <1>8, <1>9, <1>12
  <1> QED
    BY <1>2, <1>11, <1>13 DEF StreamInv

\* A recv moves the next bytes from the wire to the span.
LEMMA ReceiveBytesExact ==
    ASSUME StreamInv, ReceiveBytes
    PROVE  StreamInv'
  <1> DEFINE b == receiver.bytes_received
  <1>1. PICK n \in 1..(receiver.size - receiver.bytes_received) :
          /\ n <= Len(wire)
          /\ span' = Store(b, SubSeq(wire, 1, n))
          /\ wire' = SubSeq(wire, n + 1, Len(wire))
          /\ receiver' = [receiver EXCEPT !.bytes_received = @ + n]
    BY DEF ReceiveBytes
  <1>2. /\ UNCHANGED <<closed, told, sender, stop, collected>>
        /\ receiver.state = "receiving"
    BY DEF ReceiveBytes, Receiving
  <1>3. /\ b \in Nat /\ receiver.size \in Nat /\ b <= receiver.size
        /\ wire \in Seq(Nat)
    BY <1>2 DEF StreamInv, StreamTypes, Receiving
  <1>4. n \in Nat /\ b + n \in Nat /\ b + n <= receiver.size /\ n \in 0..Len(wire)
    BY <1>1, <1>3
  <1>5. /\ receiver'.bytes_received = b + n /\ receiver'.size = receiver.size
        /\ receiver'.state = "receiving"
        /\ receiver' \in [mode : {"none", "blocking", "spin"}, size : Nat,
                          bytes_received : Nat,
                          state : {"receiving", "complete", "stopped",
                                   "peer_closed", "error"}]
    BY <1>1, <1>2, <1>4 DEF StreamInv, StreamTypes
  <1> DEFINE taken == SubSeq(wire, 1, n)
             held  == SubSeq(span, 1, b)
  <1>6. /\ span' \in [1..receiver.size -> Nat]
        /\ SubSeq(span', 1, b + n) = held \o taken
    BY <1>1, <1>2, StoreExtends DEF StreamInv, Receiving
  <1>7. taken \in Seq(Nat) /\ wire' \in Seq(Nat) /\ taken \o wire' = wire
    <2>1. wire \in [1..Len(wire) -> Nat] /\ Len(wire) \in Nat
      BY <1>3
    <2>2. taken \in Seq(Nat)
      BY <1>4, <2>1, Prefix
    <2>3. wire' \in Seq(Nat)
      BY <1>1, <1>3, <1>4, SMTT(30)
    <2>4. 1 \in 1..(Len(wire) + 1) /\ n \in (1 - 1)..Len(wire)
          /\ Len(wire) \in n..Len(wire)
      BY <1>4, <2>1
    <2>5. taken \o wire' = SubSeq(wire, 1, Len(wire))
      BY <1>1, <1>3, <2>4, ConcatAdjacentSubSeq
    <2>6. SubSeq(wire, 1, Len(wire)) = wire
      BY <1>3, SubSeqFull
    <2> QED
      BY <2>2, <2>3, <2>5, <2>6
  <1>8. Held = held /\ Held' = held \o taken
    BY <1>2, <1>5, <1>6 DEF Held, Receiving
  <1>9. held \in Seq(Nat) /\ collected \in Seq(Nat)
    BY <1>8, BytesAreSeqs DEF StreamInv
  <1> HIDE DEF taken, held
  <1>10. Bytes' = Bytes
    <2>1. Bytes' = collected \o (held \o taken) \o wire'
      BY <1>2, <1>8 DEF Bytes
    <2>2. collected \o (held \o taken) = (collected \o held) \o taken
      <3>1. taken \in Seq(Nat)
        BY <1>7
      <3> QED
        BY <1>9, <3>1, ConcatAssociative, SMTT(30)
    <2>3. collected \o held \in Seq(Nat)
      BY <1>9, ConcatProperties
    <2>4. (collected \o held) \o taken \o wire'
            = (collected \o held) \o (taken \o wire')
      <3> DEFINE p == collected \o held
                 w == wire'
      <3>1. p \in Seq(Nat) /\ taken \in Seq(Nat) /\ w \in Seq(Nat)
        BY <1>7, <2>3
      <3> HIDE DEF p, w
      <3>2. (p \o taken) \o w = p \o (taken \o w)
        BY <3>1, ConcatAssociative, SMTT(30)
      <3> QED
        BY <3>2 DEF p, w
    <2> QED
      BY <1>7, <1>8, <2>1, <2>2, <2>4 DEF Bytes
  <1>11. Accepted' = Accepted
    BY <1>2 DEF Accepted
  <1>12. StreamTypes'
    BY <1>2, <1>4, <1>5, <1>6, <1>7 DEF StreamInv, StreamTypes, Receiving
  <1> QED
    BY <1>2, <1>5, <1>10, <1>11, <1>12 DEF StreamInv

\* A call that returns hands what it holds to its caller.
LEMMA ReturnExact ==
    ASSUME StreamInv, Receiving,
           NEW s \in {"complete", "stopped", "peer_closed", "error"},
           Return(s), s = "peer_closed" => closed /\ wire = <<>>
    PROVE  StreamInv'
  <1>1. /\ UNCHANGED <<wire, closed, told, sender, span, stop>>
        /\ receiver' = [receiver EXCEPT !.state = s]
        /\ collected' = collected \o SubSeq(span, 1, receiver.bytes_received)
    BY DEF Return
  <1>2. receiver'.state = s /\ ~Receiving'
        /\ receiver' \in [mode : {"none", "blocking", "spin"}, size : Nat,
                          bytes_received : Nat,
                          state : {"receiving", "complete", "stopped",
                                   "peer_closed", "error"}]
    BY <1>1 DEF StreamInv, StreamTypes, Receiving
  <1>3. /\ collected' = collected \o Held
        /\ collected' \in Seq(Nat) /\ wire \in Seq(Nat)
    BY <1>1, HeldIs, BytesAreSeqs DEF StreamInv
  <1>4. StreamTypes'
    BY <1>1, <1>2, <1>3 DEF StreamInv, StreamTypes
  <1>5. Held' = <<>>
    BY <1>2 DEF Held
  <1>6. Bytes' = Bytes
    <2>1. collected' \o <<>> = collected'
      BY <1>3, ConcatEmptySeq
    <2> QED
      BY <1>1, <1>3, <1>5, <2>1 DEF Bytes
  <1>7. Accepted' = Accepted
    BY <1>1 DEF Accepted
  <1> QED
    BY <1>1, <1>2, <1>4, <1>6, <1>7 DEF StreamInv

\* A new receive starts with nothing in its span.
LEMMA ReceiveExactExact ==
    ASSUME StreamInv,
           NEW mode \in {"blocking", "spin"}, NEW size \in Sizes,
           ReceiveExact(mode, size)
    PROVE  StreamInv'
  <1>1. /\ UNCHANGED <<wire, closed, told, sender, collected>>
        /\ receiver' = [mode |-> mode, size |-> size, bytes_received |-> 0,
                        state |-> "receiving"]
        /\ span' = [k \in 1..size |-> 0]
        /\ ~Receiving /\ size \in Nat
    BY StreamAssumption DEF ReceiveExact
  <1>2. StreamTypes'
    BY <1>1 DEF StreamInv, StreamTypes
  <1>3. Held = <<>>
    BY <1>1 DEF Held
  <1>4. Held' = <<>>
    <2>1. Held' = SubSeq(span', 1, 0)
      BY <1>1 DEF Held, Receiving
    <2> QED
      BY <2>1, SubSeqEmpty
  <1>5. Bytes' = Bytes /\ Accepted' = Accepted
    BY <1>1, <1>3, <1>4 DEF Bytes, Accepted
  <1> QED
    BY <1>1, <1>2, <1>5 DEF StreamInv

\* The calls and returns of send_all change who counts the accepted bytes, not
\* how many there are.
LEMMA SenderExact ==
    ASSUME StreamInv,
           \/ \E size \in Sizes : SendAll(size)
           \/ SendFails \/ SendReturns
    PROVE  StreamInv'
  <1>1. UNCHANGED <<wire, closed, receiver, span, stop, collected>>
    BY DEF SendAll, SendFails, SendReturns
  <1>2. /\ told \in Nat
        /\ sender \in [calling : BOOLEAN, size : Nat, bytes_sent : Nat]
    BY DEF StreamInv, StreamTypes
  <1> DEFINE Counted ==
               /\ told' \in Nat
               /\ sender' \in [calling : BOOLEAN, size : Nat, bytes_sent : Nat]
               /\ sender'.bytes_sent <= sender'.size
               /\ Accepted' = Accepted
               /\ closed => ~sender'.calling
  <1>3. Counted
    <2>1. ASSUME NEW size \in Sizes, SendAll(size)
          PROVE  Counted
      <3>1. /\ size \in Nat /\ told' = told /\ ~sender.calling /\ ~closed
            /\ sender' = [calling |-> TRUE, size |-> size, bytes_sent |-> 0]
        BY <2>1, StreamAssumption DEF SendAll
      <3>2. Accepted = told + 0 /\ Accepted' = told + 0
        BY <3>1 DEF Accepted
      <3> QED
        BY <1>2, <3>1, <3>2
    <2>2. ASSUME SendFails \/ SendReturns
          PROVE  Counted
      <3>1. /\ sender.calling /\ told' = told + sender.bytes_sent
            /\ sender' = [sender EXCEPT !.calling = FALSE]
        BY <2>2 DEF SendFails, SendReturns
      <3>2. /\ sender'.calling = FALSE
            /\ sender' \in [calling : BOOLEAN, size : Nat, bytes_sent : Nat]
            /\ sender'.bytes_sent = sender.bytes_sent
            /\ sender'.size = sender.size
        BY <1>2, <3>1
      <3>3. told + sender.bytes_sent \in Nat
        BY <1>2
      <3>4. /\ Accepted = told + sender.bytes_sent
            /\ Accepted' = (told + sender.bytes_sent) + 0
        BY <3>1, <3>2 DEF Accepted
      <3>5. Accepted' = Accepted
        BY <3>3, <3>4
      <3>6. sender.bytes_sent <= sender.size
        BY DEF StreamInv, StreamTypes
      <3> QED
        BY <3>1, <3>2, <3>3, <3>5, <3>6
    <2> QED
      BY <2>1, <2>2
  <1>4. StreamTypes'
    BY <1>1, <1>3 DEF StreamInv, StreamTypes, Receiving
  <1>5. Bytes' = Bytes
    BY <1>1 DEF Bytes, Held, Receiving
  <1> QED
    BY <1>1, <1>3, <1>4, <1>5 DEF StreamInv

\* The invariant of the stream calls holds throughout.
THEOREM StreamInvariance == StreamSpec => []StreamInv
  <1>1. StreamInit => StreamInv
    <2> SUFFICES ASSUME StreamInit PROVE StreamInv
      OBVIOUS
    <2>1. StreamTypes
      <3>1. /\ sender \in [calling : BOOLEAN, size : Nat, bytes_sent : Nat]
            /\ sender.bytes_sent <= sender.size
        BY DEF StreamInit
      <3>2. receiver.state = "complete"
            /\ receiver \in [mode : {"none", "blocking", "spin"}, size : Nat,
                             bytes_received : Nat,
                             state : {"receiving", "complete", "stopped",
                                      "peer_closed", "error"}]
        BY DEF StreamInit
      <3>3. /\ wire \in Seq(Nat) /\ collected \in Seq(Nat) /\ told \in Nat
            /\ closed \in BOOLEAN
        <4>1. wire = <<>> /\ collected = <<>> /\ told = 0 /\ closed = FALSE
          BY DEF StreamInit
        <4> QED
          BY <4>1, EmptySeq
      <3> QED
        BY <3>1, <3>2, <3>3 DEF StreamTypes, Receiving
    <2>2. Bytes = <<>>
      <3>1. Held = <<>> /\ wire = <<>> /\ collected = <<>>
        BY DEF StreamInit, Held, Receiving
      <3> QED
        BY <3>1 DEF Bytes
    <2>3. Accepted = 0
      BY DEF StreamInit, Accepted
    <2>4. CountFrom(0, 0) = <<>>
      BY DEF CountFrom
    <2> QED
      BY <2>1, <2>2, <2>3, <2>4 DEF StreamInv, StreamInit
  <1>2. StreamInv /\ [StreamNext]_streamVars => StreamInv'
    <2> SUFFICES ASSUME StreamInv, [StreamNext]_streamVars
                 PROVE  StreamInv'
      OBVIOUS
    <2>1. ASSUME UNCHANGED <<wire, told, sender, receiver, span, collected>>,
                 closed' \in BOOLEAN, closed => closed',
                 closed' => ~sender.calling
          PROVE  StreamInv'
      <3>1. StreamTypes'
        BY <2>1 DEF StreamInv, StreamTypes, Receiving
      <3>2. Bytes' = Bytes /\ Accepted' = Accepted
        BY <2>1 DEF Bytes, Accepted, Held, Receiving
      <3> QED
        BY <2>1, <3>1, <3>2 DEF StreamInv
    <2>2. CASE UNCHANGED streamVars \/ StopRequested
      <3>1. UNCHANGED <<wire, told, sender, receiver, span, collected, closed>>
        BY <2>2 DEF streamVars, StopRequested
      <3>2. closed \in BOOLEAN /\ (closed => ~sender.calling)
        BY DEF StreamInv, StreamTypes
      <3> QED
        BY <2>1, <3>1, <3>2
    <2>3. CASE Close
      BY <2>1, <2>3 DEF Close
    <2>4. CASE \/ \E size \in Sizes : SendAll(size)
               \/ SendFails \/ SendReturns
      BY <2>4, SenderExact
    <2>5. CASE SendBytes
      BY <2>5, SendBytesExact
    <2>6. ASSUME NEW mode \in {"blocking", "spin"}, NEW size \in Sizes,
                 ReceiveExact(mode, size)
          PROVE  StreamInv'
      BY <2>6, ReceiveExactExact
    <2>7. CASE ReceiveBytes
      BY <2>7, ReceiveBytesExact
    <2>8. CASE \/ ReceiveStops \/ ReceiveInterrupted
               \/ ReceivePeerClosed \/ ReceiveFails
               \/ ReceiveCompletes
      <3>1. PICK s \in {"complete", "stopped", "peer_closed", "error"} :
              /\ Receiving /\ Return(s)
              /\ s = "peer_closed" => closed /\ wire = <<>>
        BY <2>8 DEF ReceiveStops, ReceiveInterrupted,
              ReceivePeerClosed, ReceiveFails,
              ReceiveCompletes, Incomplete
      <3> QED
        BY <3>1, ReturnExact
    <2> QED
      BY <2>2, <2>3, <2>4, <2>5, <2>6, <2>7, <2>8 DEF StreamNext, Receive
  <1> QED
    BY <1>1, <1>2, PTL DEF StreamSpec

\* The stream is exact: whatever is transferred partly, stopped, interrupted,
\* failed or retried, the receiving caller gets the bytes send_all accepted,
\* each once and in order.
THEOREM StreamExact == StreamSpec => []StreamIsExact
  <1>1. StreamInv => StreamIsExact
    <2>1. ASSUME NEW n
          PROVE  [k \in 1..n |-> k] = CountFrom(0, n)
      BY DEF CountFrom
    <2> QED
      BY <2>1 DEF StreamInv, StreamIsExact, Bytes
  <1> QED
    BY <1>1, StreamInvariance, PTL

\* peer_closed is reported only when the sender has closed and its caller's
\* bytes are all with the receiving caller.
THEOREM PeerClosedIsFinal == StreamSpec => []CloseLosesNothing
  <1>1. StreamInv => CloseLosesNothing
    <2> SUFFICES ASSUME StreamInv, receiver.state = "peer_closed"
                 PROVE  closed /\ Len(collected) = told
      BY DEF CloseLosesNothing
    <2>1. /\ closed /\ ~sender.calling /\ wire = <<>> /\ told \in Nat
          /\ collected \in Seq(Nat)
      BY DEF StreamInv, StreamTypes
    <2>2. Held = <<>>
      BY DEF Held, Receiving
    <2>3. Accepted = told
      BY <2>1 DEF Accepted
    <2>4. Bytes = collected
      BY <2>1, <2>2, ConcatEmptySeq DEF Bytes
    <2>5. Len(CountFrom(0, told)) = told
      BY <2>1 DEF CountFrom
    <2> QED
      BY <2>1, <2>3, <2>4, <2>5 DEF StreamInv
  <1> QED
    BY <1>1, StreamInvariance, PTL

------------------------------------------------------------------------------
(* Datagrams.                                                              *)

\* An element appended to the second of two sequences.
LEMMA AppendBehind ==
    ASSUME NEW S, NEW s \in Seq(S), NEW t \in Seq(S), NEW x \in S
    PROVE  /\ Append(t, x) \in Seq(S)
           /\ s \o Append(t, x) = Append(s \o t, x)
  <1> DEFINE e == <<x>>
  <1>1. e \in Seq(S) /\ s \o t \in Seq(S)
    BY ConcatProperties
  <1>2. Append(t, x) = t \o e /\ Append(s \o t, x) = (s \o t) \o e
    BY <1>1, AppendIsConcat
  <1>3. Append(t, x) \in Seq(S)
    BY AppendProperties
  <1> HIDE DEF e
  <1>4. (s \o t) \o e = s \o (t \o e)
    BY <1>1, ConcatAssociative, SMTT(30)
  <1> QED
    BY <1>2, <1>3, <1>4

\* The first element of the second of two sequences moves to the first one.
LEMMA TakeFirst ==
    ASSUME NEW S, NEW s \in Seq(S), NEW t \in Seq(S), t # <<>>
    PROVE  /\ Head(t) \in S /\ Tail(t) \in Seq(S)
           /\ Append(s, Head(t)) \in Seq(S) /\ Append(s, Head(t)) # <<>>
           /\ Append(s, Head(t))[Len(Append(s, Head(t)))] = Head(t)
           /\ Append(s, Head(t)) \o Tail(t) = s \o t
  <1> DEFINE x == Head(t)
             r == Tail(t)
             e == <<x>>
  <1>1. x \in S /\ r \in Seq(S)
    BY HeadTailProperties
  <1>2. e \o r = t
    <2>1. Len(e) = 1 /\ e[1] = t[1] /\ e \in Seq(S)
      BY <1>1
    <2>2. /\ e \o r \in Seq(S) /\ Len(e \o r) = Len(t)
          /\ \A i \in 1..Len(t) : (e \o r)[i] = t[i]
      BY <1>1, <2>1
    <2> QED
      BY <2>2, SeqEqual
  <1> HIDE DEF x, r
  <1>3. /\ Append(s, x) \in Seq(S) /\ Append(s, x) # <<>>
        /\ Append(s, x)[Len(Append(s, x))] = x
    BY <1>1, SMTT(30)
  <1>4. Append(s, x) = s \o e
    BY <1>1, AppendIsConcat
  <1>5. e \in Seq(S)
    BY <1>1
  <1> HIDE DEF e
  <1>6. (s \o e) \o r = s \o (e \o r)
    BY <1>1, <1>5, ConcatAssociative
  <1> QED
    BY <1>1, <1>2, <1>3, <1>4, <1>6 DEF x, r

\* The state of a receive, and datagrams by their numbers.
Results == [mode : {"none", "blocking", "try", "spin"},
            state : {"receiving", "received", "not_ready", "stopped", "error"},
            error : {"none", "EAGAIN", "ECONNREFUSED"}]

Datagrams == 1..Sends

DatagramTypes ==
    /\ sent \in 0..Sends
    /\ queue \in Seq(Datagrams)
    /\ arrived \in Seq(Datagrams)
    /\ got \in Seq(Datagrams)
    /\ refused \in BOOLEAN
    /\ errno \in {"none", "EINTR", "EAGAIN", "ECONNREFUSED"}
    /\ receive \in Results

\* The inductive invariant: a call in progress carries no error yet, so an
\* asynchronous error it has taken is still to be reported.
DatagramInv ==
    /\ DatagramTypes
    /\ NothingSwallowed
    /\ ErrorsReportedOnce
    /\ ReceivingDatagram => receive.error = "none"
    /\ receive.state = "stopped" => receive.error = "none" /\ stop_requested = TRUE

\* A datagram that arrives goes to the end of the queue.
LEMMA SendKeeps ==
    ASSUME DatagramInv, SendDatagram
    PROVE  DatagramInv'
  <1>1. /\ UNCHANGED <<refused, errno, receive, stop_requested, got, unreported>>
        /\ sent < Sends /\ sent' = sent + 1
    BY DEF SendDatagram, receiveVars
  <1>2. /\ sent' \in Datagrams /\ sent' \in 0..Sends
        /\ queue \in Seq(Datagrams) /\ arrived \in Seq(Datagrams)
        /\ got \in Seq(Datagrams) /\ got \o queue = arrived
    BY <1>1, DatagramAssumption DEF DatagramInv, DatagramTypes, Datagrams,
                                    NothingSwallowed
  <1>3. /\ queue' \in Seq(Datagrams) /\ arrived' \in Seq(Datagrams)
        /\ got \o queue' = arrived'
    <2>1. CASE UNCHANGED <<queue, arrived>>
      BY <1>2, <2>1
    <2>2. CASE queue' = Append(queue, sent') /\ arrived' = Append(arrived, sent')
      <3> DEFINE x == sent'
      <3>1. x \in Datagrams /\ queue' = Append(queue, x)
            /\ arrived' = Append(arrived, x)
        BY <1>2, <2>2
      <3> HIDE DEF x
      <3>2. /\ Append(queue, x) \in Seq(Datagrams)
            /\ Append(arrived, x) \in Seq(Datagrams)
            /\ got \o Append(queue, x) = Append(got \o queue, x)
        BY <1>2, <3>1, AppendBehind, SMTT(30)
      <3> QED
        BY <1>2, <3>1, <3>2
    <2> QED
      BY <2>1, <2>2 DEF SendDatagram
  <1>4. DatagramTypes'
    BY <1>1, <1>2, <1>3 DEF DatagramInv, DatagramTypes
  <1>5. NothingSwallowed' /\ ErrorsReportedOnce'
    BY <1>1, <1>3 DEF DatagramInv, NothingSwallowed, ErrorsReportedOnce, Taken,
                      ReceivingDatagram
  <1> QED
    BY <1>1, <1>4, <1>5 DEF DatagramInv, ReceivingDatagram

\* A send of the socket's own thread, and the peer's refusal, move asynchronous
\* errors only.
LEMMA RefusalKeeps ==
    ASSUME DatagramInv, SendFromHere \/ PeerRefuses
    PROVE  DatagramInv'
  <1>1. UNCHANGED <<sent, queue, errno, receive, stop_requested, arrived, got>>
    BY DEF SendFromHere, PeerRefuses, receiveVars, sendVars
  <1>2. refused' \in BOOLEAN /\ ErrorsReportedOnce'
    <2>1. ErrorsReportedOnce /\ (Taken' <=> Taken)
      BY <1>1 DEF DatagramInv, Taken, ReceivingDatagram
    <2>2. refused \in BOOLEAN
      BY DEF DatagramInv, DatagramTypes
    <2>3. \/ ~refused /\ refused' = TRUE /\ unreported' = unreported + 1
          \/ refused /\ refused' = FALSE /\ unreported' = unreported - 1
          \/ UNCHANGED <<refused, unreported>>
      BY DEF SendFromHere, PeerRefuses
    <2>4. CASE ~refused /\ refused' = TRUE /\ unreported' = unreported + 1
      <3>1. unreported = IF Taken THEN 1 ELSE 0
        BY <2>1, <2>4 DEF ErrorsReportedOnce
      <3>2. unreported' = 1 + (IF Taken' THEN 1 ELSE 0)
        BY <2>1, <2>4, <3>1
      <3> QED
        BY <2>4, <3>2 DEF ErrorsReportedOnce
    <2>5. CASE refused /\ refused' = FALSE /\ unreported' = unreported - 1
      <3>1. unreported = 1 + (IF Taken THEN 1 ELSE 0)
        BY <2>1, <2>5 DEF ErrorsReportedOnce
      <3>2. unreported' = IF Taken' THEN 1 ELSE 0
        BY <2>1, <2>5, <3>1
      <3>3. refused' \in BOOLEAN /\ ~refused'
        BY <2>5
      <3>4. unreported' = 0 + (IF Taken' THEN 1 ELSE 0)
        BY <3>2
      <3> QED
        BY <3>3, <3>4 DEF ErrorsReportedOnce
    <2>6. CASE UNCHANGED <<refused, unreported>>
      BY <2>1, <2>2, <2>6 DEF ErrorsReportedOnce
    <2> QED
      BY <2>3, <2>4, <2>5, <2>6
  <1> QED
    BY <1>1, <1>2 DEF DatagramInv, DatagramTypes, NothingSwallowed,
                      ReceivingDatagram

\* recvmsg moves the oldest datagram from the queue to the result.
LEMMA ReceiveKeeps ==
    ASSUME DatagramInv, ReceiveDatagram
    PROVE  DatagramInv'
  <1> DEFINE d == Head(queue)
  <1>1. /\ UNCHANGED <<sent, refused, errno, stop_requested, arrived, unreported>>
        /\ queue # <<>> /\ queue' = Tail(queue) /\ got' = Append(got, d)
        /\ receive' = [receive EXCEPT !.state = "received"]
        /\ receive.error = "none" /\ receive \in Results /\ errno = "none"
    BY DEF ReceiveDatagram, sendVars, DatagramInv, DatagramTypes
  <1>2. /\ queue \in Seq(Datagrams) /\ arrived \in Seq(Datagrams)
        /\ got \in Seq(Datagrams) /\ got \o queue = arrived
    BY DEF DatagramInv, DatagramTypes, NothingSwallowed
  <1>3. /\ queue' \in Seq(Datagrams) /\ got' \in Seq(Datagrams)
        /\ got' \o queue' = arrived
    <2>1. /\ Tail(queue) \in Seq(Datagrams)
          /\ Append(got, d) \in Seq(Datagrams)
          /\ Append(got, d) \o Tail(queue) = got \o queue
      <3>1. /\ queue \in Seq(Datagrams) /\ got \in Seq(Datagrams)
            /\ queue # <<>>
        BY <1>1, <1>2
      <3> QED
        BY <3>1, TakeFirst
    <2>2. queue' = Tail(queue) /\ got' = Append(got, d)
      BY <1>1
    <2> HIDE DEF d
    <2> QED
      BY <1>2, <2>1, <2>2
  <1> HIDE DEF d
  <1>4. /\ receive'.state = "received" /\ receive'.error = "none"
        /\ receive' \in Results
    BY <1>1 DEF Results
  <1>5. DatagramTypes'
    BY <1>1, <1>3, <1>4 DEF DatagramInv, DatagramTypes
  <1>6. NothingSwallowed'
    BY <1>1, <1>3 DEF NothingSwallowed
  <1>7. ErrorsReportedOnce'
    BY <1>1 DEF DatagramInv, ErrorsReportedOnce, Taken
  <1> QED
    BY <1>4, <1>5, <1>6, <1>7 DEF DatagramInv, ReceivingDatagram

\* recvmsg fails, and may take the asynchronous error from the socket.
LEMMA FailureKeeps ==
    ASSUME DatagramInv, RecvmsgFails
    PROVE  DatagramInv'
  <1>1. /\ UNCHANGED <<sent, queue, receive, stop_requested, arrived, got>>
        /\ unreported' = unreported /\ ReceivingDatagram /\ errno = "none"
        /\ \/ errno' \in {"EINTR", "EAGAIN"} /\ refused' = refused
           \/ refused /\ errno' = "ECONNREFUSED" /\ refused' = FALSE
    BY DEF RecvmsgFails, sendVars
  <1>2. ~Taken /\ ReceivingDatagram' /\ refused \in BOOLEAN
    BY <1>1 DEF Taken, ReceivingDatagram, DatagramInv, DatagramTypes
  <1>3. ErrorsReportedOnce'
    BY <1>1, <1>2 DEF DatagramInv, ErrorsReportedOnce, Taken
  <1> QED
    BY <1>1, <1>2, <1>3 DEF DatagramInv, DatagramTypes, NothingSwallowed

\* What a call does with an errno: it returns or goes on, takes no datagram, and
\* returns an asynchronous error whenever it has taken one.
LEMMA ReactKeeps ==
    ASSUME DatagramInv, React
    PROVE  DatagramInv'
  <1>1. /\ UNCHANGED <<sent, queue, refused, stop_requested, arrived, got>>
        /\ ReceivingDatagram
    BY DEF React, OnInterrupt, OnNotReady, OnError, ReturnResult, Again, sendVars
  <1>2. \/ /\ errno' = "none" /\ UNCHANGED <<receive, unreported>> /\ ~Taken
        \/ /\ UNCHANGED errno
           /\ \E s \in {"not_ready", "stopped", "error"},
                 e \in {"none", "EAGAIN", "ECONNREFUSED"} :
                /\ receive' = [receive EXCEPT !.state = s, !.error = e]
                /\ unreported' = IF e = "ECONNREFUSED" THEN unreported - 1
                                                       ELSE unreported
                /\ e = "ECONNREFUSED" <=> Taken
                /\ s = "stopped" => e = "none" /\ stop_requested = TRUE
    <2> USE DEF Taken, DatagramInv, DatagramTypes
    <2>1. CASE OnInterrupt
      BY <2>1 DEF OnInterrupt, ReturnResult, Again
    <2>2. CASE OnNotReady
      BY <2>2 DEF OnNotReady, ReturnResult, Again, DontWait, Results
    <2>3. CASE OnError
      BY <2>3 DEF OnError, ReturnResult
    <2> QED
      BY <2>1, <2>2, <2>3 DEF React
  <1>3. NothingSwallowed'
    BY <1>1 DEF DatagramInv, NothingSwallowed
  <1>4. CASE /\ errno' = "none" /\ UNCHANGED <<receive, unreported>> /\ ~Taken
    <2>1. ErrorsReportedOnce'
      BY <1>1, <1>4 DEF DatagramInv, ErrorsReportedOnce, Taken
    <2> QED
      BY <1>1, <1>3, <1>4, <2>1 DEF DatagramInv, DatagramTypes,
                                    ReceivingDatagram
  <1>5. ASSUME NEW s \in {"not_ready", "stopped", "error"},
               NEW e \in {"none", "EAGAIN", "ECONNREFUSED"},
               receive' = [receive EXCEPT !.state = s, !.error = e],
               unreported' = IF e = "ECONNREFUSED" THEN unreported - 1
                                                   ELSE unreported,
               e = "ECONNREFUSED" <=> Taken,
               s = "stopped" => e = "none" /\ stop_requested = TRUE, UNCHANGED errno
        PROVE  DatagramInv'
    <2>1. receive' \in Results /\ receive'.state = s /\ receive'.error = e
      BY <1>5 DEF DatagramInv, DatagramTypes, Results
    <2>2. ~Taken' /\ refused \in BOOLEAN /\ ErrorsReportedOnce
      BY <2>1 DEF Taken, ReceivingDatagram, DatagramInv, DatagramTypes
    <2>3. ErrorsReportedOnce'
      <3>1. CASE Taken
        BY <1>1, <1>5, <2>2, <3>1 DEF ErrorsReportedOnce
      <3>2. CASE ~Taken
        BY <1>1, <1>5, <2>2, <3>2 DEF ErrorsReportedOnce
      <3> QED
        BY <3>1, <3>2
    <2> QED
      BY <1>1, <1>3, <1>5, <2>1, <2>3 DEF DatagramInv, DatagramTypes,
                                          ReceivingDatagram
  <1> QED
    BY <1>2, <1>4, <1>5

\* The invariant of the datagram receives holds throughout.
THEOREM DatagramInvariance == DatagramSpec => []DatagramInv
  <1>1. DatagramInit => DatagramInv
    <2> SUFFICES ASSUME DatagramInit PROVE DatagramInv
      OBVIOUS
    <2>1. /\ queue = <<>> /\ arrived = <<>> /\ got = <<>> /\ sent = 0
          /\ errno = "none" /\ refused = FALSE /\ unreported = 0
      BY DEF DatagramInit
    <2>2. receive \in Results /\ receive.state = "not_ready"
      BY DEF DatagramInit, Results
    <2>3. DatagramTypes
      <3>1. /\ sent \in 0..Sends /\ queue \in Seq(Datagrams)
            /\ arrived \in Seq(Datagrams) /\ got \in Seq(Datagrams)
        BY <2>1, DatagramAssumption, EmptySeq
      <3>2. /\ refused \in BOOLEAN
            /\ errno \in {"none", "EINTR", "EAGAIN", "ECONNREFUSED"}
        BY <2>1
      <3> QED
        BY <2>2, <3>1, <3>2 DEF DatagramTypes
    <2>4. NothingSwallowed /\ ErrorsReportedOnce
      BY <2>1 DEF NothingSwallowed, ErrorsReportedOnce, Taken
    <2> QED
      BY <2>2, <2>3, <2>4 DEF DatagramInv, ReceivingDatagram
  <1>2. DatagramInv /\ [DatagramNext]_datagramVars => DatagramInv'
    <2> SUFFICES ASSUME DatagramInv, [DatagramNext]_datagramVars
                 PROVE  DatagramInv'
      OBVIOUS
    <2> USE DEF DatagramInv, DatagramTypes, NothingSwallowed, ErrorsReportedOnce,
                Taken, ReceivingDatagram
    <2>1. CASE UNCHANGED datagramVars
      BY <2>1 DEF datagramVars, sendVars, receiveVars
    <2>2. ASSUME NEW mode \in {"blocking", "try", "spin"}, StartReceive(mode)
          PROVE  DatagramInv'
      <3>1. /\ UNCHANGED <<sent, queue, refused, arrived, got, unreported>>
            /\ errno' = "none" /\ receive.state # "receiving"
            /\ receive' = [mode |-> mode, state |-> "receiving",
                           error |-> "none"]
        BY <2>2 DEF StartReceive, sendVars
      <3>2. /\ receive' \in Results /\ receive'.state = "receiving"
            /\ receive'.error = "none"
        BY <3>1 DEF Results
      <3> QED
        BY <3>1, <3>2
    <2>3. CASE DatagramStopRequested
      <3>1. /\ UNCHANGED <<sent, queue, refused, errno, receive, arrived, got,
                           unreported>>
            /\ stop_requested' = TRUE
        BY <2>3 DEF DatagramStopRequested, sendVars
      <3> QED
        BY <3>1
    <2> QED
      BY <2>1, <2>2, <2>3, SendKeeps, RefusalKeeps, ReceiveKeeps, FailureKeeps,
         ReactKeeps DEF DatagramNext, Recvmsg
  <1> QED
    BY <1>1, <1>2, PTL DEF DatagramSpec

\* No receive loses a datagram: what results have delivered and what is queued
\* is what arrived, each datagram once and in order.
THEOREM DatagramsAreDelivered == DatagramSpec => []NothingSwallowed
  <1>1. DatagramInv => NothingSwallowed
    BY DEF DatagramInv
  <1> QED
    BY <1>1, DatagramInvariance, PTL

\* An asynchronous error that recvmsg takes from the socket is returned by that
\* very call, in every mode and whatever stop is asked for, and by no other.
THEOREM AsynchronousErrorsAreReported == DatagramSpec => []ErrorsReportedOnce
  <1>1. DatagramInv => ErrorsReportedOnce
    BY DEF DatagramInv
  <1> QED
    BY <1>1, DatagramInvariance, PTL

\* EINTR never reaches a caller, and a stop is reported without an error and
\* only when it was asked for.
THEOREM InterruptionsAreHidden == DatagramSpec => []InterruptionsHidden
  <1>1. DatagramInv => InterruptionsHidden
    BY DEF DatagramInv, DatagramTypes, Results, InterruptionsHidden
  <1> QED
    BY <1>1, DatagramInvariance, PTL

------------------------------------------------------------------------------
(* Socket options.                                                         *)

USE OptionAssumption

------------------------------------------------------------------------------
(* The narrowing conversion.                                               *)

\* A quotient and a remainder in range are the quotient and the remainder.
LEMMA RemainderUnique ==
    ASSUME NEW d \in Nat \ {0}, NEW q \in Int, NEW r \in 0..(d - 1)
    PROVE  (q * d + r) % d = r
OBVIOUS

\* static_cast<int> always yields an int.
LEMMA CastIntType ==
    ASSUME NEW v \in Int
    PROVE  CastInt(v) \in Ints
<1>1. (v + IntLimit) % (2 * IntLimit) \in 0..(2 * IntLimit - 1)
  OBVIOUS
<1> QED
  BY <1>1 DEF CastInt, Ints, INT_MAX

\* static_cast<int> keeps the values that an int holds.
LEMMA CastIntExact ==
    ASSUME NEW v \in 0..INT_MAX
    PROVE  CastInt(v) = v
<1>1. /\ 2 * IntLimit \in Nat \ {0}
      /\ v + IntLimit \in 0..(2 * IntLimit - 1)
  BY DEF INT_MAX
<1>2. (0 * (2 * IntLimit) + (v + IntLimit)) % (2 * IntLimit) = v + IntLimit
  BY <1>1, RemainderUnique
<1>3. 0 * (2 * IntLimit) + (v + IntLimit) = v + IntLimit
  BY <1>1
<1> QED
  BY <1>2, <1>3 DEF CastInt, INT_MAX

------------------------------------------------------------------------------
(* The inductive invariant.                                                *)

\* What a caller in the middle of a helper relies on.
InProgress(c) ==
    call[c].pc # "ready" =>
        /\ call[c].result.error = "none"
        /\ call[c].pc = "set" => call[c].value = call[c].requested
        /\ call[c].readback =>
              /\ call[c].option \in {"TCP_NODELAY", "SO_BUSY_POLL"}
              /\ call[c].requested >= 0
              /\ call[c].pc = "get" /\ Observed(c) # call[c].requested
                    => deviated[c]

\* TypeOK is not strong enough for the properties that relate a result to the
\* request: a helper in progress has to remember it truthfully.
IInv ==
    /\ TypeOK
    /\ \A c \in Callers : InProgress(c)
    /\ ErrorsAreReal
    /\ BudgetsAreDurations

\* Every socket and every caller starts in the invariant.
LEMMA InitIInv == Init => IInv
<1> SUFFICES ASSUME Init PROVE IInv
  OBVIOUS
<1>1. 0 \in Ints /\ Ready \in CallType
  BY DEF Ints, INT_MAX, Ready, CallType, SuccessVoid, Options
<1>2. TypeOK
  BY <1>1 DEF Init, TypeOK, Ready, SuccessVoid
<1>3. \A c \in Callers : call[c] = Ready
  BY DEF Init
<1> QED
  BY <1>2, <1>3 DEF IInv, InProgress, ErrorsAreReal, BudgetsAreDurations, Ready,
                    SuccessVoid

------------------------------------------------------------------------------
(* Every step keeps it.                                                    *)

\* What a step that only moves caller c, and leaves what is stored alone, has
\* to show: the invariant's parts for c itself.
LEMMA OneCallerMoves ==
    ASSUME IInv, NEW c \in Callers, NEW r \in CallType, NEW b \in BOOLEAN,
           call' = [call EXCEPT ![c] = r],
           deviated' = [deviated EXCEPT ![c] = b],
           UNCHANGED option,
           r.result.has_value <=> r.result.error = "none",
           InProgress(c)',
           r.readback /\ r.result.error = "protocol_error" => b,
           r.pc = "ready" /\ r.option = "SO_BUSY_POLL" /\ r.result.has_value
             => r.result.value >= 0
    PROVE  IInv'
<1>1. /\ call'[c] = r /\ deviated'[c] = b
      /\ \A d \in Callers \ {c} : call'[d] = call[d] /\ deviated'[d] = deviated[d]
  BY DEF IInv, TypeOK
<1>2. TypeOK'
  <2>1. call' \in [Callers -> CallType] /\ deviated' \in [Callers -> BOOLEAN]
    BY DEF IInv, TypeOK
  <2> QED
    BY <1>1, <2>1 DEF IInv, TypeOK
<1>3. \A d \in Callers : InProgress(d)'
  <2> SUFFICES ASSUME NEW d \in Callers, d # c PROVE InProgress(d)'
    OBVIOUS
  <2> QED
    BY <1>1 DEF IInv, InProgress, Observed
<1>4. ErrorsAreReal'
  BY <1>1 DEF IInv, ErrorsAreReal
<1>5. BudgetsAreDurations'
  BY <1>1 DEF IInv, BudgetsAreDurations
<1> QED
  BY <1>2, <1>3, <1>4, <1>5 DEF IInv

\* The start of a helper whose request, if it is read back, is one the option
\* can hold and whose argument is the request itself.
LEMMA EnterKeepsIInv ==
    ASSUME IInv, NEW c \in Callers, NEW pc \in {"set", "get"}, NEW o \in Options,
           NEW readback \in BOOLEAN, NEW requested \in Int, NEW value \in Ints,
           Enter(c, pc, o, readback, requested, value),
           pc = "set" => value = requested,
           readback => /\ pc = "set"
                       /\ o \in {"TCP_NODELAY", "SO_BUSY_POLL"}
                       /\ requested >= 0
    PROVE  IInv'
<1> DEFINE r == [pc |-> pc, option |-> o, readback |-> readback,
                 requested |-> requested, value |-> value, result |-> SuccessVoid]
<1>1. r \in CallType
  BY DEF CallType, SuccessVoid, Ints, INT_MAX
<1>2. /\ call' = [call EXCEPT ![c] = r]
      /\ deviated' = [deviated EXCEPT ![c] = FALSE]
      /\ UNCHANGED option
  BY DEF Enter
<1>3. call'[c] = r
  BY <1>2 DEF IInv, TypeOK
<1>4. InProgress(c)'
  BY <1>3 DEF InProgress, SuccessVoid
<1>5. /\ r.result.has_value <=> r.result.error = "none"
      /\ ~(r.result.error = "protocol_error")
      /\ ~(r.pc = "ready")
  BY DEF SuccessVoid
<1> HIDE DEF r
<1> QED
  BY <1>1, <1>2, <1>4, <1>5, OneCallerMoves

\* The end of a helper: the socket is left alone and the result is a real one.
LEMMA FinishKeepsIInv ==
    ASSUME IInv, NEW c \in Callers, NEW b \in BOOLEAN,
           NEW result \in [has_value : BOOLEAN, value : Ints,
                           error : {"none", "errno", "protocol_error",
                                    "invalid_argument"}],
           Finish(c, result),
           deviated' = [deviated EXCEPT ![c] = b],
           UNCHANGED option,
           result.has_value <=> result.error = "none",
           call[c].readback /\ result.error = "protocol_error" => b,
           call[c].option = "SO_BUSY_POLL" /\ result.has_value
             => result.value >= 0
    PROVE  IInv'
<1> DEFINE r == [call[c] EXCEPT !.pc = "ready", !.result = result]
<1>1. call[c] \in CallType
  BY DEF IInv, TypeOK
<1>2. /\ r \in CallType /\ r.pc = "ready" /\ r.result = result
      /\ r.readback = call[c].readback /\ r.option = call[c].option
  BY <1>1 DEF CallType
<1>3. call' = [call EXCEPT ![c] = r]
  BY DEF Finish, IInv, TypeOK
<1>4. call'[c] = r
  BY <1>3 DEF IInv, TypeOK
<1>5. InProgress(c)'
  BY <1>2, <1>4 DEF InProgress
<1> HIDE DEF r
<1> QED
  BY <1>2, <1>3, <1>5, OneCallerMoves

\* setsockopt reaches everybody who is about to read the same option back.
LEMMA SetOptionKeepsIInv ==
    ASSUME IInv, NEW c \in Callers, SetOption(c)
    PROVE  IInv'
<1> DEFINE o == call[c].option
           r == IF call[c].readback
                  THEN [call[c] EXCEPT !.pc = "get"]
                  ELSE [call[c] EXCEPT !.pc = "ready", !.result = SuccessVoid]
<1>1. PICK kept \in {call[c].value} \cup Adjusted :
        /\ option' = [option EXCEPT ![o] = kept]
        /\ deviated' = [d \in Callers |->
                IF d = c \/ (call[d].option = o /\ call[d].pc = "get")
                  THEN Reading(o, kept) # call[d].requested
                  ELSE deviated[d]]
  BY DEF SetOption
<1>2. \A d \in Callers : call[d] \in CallType
  BY DEF IInv, TypeOK
<1>3. /\ kept \in Ints /\ o \in Options
      /\ call[c].pc = "set" /\ call[c].result.error = "none"
  BY <1>2 DEF CallType, SetOption, IInv, InProgress
<1>4. call' = [call EXCEPT ![c] = r]
  <2>1. CASE call[c].readback
    BY <2>1 DEF SetOption, IInv, TypeOK
  <2>2. CASE ~call[c].readback
    BY <2>2 DEF SetOption, IInv, TypeOK
  <2> QED
    BY <2>1, <2>2
<1>5. /\ r \in CallType
      /\ r.pc = (IF call[c].readback THEN "get" ELSE "ready")
      /\ r.option = o /\ r.readback = call[c].readback
      /\ r.requested = call[c].requested
      /\ r.result.has_value <=> r.result.error = "none"
      /\ r.result.error = "none"
      /\ ~call[c].readback => r.result = SuccessVoid
  <2>1. SuccessVoid \in [has_value : BOOLEAN, value : Ints,
                error : {"none", "errno", "protocol_error", "invalid_argument"}]
    BY DEF SuccessVoid, Ints, INT_MAX
  <2>2. call[c].result.has_value <=> call[c].result.error = "none"
    BY DEF IInv, TypeOK
  <2>3. CASE call[c].readback
    BY <1>2, <1>3, <2>2, <2>3 DEF CallType
  <2>4. CASE ~call[c].readback
    BY <1>2, <2>1, <2>4 DEF CallType, SuccessVoid
  <2> QED
    BY <2>3, <2>4
<1>6. /\ call'[c] = r
      /\ \A d \in Callers \ {c} : call'[d] = call[d]
  BY <1>4 DEF IInv, TypeOK
<1>7. /\ option'[o] = kept
      /\ \A p \in Options \ {o} : option'[p] = option[p]
  BY <1>1, <1>3 DEF IInv, TypeOK
<1> HIDE DEF r
<1>8. TypeOK'
  <2>1. option' \in [Options -> Ints]
    BY <1>1, <1>3 DEF IInv, TypeOK
  <2>2. call' \in [Callers -> CallType]
    BY <1>4, <1>5 DEF IInv, TypeOK
  <2>3. deviated' \in [Callers -> BOOLEAN]
    BY <1>1 DEF IInv, TypeOK
  <2> QED
    BY <1>5, <1>6, <2>1, <2>2, <2>3 DEF IInv, TypeOK
<1>9. ASSUME NEW d \in Callers PROVE InProgress(d)'
  <2>1. CASE d = c
    <3>1. call[c].readback => Observed(c)' = Reading(o, kept)
      BY <1>5, <1>6, <1>7 DEF Observed
    <3> QED
      BY <1>1, <1>3, <1>5, <1>6, <2>1, <3>1 DEF IInv, InProgress
  <2>2. CASE d # c /\ call[d].option = o
    <3>1. Observed(d)' = Reading(o, kept)
      BY <1>6, <1>7, <2>2 DEF Observed
    <3> QED
      BY <1>1, <1>6, <2>2, <3>1 DEF IInv, InProgress
  <2>3. CASE d # c /\ call[d].option # o
    <3>1. call[d].option \in Options
      BY <1>2 DEF CallType
    <3>2. Observed(d)' = Observed(d) /\ deviated'[d] = deviated[d]
      BY <1>1, <1>6, <1>7, <2>3, <3>1 DEF Observed
    <3> QED
      BY <1>6, <2>3, <3>2 DEF IInv, InProgress
  <2> QED
    BY <2>1, <2>2, <2>3
<1>10. ErrorsAreReal'
  <2> SUFFICES ASSUME NEW d \in Callers, d # c,
                      call[d].readback, call[d].result.error = "protocol_error"
               PROVE  deviated'[d]
    BY <1>5, <1>6 DEF ErrorsAreReal
  <2>1. call[d].pc = "ready"
    BY DEF IInv, InProgress
  <2> QED
    BY <1>1, <2>1 DEF IInv, ErrorsAreReal
<1>11. BudgetsAreDurations'
  <2>1. r.pc = "ready" => r.result.value >= 0
    BY <1>5 DEF SuccessVoid
  <2> QED
    BY <1>6, <2>1 DEF IInv, BudgetsAreDurations
<1> QED
  BY <1>8, <1>9, <1>10, <1>11 DEF IInv

\* One step of any caller or of the kernel keeps the invariant.
LEMMA NextIInv == IInv /\ [Next]_vars => IInv'
<1> SUFFICES ASSUME IInv, [Next]_vars PROVE IInv'
  OBVIOUS
<1>1. /\ \A d \in Callers : call[d] \in CallType /\ deviated[d] \in BOOLEAN
      /\ \A d \in Callers : deviated = [deviated EXCEPT ![d] = deviated[d]]
      /\ 0 \in Ints /\ 1 \in Ints /\ 0 \in Int /\ 1 \in Int
      /\ {"TCP_NODELAY", "SO_BUSY_POLL", "TCP_QUICKACK"} = Options
  BY DEF IInv, TypeOK, Ints, INT_MAX, Options
<1>2. ASSUME NEW c \in Callers, NEW o \in {"TCP_NODELAY", "SO_BUSY_POLL"},
             Observe(c, o)
      PROVE  IInv'
  BY <1>1, <1>2, EnterKeepsIInv DEF Observe
<1>3. ASSUME NEW c \in Callers, NEW enabled \in 0..1,
             ConfigureTcpNoDelay(c, enabled)
      PROVE  IInv'
  <2>1. enabled \in Ints /\ enabled \in Int /\ enabled >= 0
    BY DEF Ints, INT_MAX
  <2> QED
    BY <1>1, <1>3, <2>1, EnterKeepsIInv DEF ConfigureTcpNoDelay
<1>4. ASSUME NEW c \in Callers, RearmTcpQuickAck(c)
      PROVE  IInv'
  BY <1>1, <1>4, EnterKeepsIInv DEF RearmTcpQuickAck
<1>5. ASSUME NEW c \in Callers, NEW requested \in Budgets,
             ConfigureBusyPollBudget(c, requested)
      PROVE  IInv'
  <2>1. requested \in 0..INT_MAX
    BY <1>5 DEF ConfigureBusyPollBudget, OutOfRange, INT_MAX
  <2>2. CastInt(requested) = requested
    BY <2>1, CastIntExact
  <2>3. requested \in Int /\ requested \in Ints /\ requested >= 0
    BY <2>1 DEF Ints, INT_MAX
  <2>4. Enter(c, "set", "SO_BUSY_POLL", TRUE, requested, requested)
    BY <1>5, <2>2 DEF ConfigureBusyPollBudget
  <2> QED
    BY <1>1, <2>3, <2>4, EnterKeepsIInv
<1>6. ASSUME NEW c \in Callers, NEW requested \in Budgets,
             RejectBusyPollBudget(c, requested)
      PROVE  IInv'
  <2> DEFINE r == [call[c] EXCEPT !.option = "SO_BUSY_POLL", !.readback = TRUE,
                     !.requested = requested,
                     !.result = Failure("invalid_argument")]
  <2>1. call' = [call EXCEPT ![c] = r] /\ call[c].pc = "ready"
    BY <1>6 DEF RejectBusyPollBudget
  <2>2. Failure("invalid_argument") \in [has_value : BOOLEAN, value : Ints,
          error : {"none", "errno", "protocol_error", "invalid_argument"}]
    BY <1>1 DEF Failure
  <2>3. /\ r \in CallType /\ r.pc = "ready"
        /\ r.result = Failure("invalid_argument")
    <3>1. call[c] \in CallType /\ "SO_BUSY_POLL" \in Options /\ requested \in Int
      BY <1>1
    <3> HIDE OptionAssumption
    <3> QED
      BY <2>1, <2>2, <3>1 DEF CallType
  <2>4. call'[c] = r
    BY <2>1 DEF IInv, TypeOK
  <2>5. InProgress(c)'
    BY <2>3, <2>4 DEF InProgress
  <2>6. /\ r.result.error = "invalid_argument" /\ r.result.has_value = FALSE
        /\ deviated' = [deviated EXCEPT ![c] = FALSE]
        /\ UNCHANGED option
    BY <1>6, <2>3 DEF RejectBusyPollBudget, Failure
  <2> HIDE DEF r
  <2> QED
    BY <2>1, <2>3, <2>5, <2>6, OneCallerMoves
<1>7. ASSUME NEW c \in Callers, SetOption(c)
      PROVE  IInv'
  BY <1>7, SetOptionKeepsIInv
<1>8. ASSUME NEW c \in Callers, SystemCallFails(c)
      PROVE  IInv'
  <2>1. /\ Failure("errno") \in [has_value : BOOLEAN, value : Ints,
          error : {"none", "errno", "protocol_error", "invalid_argument"}]
        /\ Failure("errno").has_value = FALSE
        /\ Failure("errno").error = "errno"
    BY <1>1 DEF Failure
  <2>2. /\ Finish(c, Failure("errno"))
        /\ deviated' = [deviated EXCEPT ![c] = deviated[c]]
        /\ UNCHANGED option
    BY <1>1, <1>8 DEF SystemCallFails
  <2> QED
    BY <1>1, <2>1, <2>2, FinishKeepsIInv
<1>9. ASSUME NEW c \in Callers, ShortAnswer(c)
      PROVE  IInv'
  <2>1. /\ Failure("protocol_error") \in [has_value : BOOLEAN, value : Ints,
          error : {"none", "errno", "protocol_error", "invalid_argument"}]
        /\ Failure("protocol_error").has_value = FALSE
        /\ Failure("protocol_error").error = "protocol_error"
    BY <1>1 DEF Failure
  <2> QED
    BY <1>9, <2>1, FinishKeepsIInv DEF ShortAnswer
<1>10. ASSUME NEW c \in Callers, GetOption(c)
       PROVE  IInv'
  <2> DEFINE result == IF NegativeBudget(c) \/ Differs(c)
                         THEN Failure("protocol_error") ELSE Success(Observed(c))
  <2>1. Observed(c) \in Ints
    <3>1. option[call[c].option] \in Ints
      BY <1>1 DEF IInv, TypeOK, CallType
    <3> QED
      BY <1>1, <3>1 DEF Observed, Reading
  <2>2. /\ result \in [has_value : BOOLEAN, value : Ints,
             error : {"none", "errno", "protocol_error", "invalid_argument"}]
        /\ result.has_value <=> result.error = "none"
        /\ result.has_value => result.value = Observed(c) /\ ~NegativeBudget(c)
        /\ ~result.has_value => NegativeBudget(c) \/ Differs(c)
    BY <1>1, <2>1 DEF Success, Failure
  <2>3. call[c].option = "SO_BUSY_POLL" /\ result.has_value => result.value >= 0
    BY <2>1, <2>2 DEF NegativeBudget, Ints, INT_MAX
  <2>4. call[c].readback /\ ~result.has_value => deviated[c]
    <3>1. call[c].pc = "get"
      BY <1>10 DEF GetOption
    <3>2. /\ call[c].readback => call[c].requested >= 0
          /\ call[c].requested \in Int
      BY <1>1, <3>1 DEF IInv, InProgress, CallType
    <3>3. call[c].readback /\ ~result.has_value => Observed(c) # call[c].requested
      BY <2>1, <2>2, <3>2 DEF NegativeBudget, Differs, Ints, INT_MAX
    <3> QED
      BY <3>1, <3>3 DEF IInv, InProgress
  <2>5. /\ Finish(c, result)
        /\ deviated' = [deviated EXCEPT ![c] = deviated[c]]
        /\ UNCHANGED option
    BY <1>1, <1>10 DEF GetOption
  <2>6. call[c].readback /\ result.error = "protocol_error" => deviated[c]
    BY <2>2, <2>4
  <2> HIDE DEF result
  <2> QED
    BY <1>1, <2>2, <2>3, <2>5, <2>6, FinishKeepsIInv
<1>11. ASSUME QuickAckWearsOff
       PROVE  IInv'
  <2>1. option' \in [Options -> Ints]
    BY <1>1, <1>11 DEF QuickAckWearsOff, IInv, TypeOK
  <2>2. TypeOK' /\ ErrorsAreReal' /\ BudgetsAreDurations'
    BY <1>11, <2>1
       DEF QuickAckWearsOff, IInv, TypeOK, ErrorsAreReal, BudgetsAreDurations
  <2>3. ASSUME NEW c \in Callers PROVE InProgress(c)'
    <3>1. call[c].option # "TCP_QUICKACK" => Observed(c)' = Observed(c)
      BY <1>1, <1>11 DEF QuickAckWearsOff, Observed, IInv, TypeOK, CallType
    <3> QED
      BY <1>11, <3>1 DEF QuickAckWearsOff, IInv, InProgress
  <2> QED
    BY <2>2, <2>3 DEF IInv
<1>12. CASE UNCHANGED vars
  BY <1>12 DEF vars, IInv, TypeOK, InProgress, Observed, ErrorsAreReal,
               BudgetsAreDurations
<1> QED
  BY <1>2, <1>3, <1>4, <1>5, <1>6, <1>7, <1>8, <1>9, <1>10, <1>11, <1>12 DEF Next

\* The invariant holds always.
LEMMA Invariance == Spec => []IInv
  BY InitIInv, NextIInv, PTL DEF Spec

------------------------------------------------------------------------------
(* The theorems.                                                           *)

\* Options, arguments and results always fit an int, and a result has a value
\* or an error, for every width of an int.
THEOREM TypeCorrect == Spec => []TypeOK
<1>1. IInv => TypeOK
  BY DEF IInv
<1> QED
  BY <1>1, Invariance, PTL

\* The argument of setsockopt is what was requested: the range check before
\* the static_cast is as tight as it has to be.
THEOREM NarrowingKeepsTheRequest == Spec => []NarrowingIsExact
<1>1. IInv => NarrowingIsExact
  BY DEF IInv, InProgress, NarrowingIsExact
<1> QED
  BY <1>1, Invariance, PTL

\* configure_tcp_no_delay and configure_busy_poll_budget report protocol_error
\* only when the socket was made to differ from their request.
THEOREM ProtocolErrorsAreReal == Spec => []ErrorsAreReal
<1>1. IInv => ErrorsAreReal
  BY DEF IInv
<1> QED
  BY <1>1, Invariance, PTL

\* Neither busy_poll_budget nor its configure helper ever returns a negative
\* number of microseconds.
THEOREM BudgetsAreNeverNegative == Spec => []BudgetsAreDurations
<1>1. IInv => BudgetsAreDurations
  BY DEF IInv
<1> QED
  BY <1>1, Invariance, PTL

\* Caller c has stored option o in its apply and not been told of an error.
Engaged(c, o) ==
    /\ call[c].readback /\ call[c].option = o
    /\ \/ call[c].pc = "get"
       \/ call[c].pc = "ready" /\ call[c].result.has_value

\* Its readback is still to come, or would agree now.
Vouches(c, o) == \/ call[c].pc = "get"
                 \/ Reading(o, option[o]) = call[c].requested

\* The inductive form of RacingAppliesAgree, which must speak of callers between
\* their two system calls: whoever of them has moved last vouches.
AppliesInv ==
    \A o \in {"TCP_NODELAY", "SO_BUSY_POLL"} :
        (\A c \in Callers : Engaged(c, o)) => \E c \in Callers : Vouches(c, o)

\* A caller that is engaged after its own step vouches then: the step was its
\* setsockopt, or a getsockopt that has found what was requested.
LEMMA MoverVouches ==
    ASSUME IInv, NEW c \in Callers,
           \/ \E o \in {"TCP_NODELAY", "SO_BUSY_POLL"} : Observe(c, o)
           \/ \E enabled \in 0..1 : ConfigureTcpNoDelay(c, enabled)
           \/ RearmTcpQuickAck(c)
           \/ \E requested \in Budgets :
                 \/ ConfigureBusyPollBudget(c, requested)
                 \/ RejectBusyPollBudget(c, requested)
           \/ SetOption(c) \/ SystemCallFails(c)
           \/ ShortAnswer(c) \/ GetOption(c),
           NEW o \in {"TCP_NODELAY", "SO_BUSY_POLL"}, Engaged(c, o)'
    PROVE  Vouches(c, o)'
<1>1. call \in [Callers -> CallType] /\ call[c] \in CallType
  BY DEF IInv, TypeOK
<1>2. ASSUME NEW pc \in {"set", "get"}, NEW p, NEW readback \in BOOLEAN,
             NEW requested, NEW value,
             Enter(c, pc, p, readback, requested, value), readback => pc = "set"
      PROVE  FALSE
  BY <1>1, <1>2 DEF Enter, Engaged
<1>3. ASSUME NEW requested \in Budgets, RejectBusyPollBudget(c, requested)
      PROVE  FALSE
  <2>1. /\ call[c].pc = "ready"
        /\ call'[c] = [call[c] EXCEPT !.option = "SO_BUSY_POLL", !.readback = TRUE,
                         !.requested = requested,
                         !.result = Failure("invalid_argument")]
    BY <1>1, <1>3 DEF RejectBusyPollBudget
  <2>2. call'[c].pc = "ready" /\ ~call'[c].result.has_value
    BY <1>1, <2>1 DEF CallType, Failure
  <2> QED
    BY <2>2 DEF Engaged
<1>4. ASSUME NEW result, Finish(c, result)
      PROVE  /\ call'[c].pc = "ready" /\ call'[c].result = result
             /\ call'[c].readback = call[c].readback
             /\ call'[c].option = call[c].option
             /\ call'[c].requested = call[c].requested
  BY <1>1, <1>4 DEF Finish, CallType
<1>5. ASSUME SystemCallFails(c) \/ ShortAnswer(c)
      PROVE  FALSE
  <2>1. PICK error : Finish(c, Failure(error))
    BY <1>5 DEF SystemCallFails, ShortAnswer
  <2>2. call'[c].pc = "ready" /\ call'[c].result = Failure(error)
    BY <1>4, <2>1
  <2> QED
    BY <2>2 DEF Engaged, Failure
<1>6. ASSUME SetOption(c)
      PROVE  Vouches(c, o)'
  <2>1. CASE call[c].readback
    <3>1. call'[c] = [call[c] EXCEPT !.pc = "get"]
      BY <1>1, <1>6, <2>1 DEF SetOption
    <3> QED
      BY <1>1, <3>1 DEF Vouches, CallType
  <2>2. CASE ~call[c].readback
    <3>1. call'[c] = [call[c] EXCEPT !.pc = "ready", !.result = SuccessVoid]
      BY <1>1, <1>6, <2>2 DEF SetOption
    <3> QED
      BY <1>1, <2>2, <3>1 DEF Engaged, CallType
  <2> QED
    BY <2>1, <2>2
<1>7. ASSUME GetOption(c)
      PROVE  Vouches(c, o)'
  <2> DEFINE result == IF NegativeBudget(c) \/ Differs(c)
                         THEN Failure("protocol_error") ELSE Success(Observed(c))
  <2>1. Finish(c, result) /\ option' = option
    BY <1>7 DEF GetOption
  <2>2. Differs(c) => ~result.has_value
    BY DEF Failure
  <2> HIDE DEF result
  <2>3. /\ call'[c].pc = "ready" /\ call'[c].result = result
        /\ call'[c].readback = call[c].readback
        /\ call'[c].option = call[c].option
        /\ call'[c].requested = call[c].requested
    BY <1>4, <2>1
  <2>4. ~Differs(c) /\ call[c].readback /\ call[c].option = o
    BY <2>2, <2>3 DEF Engaged
  <2> QED
    BY <2>1, <2>3, <2>4 DEF Differs, Observed, Vouches
<1> QED
  BY <1>2, <1>3, <1>5, <1>6, <1>7
     DEF Observe, ConfigureTcpNoDelay, RearmTcpQuickAck, ConfigureBusyPollBudget

\* When all callers of configure_tcp_no_delay or of configure_busy_poll_budget
\* have been told success, the socket holds what one of them has requested, for
\* any number of callers and any interleaving of their system calls.
THEOREM ApplierIsObeyed == Spec => []RacingAppliesAgree
<1>1. Init => AppliesInv
  <2> SUFFICES ASSUME Init PROVE AppliesInv
    OBVIOUS
  <2>1. PICK c \in Callers : TRUE
    OBVIOUS
  <2>2. call[c] = Ready
    BY DEF Init
  <2> QED
    BY <2>1, <2>2 DEF AppliesInv, Engaged, Ready
<1>2. ASSUME IInv, AppliesInv, [Next]_vars PROVE AppliesInv'
  <2>1. CASE QuickAckWearsOff \/ UNCHANGED vars
    <3>1. /\ UNCHANGED call
          /\ \A o \in {"TCP_NODELAY", "SO_BUSY_POLL"} : option'[o] = option[o]
      BY <1>2, <2>1 DEF QuickAckWearsOff, vars, IInv, TypeOK, Options
    <3> QED
      BY <1>2, <3>1 DEF AppliesInv, Engaged, Vouches
  <2>2. CASE ~(QuickAckWearsOff \/ UNCHANGED vars)
    BY <1>2, <2>2, MoverVouches DEF AppliesInv, Next
  <2> QED
    BY <2>1, <2>2
<1>3. AppliesInv => RacingAppliesAgree
  BY DEF AppliesInv, RacingAppliesAgree, Applied, Engaged, Vouches
<1> QED
  BY <1>1, <1>2, <1>3, Invariance, PTL DEF Spec
==============================================================================
