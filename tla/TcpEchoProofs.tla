---------------------------- MODULE TcpEchoProofs ----------------------------
(***************************************************************************)
(* run_tcp: for any number and size of messages, any kernel buffer and any *)
(* way in which send and recv split the streams, the buffers are never     *)
(* overrun, and without a failing call nothing is thrown.                  *)
(***************************************************************************)
EXTENDS TcpEcho, SequenceTheorems, TLAPS

Ends == {"client", "server"}

------------------------------------------------------------------------------
(* The inductive invariant.                                                *)

\* s is what message n has from offset a to offset b.
IsPiece(s, n, a, b) ==
    /\ a <= b /\ Len(s) = b - a
    /\ \A i \in 1..(b - a) : s[i] = <<n, a + i>>

\* The first m bytes of the buffer are message n's.
Holds(buffer, n, m) == \A k \in 1..m : buffer[k] = <<n, k>>

\* What each thread has sent and received of its current exchange.
ClientSent == IF client.pc \in {"receive", "validate"} THEN PayloadBytes
                                                       ELSE client.moved
ClientGot  == IF client.pc = "validate" THEN PayloadBytes
              ELSE IF client.pc = "receive" THEN client.moved ELSE 0
ServerGot  == IF server.pc \in {"send", "count"} THEN PayloadBytes
                                                 ELSE server.moved
ServerSent == IF server.pc = "count" THEN PayloadBytes
              ELSE IF server.pc = "send" THEN server.moved ELSE 0

TcpTypes ==
    /\ TypeOK
    /\ wire \in [Ends -> Seq(Bytes)]
    /\ server.pc \in {"start", "receive", "send", "count", "catch", "ended"}
    /\ client.pc \in {"start", "send", "receive", "validate", "catch", "unwind",
                      "returned", "threw"}
    /\ messages = server.index
    /\ server.pc \in {"send", "count"} => server.index < Total
    /\ client.pc \in {"receive", "validate"} => client.index < Total

\* Nobody has left early.
AllIsWell ==
    /\ ~closed["client"] /\ (closed["server"] <=> server.pc = "ended")
    /\ server.pc = "ended" => server.index = Total
    /\ server.pc # "catch" /\ client.pc \notin {"catch", "unwind", "threw"}
    /\ server_state # -1
    /\ server.pc \notin {"send", "receive"} => server.moved = 0
    /\ client.pc \notin {"send", "receive"} => client.moved = 0
    /\ client.index = Total => client.moved = 0

\* Both threads are in the same exchange, one way after the other.
SameExchange ==
    /\ server.index = client.index
    /\ IsPiece(wire["client"], client.index, ServerGot, ClientSent)
    /\ IsPiece(wire["server"], client.index, ClientGot, ServerSent)

\* The server has counted the exchange and waits for the next.
ServerAhead ==
    /\ server.index = client.index + 1
    /\ server.pc \in {"receive", "ended"} /\ server.moved = 0
    /\ client.pc \in {"receive", "validate"}
    /\ wire["client"] = <<>>
    /\ IsPiece(wire["server"], client.index, ClientGot, PayloadBytes)

\* The client has validated the echo that the server has not counted yet.
ClientAhead ==
    /\ client.index = server.index + 1
    /\ server.pc = "count"
    /\ client.pc \in {"send", "receive"} /\ ClientGot = 0
    /\ wire["server"] = <<>>
    /\ IsPiece(wire["client"], client.index, 0, ClientSent)

Lockstep ==
    ~faulty =>
        /\ AllIsWell
        /\ Holds(server.buffer, server.index, ServerGot)
        /\ Holds(client.buffer, client.index, ClientGot)
        /\ SameExchange \/ ServerAhead \/ ClientAhead

TcpInv == TcpTypes /\ Lockstep

------------------------------------------------------------------------------
(* Pieces of a message, and the loops of send_all and receive_all.         *)

\* The sizes are numbers, and a message has at least one byte.
LEMMA Sizes ==
    /\ PayloadBytes \in Nat /\ PayloadBytes >= 1 /\ Buffer \in Nat
    /\ Total \in Nat
  BY TcpAssumption DEF Total

\* A message's own bytes, and the zeroed buffer.
LEMMA MessageBytes ==
    /\ \A n \in 0..(Total - 1) : /\ Message(n) \in [1..PayloadBytes -> Bytes]
                                 /\ Holds(Message(n), n, PayloadBytes)
    /\ Zeroed \in [1..PayloadBytes -> Bytes]
  BY Sizes DEF Message, Zeroed, Bytes, Holds

\* send appends the next bytes of the message.
LEMMA PieceGrows ==
    ASSUME NEW s \in Seq(Bytes), NEW m \in [1..PayloadBytes -> Bytes],
           NEW b \in 0..PayloadBytes, NEW k \in 1..(PayloadBytes - b)
    PROVE  LET r == s \o SubSeq(m, b + 1, b + k)
           IN  /\ r \in Seq(Bytes) /\ Len(r) = Len(s) + k
               /\ \A n, a \in Nat :
                     Holds(m, n, PayloadBytes) /\ IsPiece(s, n, a, b)
                       => IsPiece(r, n, a, b + k)
  <1> DEFINE t == SubSeq(m, b + 1, b + k)
             r == s \o t
  <1>1. b \in Int /\ k \in Int /\ k >= 1 /\ b >= 0 /\ b + k <= PayloadBytes
    BY Sizes
  <1>2. \A i \in (b + 1)..(b + k) : m[i] \in Bytes
    BY <1>1, Sizes
  <1>3. /\ t \in Seq(Bytes)
        /\ Len(t) = IF b + 1 <= b + k THEN (b + k) - (b + 1) + 1 ELSE 0
        /\ \A i \in 1..((b + k) - (b + 1) + 1) : t[i] = m[(b + 1) + i - 1]
    BY <1>1, <1>2, SubSeqProperties
  <1>4. Len(t) = k /\ \A i \in 1..k : t[i] = m[b + i]
    BY <1>1, <1>3
  <1> HIDE DEF t
  <1>5. /\ r \in Seq(Bytes) /\ Len(r) = Len(s) + Len(t)
        /\ \A i \in 1..(Len(s) + Len(t)) :
              r[i] = IF i <= Len(s) THEN s[i] ELSE t[i - Len(s)]
    BY <1>3, ConcatProperties
  <1> HIDE DEF r
  <1>6. ASSUME NEW n \in Nat, NEW a \in Nat,
               Holds(m, n, PayloadBytes), IsPiece(s, n, a, b)
        PROVE  IsPiece(r, n, a, b + k)
    <2>1. Len(s) = b - a /\ a <= b
      BY <1>6 DEF IsPiece
    <2>2. a <= b + k /\ Len(r) = (b + k) - a
      BY <1>1, <1>4, <1>5, <2>1
    <2>3. ASSUME NEW i \in 1..((b + k) - a)
          PROVE  r[i] = <<n, a + i>>
      <3>1. i \in 1..(Len(s) + Len(t))
        BY <1>1, <1>4, <2>1
      <3>2. CASE i <= b - a
        <4>1. i \in 1..(b - a)
          BY <1>1, <2>1, <3>2
        <4> QED
          BY <1>5, <1>6, <2>1, <3>1, <4>1 DEF IsPiece
      <3>3. CASE ~(i <= b - a)
        <4>1. /\ i - (b - a) \in 1..k /\ b + (i - (b - a)) = a + i
              /\ a + i \in 1..PayloadBytes
          BY <1>1, <2>1, <3>3, Sizes
        <4>2. r[i] = t[i - (b - a)]
          BY <1>5, <2>1, <3>1, <3>3
        <4>3. t[i - (b - a)] = m[a + i]
          BY <1>4, <4>1
        <4> QED
          BY <1>6, <4>1, <4>2, <4>3 DEF Holds
      <3> QED
        BY <3>2, <3>3
    <2> QED
      BY <2>2, <2>3 DEF IsPiece
  <1> QED
    BY <1>4, <1>5, <1>6 DEF r, t

\* recv takes the first k bytes away.
LEMMA PieceShrinks ==
    ASSUME NEW s \in Seq(Bytes), NEW k \in 1..Len(s)
    PROVE  LET r == SubSeq(s, k + 1, Len(s))
           IN  /\ r \in Seq(Bytes) /\ Len(r) = Len(s) - k
               /\ \A n, a, b \in Nat :
                     IsPiece(s, n, a, b) => IsPiece(r, n, a + k, b)
  <1> DEFINE l == Len(s)
             r == SubSeq(s, k + 1, l)
  <1>1. l \in Nat /\ k \in Nat /\ 1 <= k /\ k <= l
    OBVIOUS
  <1>2. \A i \in (k + 1)..l : s[i] \in Bytes
    BY <1>1
  <1>3. /\ r \in Seq(Bytes)
        /\ Len(r) = IF k + 1 <= l THEN l - (k + 1) + 1 ELSE 0
        /\ \A i \in 1..(l - (k + 1) + 1) : r[i] = s[(k + 1) + i - 1]
    BY <1>1, <1>2, SubSeqProperties
  <1>4. Len(r) = l - k /\ \A i \in 1..(l - k) : r[i] = s[k + i]
    BY <1>1, <1>3
  <1> HIDE DEF r, l
  <1>5. ASSUME NEW n \in Nat, NEW a \in Nat, NEW b \in Nat,
               IsPiece(s, n, a, b)
        PROVE  IsPiece(r, n, a + k, b)
    <2>1. l = b - a /\ a <= b
      BY <1>5 DEF IsPiece, l
    <2>2. a + k <= b /\ Len(r) = b - (a + k)
      BY <1>1, <1>4, <2>1
    <2>3. ASSUME NEW i \in 1..(b - (a + k))
          PROVE  r[i] = <<n, (a + k) + i>>
      <3>1. i \in 1..(l - k) /\ k + i \in 1..(b - a)
            /\ a + (k + i) = (a + k) + i
        BY <1>1, <2>1
      <3>2. r[i] = s[k + i] /\ s[k + i] = <<n, a + (k + i)>>
        BY <1>4, <1>5, <3>1 DEF IsPiece
      <3> QED
        BY <3>1, <3>2
    <2> QED
      BY <2>2, <2>3 DEF IsPiece
  <1> QED
    BY <1>3, <1>4, <1>5 DEF r, l

\* And stores them behind the ones the buffer already holds.
LEMMA StoreHolds ==
    ASSUME NEW s \in Seq(Bytes), NEW buffer \in [1..PayloadBytes -> Bytes],
           NEW a \in 0..PayloadBytes, NEW k \in 1..(PayloadBytes - a),
           k <= Len(s)
    PROVE  LET r == Store(buffer, a, SubSeq(s, 1, k))
           IN  /\ r \in [1..PayloadBytes -> Bytes]
               /\ \A n, b \in Nat :
                     Holds(buffer, n, a) /\ IsPiece(s, n, a, b)
                       => Holds(r, n, a + k)
  <1> DEFINE t == SubSeq(s, 1, k)
             r == Store(buffer, a, t)
  <1>1. /\ a \in Nat /\ k \in Nat /\ 1 <= k /\ a + k <= PayloadBytes
        /\ Len(s) \in Nat
    BY Sizes
  <1>2. \A i \in 1..k : s[i] \in Bytes
    BY <1>1
  <1>3. /\ t \in Seq(Bytes) /\ Len(t) = IF 1 <= k THEN k - 1 + 1 ELSE 0
        /\ \A i \in 1..(k - 1 + 1) : t[i] = s[1 + i - 1]
    BY <1>1, <1>2, SubSeqProperties
  <1>4. /\ DOMAIN t = 1..k
        /\ \A i \in 1..k : t[i] = s[i] /\ t[i] \in Bytes
    BY <1>1, <1>2, <1>3
  <1> HIDE DEF t
  <1>5. \A j \in 1..PayloadBytes :
          r[j] = IF j - a \in 1..k THEN t[j - a] ELSE buffer[j]
    BY <1>4 DEF Store
  <1>6. r \in [1..PayloadBytes -> Bytes]
    BY <1>4 DEF Store
  <1> HIDE DEF r
  <1>7. ASSUME NEW n \in Nat, NEW b \in Nat, Holds(buffer, n, a),
               IsPiece(s, n, a, b), NEW j \in 1..(a + k)
        PROVE  r[j] = <<n, j>>
    <2>1. j \in 1..PayloadBytes
      BY <1>1, Sizes
    <2>2. CASE j <= a
      <3>1. j \in 1..a /\ j - a \notin 1..k
        BY <1>1, <2>2
      <3> QED
        BY <1>5, <1>7, <2>1, <3>1 DEF Holds
    <2>3. CASE ~(j <= a)
      <3>1. j - a \in 1..k /\ a + (j - a) = j
        BY <1>1, <2>3
      <3>2. Len(s) = b - a
        BY <1>7 DEF IsPiece
      <3>3. j - a \in 1..(b - a)
        BY <1>1, <3>1, <3>2
      <3>4. s[j - a] = <<n, a + (j - a)>>
        BY <1>7, <3>3 DEF IsPiece
      <3> QED
        BY <1>4, <1>5, <2>1, <3>1, <3>4
    <2> QED
      BY <2>2, <2>3
  <1> QED
    BY <1>6, <1>7 DEF r, t, Holds

\* One call of either loop advances the thread.
LEMMA MovedIs ==
    ASSUME NEW t \in ThreadType, NEW k \in 1..(PayloadBytes - t.moved),
           NEW next \in {"send", "receive", "count", "validate"}
    PROVE  LET u == Moved(t, k, next)
           IN  /\ u \in ThreadType /\ u.index = t.index
               /\ u.buffer = t.buffer
               /\ \/ /\ t.moved + k = PayloadBytes
                     /\ u.pc = next /\ u.moved = 0
                  \/ /\ t.moved + k < PayloadBytes
                     /\ u.pc = t.pc /\ u.moved = t.moved + k
  <1>1. /\ t.moved \in 0..(PayloadBytes - 1) /\ t.moved + k <= PayloadBytes
        /\ t.moved + k \in Nat /\ 0 \in 0..(PayloadBytes - 1)
    BY Sizes DEF ThreadType
  <1>2. CASE t.moved + k = PayloadBytes
    BY <1>1, <1>2 DEF Moved, ThreadType
  <1>3. CASE t.moved + k # PayloadBytes
    <2>1. /\ t.moved + k < PayloadBytes
          /\ t.moved + k \in 0..(PayloadBytes - 1)
      BY <1>1, <1>3, Sizes
    <2> QED
      BY <1>1, <1>3, <2>1 DEF Moved, ThreadType
  <1> QED
    BY <1>2, <1>3

\* An empty piece has no bytes, and an empty stream is an empty piece.
LEMMA EmptyPiece ==
    ASSUME NEW s \in Seq(Bytes), NEW n, NEW a \in Nat
    PROVE  /\ IsPiece(s, n, a, a) => s = <<>>
           /\ s = <<>> => IsPiece(s, n, a, a)
  <1>1. Len(s) \in Nat /\ (s # <<>> => Len(s) # 0) /\ (s = <<>> => Len(s) = 0)
    BY EmptySeq
  <1>2. a - a = 0 /\ a <= a /\ 1..0 = {}
    OBVIOUS
  <1> QED
    BY <1>1, <1>2 DEF IsPiece

------------------------------------------------------------------------------
(* Steps that move no bytes.                                               *)

\* The types, unfolded.
LEMMA TcpFacts ==
    ASSUME TcpTypes
    PROVE  /\ server \in ThreadType /\ client \in ThreadType
           /\ server.index \in 0..Total /\ client.index \in 0..Total
           /\ server.moved \in 0..(PayloadBytes - 1)
           /\ client.moved \in 0..(PayloadBytes - 1)
           /\ server.buffer \in [1..PayloadBytes -> Bytes]
           /\ client.buffer \in [1..PayloadBytes -> Bytes]
           /\ wire \in [Ends -> Seq(Bytes)]
           /\ wire["client"] \in Seq(Bytes) /\ wire["server"] \in Seq(Bytes)
           /\ Len(wire["client"]) <= Buffer /\ Len(wire["server"]) <= Buffer
           /\ Len(wire["client"]) \in Nat /\ Len(wire["server"]) \in Nat
           /\ closed \in [Ends -> BOOLEAN] /\ server_state \in {-1, 0, 1}
           /\ messages \in 0..Total /\ faulty \in BOOLEAN
  <1>1. server \in ThreadType /\ client \in ThreadType
    BY DEF TcpTypes, TypeOK
  <1>2. wire["client"] \in Seq(Bytes) /\ wire["server"] \in Seq(Bytes)
    BY DEF TcpTypes, Ends
  <1>3. Len(wire["client"]) \in Nat /\ Len(wire["server"]) \in Nat
    BY <1>2
  <1>4. /\ server.index \in 0..Total /\ client.index \in 0..Total
        /\ server.moved \in 0..(PayloadBytes - 1)
        /\ client.moved \in 0..(PayloadBytes - 1)
        /\ server.buffer \in [1..PayloadBytes -> Bytes]
        /\ client.buffer \in [1..PayloadBytes -> Bytes]
    BY <1>1 DEF ThreadType
  <1> QED
    BY <1>1, <1>2, <1>3, <1>4 DEF TcpTypes, TypeOK, Ends

\* The server thread starts, returns, or leaves its exception handler.
LEMMA ServerMoves ==
    ASSUME TcpInv, ServerStart \/ ServerReturn \/ ServerCatch
    PROVE  TcpInv'
  <1>1. /\ UNCHANGED <<wire, client, messages, faulty>>
        /\ \E p \in {"receive", "ended"} : server' = [server EXCEPT !.pc = p]
        /\ server_state' \in {-1, 0, 1}
        /\ closed' \in [Ends -> BOOLEAN]
    BY TcpFacts
       DEF TcpInv, ServerStart, ServerReturn, ServerCatch, Ends
  <1>2. /\ server' \in ThreadType /\ server'.pc \in {"receive", "ended"}
        /\ server'.index = server.index /\ server'.moved = server.moved
        /\ server'.buffer = server.buffer
    BY <1>1, TcpFacts DEF TcpInv, ThreadType
  <1>3. TcpTypes'
    BY <1>1, <1>2 DEF TcpInv, TcpTypes, TypeOK, Ends
  <1>4. Lockstep'
    <2> SUFFICES ASSUME ~faulty
                 PROVE  Lockstep'
      BY <1>1 DEF Lockstep
    <2>1. AllIsWell /\ Lockstep
      BY DEF TcpInv, Lockstep
    <2>2. ServerStart \/ ServerReturn
      BY <2>1 DEF AllIsWell, ServerCatch
    <2>3. /\ server.pc \in {"start", "receive"}
          /\ server'.pc = "ended" => server.index = Total /\ server.pc = "receive"
          /\ server_state' # -1
          /\ ~closed'["client"] /\ (closed'["server"] <=> server'.pc = "ended")
      <3>1. CASE ServerStart
        BY <2>1, <3>1, TcpFacts DEF TcpInv, ServerStart, AllIsWell
      <3>2. CASE ServerReturn
        BY <2>1, <3>2, TcpFacts DEF TcpInv, ServerReturn, AllIsWell, Ends
      <3> QED
        BY <2>2, <3>1, <3>2
    <2>4. server'.pc = "ended" => server.moved = 0
      <3> SUFFICES ASSUME server'.pc = "ended"
                   PROVE  server.moved = 0
        OBVIOUS
      <3>1. SameExchange \/ ServerAhead
        BY <2>1, <2>3 DEF Lockstep, ClientAhead
      <3>2. CASE SameExchange
        <4>1. /\ client.index = Total /\ client.moved = 0
              /\ client.pc \notin {"receive", "validate"}
          BY <2>1, <2>3, <3>2, TcpFacts, Sizes
             DEF SameExchange, AllIsWell, TcpInv, TcpTypes
        <4>2. server.moved <= 0
          BY <2>3, <3>2, <4>1 DEF SameExchange, IsPiece, ServerGot, ClientSent
        <4> QED
          BY <4>2, TcpFacts, Sizes DEF TcpInv
      <3>3. CASE ServerAhead
        BY <3>3 DEF ServerAhead
      <3> QED
        BY <3>1, <3>2, <3>3
    <2>5. AllIsWell'
      BY <1>1, <1>2, <2>1, <2>3, <2>4 DEF AllIsWell
    <2>6. /\ ServerGot' = ServerGot /\ ServerSent' = ServerSent
          /\ ClientGot' = ClientGot /\ ClientSent' = ClientSent
      BY <1>1, <1>2, <2>3
         DEF ServerGot, ServerSent, ClientGot, ClientSent
    <2>7. SameExchange' \/ ServerAhead' \/ ClientAhead'
      BY <1>1, <1>2, <2>1, <2>3, <2>6
         DEF Lockstep, SameExchange, ServerAhead, ClientAhead
    <2> QED
      BY <1>1, <1>2, <2>1, <2>5, <2>6, <2>7 DEF Lockstep
  <1> QED
    BY <1>3, <1>4 DEF TcpInv

\* The client thread starts, joins the server, or unwinds; it is told of no
\* failure and finds all messages counted as long as nothing failed.
LEMMA ClientMoves ==
    ASSUME TcpInv, \/ ClientStart \/ ClientJoin \/ ClientCatch \/ ClientUnwind
                   \/ UNCHANGED vars
    PROVE  TcpInv'
  <1>1. /\ UNCHANGED <<wire, server, server_state, messages, faulty>>
        /\ closed' \in [Ends -> BOOLEAN]
        /\ \/ client' = client
           \/ \E p \in {"send", "unwind", "returned", "threw"} :
                 client' = [client EXCEPT !.pc = p]
    BY TcpFacts DEF TcpInv, ClientStart, ClientJoin, ClientCatch, ClientUnwind,
                    vars, Ends
  <1>2. /\ client' \in ThreadType
        /\ client' = client \/ client'.pc \in {"send", "unwind", "returned", "threw"}
        /\ client'.index = client.index /\ client'.moved = client.moved
        /\ client'.buffer = client.buffer
    BY <1>1, TcpFacts DEF TcpInv, ThreadType
  <1>3. TcpTypes'
    BY <1>1, <1>2 DEF TcpInv, TcpTypes, TypeOK, Ends
  <1>4. Lockstep'
    <2> SUFFICES ASSUME ~faulty
                 PROVE  Lockstep'
      BY <1>1 DEF Lockstep
    <2>1. AllIsWell /\ Lockstep
      BY DEF TcpInv, Lockstep
    <2>2. closed' = closed /\ (ClientStart \/ ClientJoin \/ UNCHANGED vars)
      BY <2>1 DEF AllIsWell, ClientStart, ClientJoin, ClientCatch, ClientUnwind,
                  vars
    <2>3. \/ client' = client
          \/ client.pc = "start" /\ client'.pc = "send"
          \/ client.pc = "send" /\ client'.pc = "returned" /\ server.pc = "ended"
             /\ client.index = Total
      <3>1. CASE ClientStart
        BY <2>1, <3>1, TcpFacts DEF ClientStart, AllIsWell, TcpInv, ThreadType
      <3>2. CASE ClientJoin
        <4>1. server.pc = "ended" /\ client.pc = "send" /\ client.index = Total
          BY <3>2 DEF ClientJoin
        <4>2. messages = Total /\ ~(server_state < 0)
          BY <2>1, <4>1, TcpFacts DEF AllIsWell, TcpInv, TcpTypes
        <4> QED
          BY <3>2, <4>1, <4>2, TcpFacts DEF ClientJoin, TcpInv, ThreadType
      <3>3. CASE UNCHANGED vars
        BY <3>3 DEF vars
      <3> QED
        BY <2>2, <3>1, <3>2, <3>3
    <2>4. AllIsWell'
      BY <1>1, <1>2, <2>1, <2>2, <2>3 DEF AllIsWell
    <2>5. /\ ServerGot' = ServerGot /\ ServerSent' = ServerSent
          /\ ClientGot' = ClientGot /\ ClientSent' = ClientSent
      BY <1>1, <1>2, <2>3 DEF ServerGot, ServerSent, ClientGot, ClientSent
    <2>6. SameExchange' \/ ServerAhead' \/ ClientAhead'
      BY <1>1, <1>2, <2>1, <2>3, <2>5
         DEF Lockstep, SameExchange, ServerAhead, ClientAhead
    <2> QED
      BY <1>1, <1>2, <2>1, <2>4, <2>5, <2>6 DEF Lockstep
  <1> QED
    BY <1>3, <1>4 DEF TcpInv

\* A thread throws because a call failed, and only then: as long as nothing
\* has failed neither thread finds the other gone.
LEMMA ThrowStep ==
    ASSUME TcpInv, \/ ServerPeerGone \/ ServerFault
                   \/ ClientPeerGone \/ ClientFault
    PROVE  TcpInv'
  <1>1. /\ UNCHANGED <<wire, server_state, messages>>
        /\ closed' \in [Ends -> BOOLEAN] /\ faulty' \in BOOLEAN
        /\ client' = client \/ client' = [client EXCEPT !.pc = "catch"]
        /\ server' = server \/ server' = [server EXCEPT !.pc = "catch"]
    BY TcpFacts DEF TcpInv, ServerPeerGone, ServerFault, ClientPeerGone,
         ClientFault, ServerThrows, ClientThrows, Ends
  <1>2. /\ client' \in ThreadType
        /\ client' = client \/ client'.pc = "catch"
        /\ client'.index = client.index
        /\ server' \in ThreadType
        /\ server' = server \/ server'.pc = "catch"
        /\ server'.index = server.index
    BY <1>1, TcpFacts DEF TcpInv, ThreadType
  <1>3. TcpTypes'
    BY <1>1, <1>2 DEF TcpInv, TcpTypes, TypeOK, Ends
  <1>4. ~faulty => ~ServerPeerGone
    BY DEF TcpInv, Lockstep, AllIsWell, ServerPeerGone, PeerClosed, Other
  <1>5. ~faulty => ~ClientPeerGone
    <2> SUFFICES ASSUME ~faulty, ClientPeerGone
                 PROVE  FALSE
      OBVIOUS
    <2>1. AllIsWell /\ (SameExchange \/ ServerAhead \/ ClientAhead)
      BY DEF TcpInv, Lockstep
    <2>2. closed["server"] /\ client.pc \in {"send", "receive"}
      BY DEF ClientPeerGone, PeerClosed, Other, Reset
    <2>3. server.pc = "ended" /\ server.index = Total
      BY <2>1, <2>2 DEF AllIsWell
    <2>4. client.index < Total
      BY DEF ClientPeerGone, TcpInv, TcpTypes
    <2>5. ServerAhead /\ client.pc = "receive"
      BY <2>1, <2>2, <2>3, <2>4, TcpFacts, Sizes
         DEF SameExchange, ServerAhead, ClientAhead, TcpInv
    <2>6. Len(wire["server"]) = PayloadBytes - client.moved
      BY <2>5 DEF ServerAhead, IsPiece, ClientGot
    <2>7. wire["server"] # <<>>
      <3>1. PayloadBytes - client.moved # 0
        BY TcpFacts, Sizes DEF TcpInv
      <3> QED
        BY <2>6, <3>1, EmptySeq
    <2> QED
      BY <2>3, <2>5, <2>7, TcpFacts, Sizes
         DEF ClientPeerGone, PeerClosed, Other, Reset, TcpInv
  <1>6. faulty'
    BY <1>4, <1>5, TcpFacts
       DEF ServerPeerGone, ServerFault, ClientPeerGone, ClientFault, TcpInv
  <1>7. Lockstep'
    BY <1>6 DEF Lockstep
  <1> QED
    BY <1>3, <1>7 DEF TcpInv

------------------------------------------------------------------------------
(* Steps that move bytes.                                                  *)

\* What the threads have moved is counted in bytes.
LEMMA Counted ==
    ASSUME TcpTypes
    PROVE  /\ ServerGot \in 0..PayloadBytes /\ ServerSent \in 0..PayloadBytes
           /\ ClientGot \in 0..PayloadBytes /\ ClientSent \in 0..PayloadBytes
  BY TcpFacts, Sizes DEF ServerGot, ServerSent, ClientGot, ClientSent

\* send_all of the client: the stream to the server grows by the next bytes of
\* the message.
LEMMA ClientSendStep ==
    ASSUME TcpInv, ClientSend
    PROVE  TcpInv'
  <1> DEFINE m == Message(client.index)
  <1>1. PICK k \in 1..(PayloadBytes - client.moved) :
          /\ IF closed["server"]
               THEN UNCHANGED wire
               ELSE /\ Len(wire["client"]) + k <= Buffer
                    /\ wire' = [wire EXCEPT !["client"] =
                         @ \o SubSeq(m, client.moved + 1, client.moved + k)]
          /\ client' = Moved(client, k, "receive")
    BY DEF ClientSend, SendCall, Other
  <1> DEFINE r == wire["client"] \o SubSeq(m, client.moved + 1, client.moved + k)
  <1>2. /\ client.pc = "send" /\ client.index < Total
        /\ UNCHANGED <<closed, server_state, server, messages, faulty>>
    BY DEF ClientSend
  <1>3. TcpTypes /\ Lockstep /\ client.index \in 0..(Total - 1)
    BY <1>2, TcpFacts, Sizes DEF TcpInv
  <1>4. /\ client' \in ThreadType /\ client'.index = client.index
        /\ client'.buffer = client.buffer
        /\ \/ /\ client.moved + k = PayloadBytes
              /\ client'.pc = "receive" /\ client'.moved = 0
           \/ /\ client.moved + k < PayloadBytes
              /\ client'.pc = client.pc /\ client'.moved = client.moved + k
    BY <1>1, <1>3, TcpFacts, MovedIs
  <1>5. m \in [1..PayloadBytes -> Bytes] /\ Holds(m, client.index, PayloadBytes)
    BY <1>3, MessageBytes
  <1> HIDE DEF m
  <1>6. client.moved \in 0..PayloadBytes /\ wire["client"] \in Seq(Bytes)
    BY <1>3, TcpFacts, Sizes
  <1>7. /\ r \in Seq(Bytes) /\ Len(r) = Len(wire["client"]) + k
        /\ \A n, a \in Nat :
              Holds(m, n, PayloadBytes) /\ IsPiece(wire["client"], n, a, client.moved)
                => IsPiece(r, n, a, client.moved + k)
    BY <1>1, <1>5, <1>6, PieceGrows
  <1>8. /\ closed["server"] => wire' = wire
        /\ ~closed["server"] => /\ wire' = [wire EXCEPT !["client"] = r]
                                /\ Len(wire["client"]) + k <= Buffer
    BY <1>1
  <1> HIDE DEF r
  <1>9. /\ wire' \in [Ends -> Seq(Bytes)] /\ wire'["server"] = wire["server"]
        /\ Len(wire'["client"]) <= Buffer
        /\ ~closed["server"] => wire'["client"] = r
    BY <1>3, <1>7, <1>8, TcpFacts DEF Ends
  <1>10. TcpTypes'
    BY <1>2, <1>3, <1>4, <1>9, TcpFacts DEF TcpTypes, TypeOK, Ends
  <1>11. Lockstep'
    <2> SUFFICES ASSUME ~faulty
                 PROVE  Lockstep'
      BY <1>2 DEF Lockstep
    <2>1. /\ AllIsWell /\ (SameExchange \/ ServerAhead \/ ClientAhead)
          /\ Holds(server.buffer, server.index, ServerGot)
      BY <1>3 DEF Lockstep
    <2>2. SameExchange \/ ClientAhead
      BY <1>2, <2>1 DEF ServerAhead
    <2>3. ~closed["server"]
      BY <1>2, <1>3, <2>1, <2>2, TcpFacts, Sizes, SMTT(30)
         DEF AllIsWell, SameExchange, ClientAhead
    <2>4. /\ ClientSent = client.moved /\ ClientSent' = client.moved + k
          /\ ClientGot = 0 /\ ClientGot' = 0
          /\ ServerGot' = ServerGot /\ ServerSent' = ServerSent
      BY <1>2, <1>4 DEF ClientSent, ClientGot, ServerGot, ServerSent
    <2>5. AllIsWell'
      BY <1>2, <1>3, <1>4, <2>1, Sizes DEF AllIsWell
    <2>6. ServerGot \in Nat /\ client.index \in Nat /\ 0 \in Nat
      BY <1>3, Counted, Sizes
    <2>7. ASSUME SameExchange
          PROVE  SameExchange'
      <3>1. IsPiece(r, client.index, ServerGot, client.moved + k)
        BY <1>5, <1>7, <2>4, <2>6, <2>7 DEF SameExchange
      <3> QED
        BY <1>2, <1>4, <1>9, <2>3, <2>4, <2>7, <3>1 DEF SameExchange
    <2>8. ASSUME ClientAhead
          PROVE  ClientAhead'
      <3>1. IsPiece(r, client.index, 0, client.moved + k)
        BY <1>5, <1>7, <2>4, <2>6, <2>8 DEF ClientAhead
      <3> QED
        BY <1>2, <1>4, <1>9, <2>3, <2>4, <2>8, <3>1 DEF ClientAhead
    <2>9. Holds(client.buffer, client.index, ClientGot)'
      BY <2>4 DEF Holds
    <2> QED
      BY <1>2, <2>1, <2>2, <2>4, <2>5, <2>7, <2>8, <2>9 DEF Lockstep
  <1> QED
    BY <1>10, <1>11 DEF TcpInv

\* send_all of the server: it echoes its buffer, which holds the message.
LEMMA ServerSendStep ==
    ASSUME TcpInv, ServerSend
    PROVE  TcpInv'
  <1> DEFINE m == server.buffer
  <1>1. PICK k \in 1..(PayloadBytes - server.moved) :
          /\ IF closed["client"]
               THEN UNCHANGED wire
               ELSE /\ Len(wire["server"]) + k <= Buffer
                    /\ wire' = [wire EXCEPT !["server"] =
                         @ \o SubSeq(m, server.moved + 1, server.moved + k)]
          /\ server' = Moved(server, k, "count")
    BY DEF ServerSend, SendCall, Other
  <1> DEFINE r == wire["server"] \o SubSeq(m, server.moved + 1, server.moved + k)
  <1>2. /\ server.pc = "send"
        /\ UNCHANGED <<closed, server_state, client, messages, faulty>>
    BY DEF ServerSend
  <1>3. TcpTypes /\ Lockstep
    BY DEF TcpInv
  <1>4. /\ server' \in ThreadType /\ server'.index = server.index
        /\ server'.buffer = server.buffer
        /\ \/ /\ server.moved + k = PayloadBytes
              /\ server'.pc = "count" /\ server'.moved = 0
           \/ /\ server.moved + k < PayloadBytes
              /\ server'.pc = server.pc /\ server'.moved = server.moved + k
    BY <1>1, <1>3, TcpFacts, MovedIs
  <1>5. m \in [1..PayloadBytes -> Bytes]
    BY <1>3, TcpFacts
  <1> HIDE DEF m
  <1>6. server.moved \in 0..PayloadBytes /\ wire["server"] \in Seq(Bytes)
    BY <1>3, TcpFacts, Sizes
  <1>7. /\ r \in Seq(Bytes) /\ Len(r) = Len(wire["server"]) + k
        /\ \A n, a \in Nat :
              Holds(m, n, PayloadBytes) /\ IsPiece(wire["server"], n, a, server.moved)
                => IsPiece(r, n, a, server.moved + k)
    BY <1>1, <1>5, <1>6, PieceGrows
  <1>8. /\ closed["client"] => wire' = wire
        /\ ~closed["client"] => /\ wire' = [wire EXCEPT !["server"] = r]
                                /\ Len(wire["server"]) + k <= Buffer
    BY <1>1
  <1> HIDE DEF r
  <1>9. /\ wire' \in [Ends -> Seq(Bytes)] /\ wire'["client"] = wire["client"]
        /\ Len(wire'["server"]) <= Buffer
        /\ ~closed["client"] => wire'["server"] = r
    BY <1>3, <1>7, <1>8, TcpFacts DEF Ends
  <1>10. TcpTypes'
    BY <1>2, <1>3, <1>4, <1>9, TcpFacts DEF TcpTypes, TypeOK, Ends
  <1>11. Lockstep'
    <2> SUFFICES ASSUME ~faulty
                 PROVE  Lockstep'
      BY <1>2 DEF Lockstep
    <2>1. /\ AllIsWell /\ (SameExchange \/ ServerAhead \/ ClientAhead)
          /\ Holds(server.buffer, server.index, ServerGot)
          /\ Holds(client.buffer, client.index, ClientGot)
      BY <1>3 DEF Lockstep
    <2>2. SameExchange /\ ~closed["client"]
      BY <1>2, <2>1 DEF AllIsWell, ServerAhead, ClientAhead
    <2>3. /\ ServerSent = server.moved /\ ServerSent' = server.moved + k
          /\ ServerGot = PayloadBytes /\ ServerGot' = PayloadBytes
          /\ ClientGot' = ClientGot /\ ClientSent' = ClientSent
      BY <1>2, <1>4 DEF ClientSent, ClientGot, ServerGot, ServerSent
    <2>4. AllIsWell'
      BY <1>2, <1>4, <2>1 DEF AllIsWell
    <2>5. ClientGot \in Nat /\ client.index \in Nat
      BY <1>3, Counted, TcpFacts, Sizes, SMTT(30)
    <2>6. Holds(m, client.index, PayloadBytes)
      BY <2>1, <2>2, <2>3 DEF SameExchange, m
    <2>7. IsPiece(r, client.index, ClientGot, server.moved + k)
      BY <1>7, <2>2, <2>3, <2>5, <2>6 DEF SameExchange
    <2>8. SameExchange'
      BY <1>2, <1>4, <1>9, <2>2, <2>3, <2>7 DEF SameExchange
    <2> QED
      BY <1>2, <1>4, <2>1, <2>3, <2>4, <2>8 DEF Lockstep
  <1> QED
    BY <1>10, <1>11 DEF TcpInv

\* receive_all of the server takes bytes off the stream from the client.
LEMMA ServerReceiveStep ==
    ASSUME TcpInv, ServerReceive
    PROVE  TcpInv'
  <1> DEFINE s == wire["client"]
  <1>1. PICK k \in 1..(PayloadBytes - server.moved) :
          /\ k <= Len(s)
          /\ wire' = [wire EXCEPT !["client"] = SubSeq(@, k + 1, Len(@))]
          /\ server' = Moved([server EXCEPT !.buffer =
                               Store(@, server.moved, SubSeq(s, 1, k))],
                             k, "send")
    BY DEF ServerReceive, ReceiveCall, Other
  <1> DEFINE r == SubSeq(s, k + 1, Len(s))
             b == Store(server.buffer, server.moved, SubSeq(s, 1, k))
             u == [server EXCEPT !.buffer = b]
  <1>2. /\ server.pc = "receive" /\ server.index < Total
        /\ UNCHANGED <<closed, server_state, client, messages, faulty>>
    BY DEF ServerReceive
  <1>3. TcpTypes /\ Lockstep /\ server.index \in Nat /\ server.index < Total
    BY <1>2, TcpFacts, Sizes DEF TcpInv
  <1>4. /\ server.moved \in 0..PayloadBytes /\ s \in Seq(Bytes)
        /\ server.buffer \in [1..PayloadBytes -> Bytes] /\ k \in 1..Len(s)
        /\ wire["server"] \in Seq(Bytes) /\ Len(s) \in Nat /\ Len(s) <= Buffer
    BY <1>1, <1>3, TcpFacts, Sizes, SMTT(30)
  <1>5. wire' = [wire EXCEPT !["client"] = r]
    BY <1>1
  <1> HIDE DEF s
  <1>6. /\ r \in Seq(Bytes) /\ Len(r) = Len(s) - k
        /\ \A n, a, z \in Nat :
              IsPiece(s, n, a, z) => IsPiece(r, n, a + k, z)
    BY <1>4, PieceShrinks
  <1>7. /\ b \in [1..PayloadBytes -> Bytes]
        /\ \A n, z \in Nat :
              Holds(server.buffer, n, server.moved) /\ IsPiece(s, n, server.moved, z)
                => Holds(b, n, server.moved + k)
    BY <1>1, <1>4, StoreHolds
  <1>8. server' = Moved(u, k, "send")
    BY <1>1 DEF s
  <1> HIDE DEF r, b
  <1>9. /\ u \in ThreadType /\ u.moved = server.moved /\ u.pc = server.pc
        /\ u.index = server.index /\ u.buffer = b
    BY <1>3, <1>7, TcpFacts DEF ThreadType
  <1> HIDE DEF u
  <1>10. /\ server' \in ThreadType /\ server'.index = server.index
         /\ server'.buffer = b
         /\ \/ /\ server.moved + k = PayloadBytes
               /\ server'.pc = "send" /\ server'.moved = 0
            \/ /\ server.moved + k < PayloadBytes
               /\ server'.pc = server.pc /\ server'.moved = server.moved + k
    <2>1. k \in 1..(PayloadBytes - u.moved)
      BY <1>1, <1>9
    <2> QED
      BY <1>8, <1>9, <2>1, MovedIs
  <1>11. /\ wire' \in [Ends -> Seq(Bytes)] /\ wire'["server"] = wire["server"]
         /\ wire'["client"] = r /\ Len(r) <= Buffer
    BY <1>3, <1>4, <1>5, <1>6, TcpFacts, Sizes, SMTT(30) DEF Ends
  <1>12. TcpTypes'
    BY <1>2, <1>3, <1>10, <1>11, TcpFacts DEF TcpTypes, TypeOK, Ends
  <1>13. Lockstep'
    <2> SUFFICES ASSUME ~faulty
                 PROVE  Lockstep'
      BY <1>2 DEF Lockstep
    <2>1. /\ AllIsWell /\ (SameExchange \/ ServerAhead \/ ClientAhead)
          /\ Holds(server.buffer, server.index, ServerGot)
          /\ Holds(client.buffer, client.index, ClientGot)
      BY <1>3 DEF Lockstep
    <2>2. s # <<>>
      BY <1>4, EmptySeq
    <2>3. SameExchange
      BY <1>2, <2>1, <2>2 DEF ServerAhead, ClientAhead, s
    <2>4. /\ ServerGot = server.moved /\ ServerGot' = server.moved + k
          /\ ServerSent = 0 /\ ServerSent' = 0
          /\ ClientGot' = ClientGot /\ ClientSent' = ClientSent
      BY <1>2, <1>10 DEF ClientSent, ClientGot, ServerGot, ServerSent
    <2>5. AllIsWell'
      BY <1>2, <1>10, <2>1 DEF AllIsWell
    <2>6. /\ ClientSent \in Nat /\ server.moved \in Nat
          /\ client.index = server.index
          /\ IsPiece(s, server.index, server.moved, ClientSent)
      BY <1>3, <1>4, <2>3, <2>4, Counted, Sizes DEF SameExchange, s
    <2>7. IsPiece(r, server.index, server.moved + k, ClientSent)
      BY <1>3, <1>6, <2>6
    <2>8. Holds(b, server.index, server.moved + k)
      BY <1>3, <1>7, <2>1, <2>4, <2>6
    <2>9. SameExchange'
      BY <1>2, <1>10, <1>11, <2>3, <2>4, <2>6, <2>7 DEF SameExchange
    <2> QED
      BY <1>2, <1>10, <2>1, <2>4, <2>5, <2>8, <2>9 DEF Lockstep
  <1> QED
    BY <1>12, <1>13 DEF TcpInv

\* receive_all of the client takes bytes off the stream from the server.
LEMMA ClientReceiveStep ==
    ASSUME TcpInv, ClientReceive
    PROVE  TcpInv'
  <1> DEFINE s == wire["server"]
  <1>1. PICK k \in 1..(PayloadBytes - client.moved) :
          /\ k <= Len(s)
          /\ wire' = [wire EXCEPT !["server"] = SubSeq(@, k + 1, Len(@))]
          /\ client' = Moved([client EXCEPT !.buffer =
                               Store(@, client.moved, SubSeq(s, 1, k))],
                             k, "validate")
    BY DEF ClientReceive, ReceiveCall, Other
  <1> DEFINE r == SubSeq(s, k + 1, Len(s))
             b == Store(client.buffer, client.moved, SubSeq(s, 1, k))
             u == [client EXCEPT !.buffer = b]
  <1>2. /\ client.pc = "receive"
        /\ UNCHANGED <<closed, server_state, server, messages, faulty>>
    BY DEF ClientReceive
  <1>3. TcpTypes /\ Lockstep /\ client.index \in Nat /\ client.index < Total
    BY <1>2, TcpFacts, Sizes DEF TcpInv, TcpTypes
  <1>4. /\ client.moved \in 0..PayloadBytes /\ s \in Seq(Bytes)
        /\ client.buffer \in [1..PayloadBytes -> Bytes] /\ k \in 1..Len(s)
        /\ wire["client"] \in Seq(Bytes) /\ Len(s) \in Nat /\ Len(s) <= Buffer
    <2>1. /\ client.moved \in 0..PayloadBytes /\ s \in Seq(Bytes)
          /\ client.buffer \in [1..PayloadBytes -> Bytes]
          /\ wire["client"] \in Seq(Bytes)
          /\ Len(s) \in Nat /\ Len(s) <= Buffer
      BY <1>3, TcpFacts, Sizes
    <2>2. k \in Nat /\ 1 <= k /\ k <= Len(s)
      BY <1>1, <1>3, TcpFacts, Sizes
    <2> QED
      BY <2>1, <2>2
  <1>5. wire' = [wire EXCEPT !["server"] = r]
    BY <1>1
  <1> HIDE DEF s
  <1>6. /\ r \in Seq(Bytes) /\ Len(r) = Len(s) - k
        /\ \A n, a, z \in Nat :
              IsPiece(s, n, a, z) => IsPiece(r, n, a + k, z)
    BY <1>4, PieceShrinks
  <1>7. /\ b \in [1..PayloadBytes -> Bytes]
        /\ \A n, z \in Nat :
              Holds(client.buffer, n, client.moved) /\ IsPiece(s, n, client.moved, z)
                => Holds(b, n, client.moved + k)
    BY <1>1, <1>4, StoreHolds
  <1>8. client' = Moved(u, k, "validate")
    BY <1>1 DEF s
  <1> HIDE DEF r, b
  <1>9. /\ u \in ThreadType /\ u.moved = client.moved /\ u.pc = client.pc
        /\ u.index = client.index /\ u.buffer = b
    BY <1>3, <1>7, TcpFacts DEF ThreadType
  <1> HIDE DEF u
  <1>10. /\ client' \in ThreadType /\ client'.index = client.index
         /\ client'.buffer = b
         /\ \/ /\ client.moved + k = PayloadBytes
               /\ client'.pc = "validate" /\ client'.moved = 0
            \/ /\ client.moved + k < PayloadBytes
               /\ client'.pc = client.pc /\ client'.moved = client.moved + k
    <2>1. k \in 1..(PayloadBytes - u.moved)
      BY <1>1, <1>9
    <2> QED
      BY <1>8, <1>9, <2>1, MovedIs
  <1>11. /\ wire' \in [Ends -> Seq(Bytes)] /\ wire'["client"] = wire["client"]
         /\ wire'["server"] = r /\ Len(r) <= Buffer
    BY <1>3, <1>4, <1>5, <1>6, TcpFacts, Sizes, SMTT(30) DEF Ends
  <1>12. TcpTypes'
    BY <1>2, <1>3, <1>10, <1>11, TcpFacts DEF TcpTypes, TypeOK, Ends
  <1>13. Lockstep'
    <2> SUFFICES ASSUME ~faulty
                 PROVE  Lockstep'
      BY <1>2 DEF Lockstep
    <2>1. /\ AllIsWell /\ (SameExchange \/ ServerAhead \/ ClientAhead)
          /\ Holds(server.buffer, server.index, ServerGot)
          /\ Holds(client.buffer, client.index, ClientGot)
      BY <1>3 DEF Lockstep
    <2>2. s # <<>>
      BY <1>4, EmptySeq
    <2>3. SameExchange \/ ServerAhead
      BY <2>1, <2>2 DEF ClientAhead, s
    <2>4. /\ ClientGot = client.moved /\ ClientGot' = client.moved + k
          /\ ClientSent = PayloadBytes /\ ClientSent' = PayloadBytes
          /\ ServerGot' = ServerGot /\ ServerSent' = ServerSent
      BY <1>2, <1>10 DEF ClientSent, ClientGot, ServerGot, ServerSent
    <2>5. AllIsWell'
      BY <1>2, <1>3, <1>10, <2>1, Sizes DEF AllIsWell
    <2>6. /\ ServerSent \in Nat /\ client.moved \in Nat
          /\ PayloadBytes \in Nat
      BY <1>3, <1>4, Counted, Sizes
    <2>7. PICK z \in Nat : IsPiece(s, client.index, client.moved, z)
      BY <2>3, <2>4, <2>6 DEF SameExchange, ServerAhead, s
    <2>8. Holds(b, client.index, client.moved + k)
      BY <1>3, <1>7, <2>1, <2>4, <2>7
    <2>9. ASSUME SameExchange
          PROVE  SameExchange'
      <3>1. IsPiece(s, client.index, client.moved, ServerSent)
        BY <2>4, <2>9 DEF SameExchange, s
      <3>2. IsPiece(r, client.index, client.moved + k, ServerSent)
        BY <1>3, <1>6, <2>6, <3>1
      <3> QED
        BY <1>2, <1>10, <1>11, <2>4, <2>9, <3>2 DEF SameExchange
    <2>10. ASSUME ServerAhead
           PROVE  ServerAhead'
      <3>1. IsPiece(s, client.index, client.moved, PayloadBytes)
        BY <2>4, <2>10 DEF ServerAhead, s
      <3>2. IsPiece(r, client.index, client.moved + k, PayloadBytes)
        BY <1>3, <1>6, <2>6, <3>1
      <3> QED
        BY <1>2, <1>10, <1>11, <2>4, <2>10, <3>2 DEF ServerAhead
    <2> QED
      BY <1>2, <1>10, <2>1, <2>3, <2>4, <2>5, <2>8, <2>9, <2>10 DEF Lockstep
  <1> QED
    BY <1>12, <1>13 DEF TcpInv

\* The server counts the exchange: it is ahead of the client, or catches up.
LEMMA ServerCountStep ==
    ASSUME TcpInv, ServerCount
    PROVE  TcpInv'
  <1>1. /\ server.pc = "count" /\ messages' = messages + 1
        /\ server' = [server EXCEPT !.pc = "receive", !.index = @ + 1]
        /\ UNCHANGED <<wire, closed, server_state, client, faulty>>
    BY DEF ServerCount
  <1>2. /\ TcpTypes /\ Lockstep /\ server.index \in 0..Total
        /\ server.index < Total /\ messages = server.index
    BY <1>1, TcpFacts DEF TcpInv, TcpTypes
  <1>3. server.index + 1 \in 0..Total
    BY <1>2, Sizes
  <1>4. /\ server' \in ThreadType /\ server'.pc = "receive"
        /\ server'.index = server.index + 1 /\ server'.moved = server.moved
        /\ server'.buffer = server.buffer
    BY <1>1, <1>2, <1>3, TcpFacts DEF ThreadType
  <1>5. TcpTypes'
    BY <1>1, <1>2, <1>3, <1>4, TcpFacts DEF TcpTypes, TypeOK, Ends
  <1>6. Lockstep'
    <2> SUFFICES ASSUME ~faulty
                 PROVE  Lockstep'
      BY <1>1 DEF Lockstep
    <2>1. /\ AllIsWell /\ (SameExchange \/ ClientAhead)
          /\ Holds(client.buffer, client.index, ClientGot)
      BY <1>1, <1>2 DEF Lockstep, ServerAhead
    <2>2. /\ server.moved = 0
          /\ ServerGot = PayloadBytes /\ ServerSent = PayloadBytes
          /\ ServerGot' = 0 /\ ServerSent' = 0
          /\ ClientGot' = ClientGot /\ ClientSent' = ClientSent
      BY <1>1, <1>4, <2>1
         DEF AllIsWell, ClientSent, ClientGot, ServerGot, ServerSent
    <2>3. AllIsWell'
      BY <1>1, <1>4, <2>1, <2>2 DEF AllIsWell
    <2>4. Holds(server.buffer, server.index, ServerGot)'
      BY <2>2 DEF Holds
    <2>5. ASSUME SameExchange
          PROVE  ServerAhead'
      <3>1. PayloadBytes <= ClientSent
        BY <2>2, <2>5 DEF SameExchange, IsPiece
      <3>2. client.pc \in {"receive", "validate"} /\ ClientSent = PayloadBytes
        BY <1>2, <3>1, TcpFacts, Sizes DEF ClientSent
      <3>3. IsPiece(wire["client"], client.index, PayloadBytes, PayloadBytes)
        BY <2>2, <2>5, <3>2 DEF SameExchange
      <3>4. wire["client"] = <<>>
        BY <1>2, <3>3, TcpFacts, Sizes, EmptyPiece
      <3> QED
        BY <1>1, <1>4, <2>2, <2>5, <3>2, <3>4 DEF ServerAhead, SameExchange
    <2>6. ASSUME ClientAhead
          PROVE  SameExchange'
      <3>1. IsPiece(wire["server"], client.index, 0, 0)
        BY <1>2, <2>6, TcpFacts, EmptyPiece DEF ClientAhead
      <3> QED
        BY <1>1, <1>4, <2>2, <2>6, <3>1 DEF ClientAhead, SameExchange
    <2>7. Holds(client.buffer, client.index, ClientGot)'
      BY <1>1, <2>1, <2>2
    <2> QED
      BY <2>1, <2>3, <2>4, <2>5, <2>6, <2>7 DEF Lockstep
  <1> QED
    BY <1>5, <1>6 DEF TcpInv

\* The client validates the echo: what it has received is the message, and it
\* goes on to the next exchange before or after the server does.
LEMMA ClientValidateStep ==
    ASSUME TcpInv, ClientValidate
    PROVE  TcpInv'
  <1>1. /\ client.pc = "validate"
        /\ client' = IF client.buffer = Message(client.index)
                       THEN [client EXCEPT !.pc = "send", !.index = @ + 1]
                       ELSE [client EXCEPT !.pc = "catch"]
        /\ UNCHANGED <<wire, closed, server_state, server, messages, faulty>>
    BY DEF ClientValidate
  <1>2. /\ TcpTypes /\ Lockstep /\ client.index \in 0..Total
        /\ client.index < Total
    BY <1>1, TcpFacts DEF TcpInv, TcpTypes
  <1>3. client.index + 1 \in 0..Total
    BY <1>2, Sizes
  <1>4. /\ client' \in ThreadType /\ client'.pc \in {"send", "catch"}
        /\ client.buffer = Message(client.index) =>
             /\ client'.pc = "send" /\ client'.index = client.index + 1
             /\ client'.moved = client.moved /\ client'.buffer = client.buffer
    BY <1>1, <1>2, <1>3, TcpFacts DEF ThreadType
  <1>5. TcpTypes'
    BY <1>1, <1>2, <1>4, TcpFacts DEF TcpTypes, TypeOK, Ends
  <1>6. Lockstep'
    <2> SUFFICES ASSUME ~faulty
                 PROVE  Lockstep'
      BY <1>1 DEF Lockstep
    <2>1. /\ AllIsWell /\ (SameExchange \/ ServerAhead)
          /\ Holds(server.buffer, server.index, ServerGot)
          /\ Holds(client.buffer, client.index, ClientGot)
      BY <1>1, <1>2 DEF Lockstep, ClientAhead
    <2>2. ClientGot = PayloadBytes /\ ClientSent = PayloadBytes /\ client.moved = 0
      BY <1>1, <2>1 DEF ClientGot, ClientSent, AllIsWell
    <2>3. client.buffer = Message(client.index)
      BY <1>2, <2>1, <2>2, TcpFacts DEF Message, Holds
    <2>4. /\ client'.pc = "send" /\ client'.index = client.index + 1
          /\ client'.moved = 0
          /\ ClientGot' = 0 /\ ClientSent' = 0
          /\ ServerGot' = ServerGot /\ ServerSent' = ServerSent
      BY <1>1, <1>4, <2>2, <2>3
         DEF ClientSent, ClientGot, ServerGot, ServerSent
    <2>5. AllIsWell'
      BY <1>1, <2>1, <2>4 DEF AllIsWell
    <2>6. Holds(client.buffer, client.index, ClientGot)'
      BY <2>4 DEF Holds
    <2>7. Holds(server.buffer, server.index, ServerGot)'
      BY <1>1, <2>1, <2>4
    <2>8. ASSUME SameExchange
          PROVE  ClientAhead'
      <3>1. PayloadBytes <= ServerSent
        BY <2>2, <2>8 DEF SameExchange, IsPiece
      <3>2. /\ server.pc = "count" /\ ServerSent = PayloadBytes
            /\ ServerGot = PayloadBytes
        BY <1>2, <3>1, TcpFacts, Sizes DEF ServerSent, ServerGot
      <3>3. /\ IsPiece(wire["server"], client.index, PayloadBytes, PayloadBytes)
            /\ IsPiece(wire["client"], client.index, PayloadBytes, PayloadBytes)
        BY <2>2, <2>8, <3>2 DEF SameExchange
      <3>4. wire["server"] = <<>> /\ wire["client"] = <<>>
        BY <1>2, <3>3, TcpFacts, Sizes, EmptyPiece
      <3>5. IsPiece(wire["client"], client.index + 1, 0, 0)
        BY <1>2, <3>4, TcpFacts, EmptyPiece
      <3> QED
        BY <1>1, <2>4, <2>8, <3>2, <3>4, <3>5 DEF ClientAhead, SameExchange
    <2>9. ASSUME ServerAhead
          PROVE  SameExchange'
      <3>1. ServerGot = 0 /\ ServerSent = 0
        BY <2>9 DEF ServerAhead, ServerGot, ServerSent
      <3>2. /\ IsPiece(wire["server"], client.index, PayloadBytes, PayloadBytes)
            /\ wire["client"] = <<>>
        BY <2>2, <2>9 DEF ServerAhead
      <3>3. wire["server"] = <<>>
        BY <1>2, <3>2, TcpFacts, Sizes, EmptyPiece
      <3>4. /\ IsPiece(wire["client"], client.index + 1, 0, 0)
            /\ IsPiece(wire["server"], client.index + 1, 0, 0)
        BY <1>2, <3>2, <3>3, TcpFacts, EmptyPiece
      <3> QED
        BY <1>1, <2>4, <2>9, <3>1, <3>4 DEF ServerAhead, SameExchange
    <2> QED
      BY <2>1, <2>5, <2>6, <2>7, <2>8, <2>9 DEF Lockstep
  <1> QED
    BY <1>5, <1>6 DEF TcpInv

------------------------------------------------------------------------------
(* The theorems.                                                           *)

\* Before the first exchange nothing is under way and both buffers are zeroed.
LEMMA TcpStarts == Init => TcpInv
  <1> SUFFICES ASSUME Init
               PROVE  TcpInv
    OBVIOUS
  <1>1. Thread \in ThreadType
    BY Sizes, MessageBytes DEF Thread, ThreadType
  <1>2. /\ server = Thread /\ client = Thread /\ Thread.pc = "start"
        /\ Thread.index = 0 /\ Thread.moved = 0
    BY DEF Init, Thread
  <1>3. /\ wire \in [Ends -> Seq(Bytes)]
        /\ wire["client"] = <<>> /\ wire["server"] = <<>>
        /\ closed \in [Ends -> BOOLEAN]
        /\ ~closed["client"] /\ ~closed["server"]
        /\ server_state = 0 /\ messages = 0 /\ faulty = FALSE
    BY DEF Init, Ends
  <1>4. Len(<<>>) = 0 /\ 0 <= Buffer /\ 0 \in 0..Total /\ <<>> \in Seq(Bytes)
    BY Sizes
  <1>5. TcpTypes
    BY <1>1, <1>2, <1>3, <1>4 DEF TcpTypes, TypeOK, Ends
  <1>6. AllIsWell
    BY <1>2, <1>3 DEF AllIsWell
  <1>7. /\ ServerGot = 0 /\ ServerSent = 0 /\ ClientGot = 0 /\ ClientSent = 0
    BY <1>2 DEF ServerGot, ServerSent, ClientGot, ClientSent
  <1>8. IsPiece(<<>>, 0, 0, 0)
    BY <1>4, EmptyPiece
  <1>9. SameExchange
    BY <1>2, <1>3, <1>7, <1>8 DEF SameExchange
  <1>10. /\ Holds(server.buffer, server.index, ServerGot)
         /\ Holds(client.buffer, client.index, ClientGot)
    BY <1>7 DEF Holds
  <1> QED
    BY <1>5, <1>6, <1>9, <1>10 DEF TcpInv, Lockstep

\* The threads of run_tcp are in lockstep: at every moment the bytes under way
\* in either direction are exactly the part of the current message that one
\* side has sent and the other has not received.
THEOREM TcpInvariance == Spec => []TcpInv
  <1>1. TcpInv /\ [Next]_vars => TcpInv'
    <2> SUFFICES ASSUME TcpInv, [Next]_vars
                 PROVE  TcpInv'
      OBVIOUS
    <2>1. CASE Server
      BY <2>1, ServerMoves, ServerReceiveStep, ServerSendStep, ServerCountStep,
         ThrowStep DEF Server
    <2>2. CASE Client
      BY <2>2, ClientMoves, ClientSendStep, ClientReceiveStep,
         ClientValidateStep, ThrowStep DEF Client
    <2>3. CASE ClientFault \/ ServerFault
      BY <2>3, ThrowStep
    <2>4. CASE UNCHANGED vars
      BY <2>4, ClientMoves
    <2> QED
      BY <2>1, <2>2, <2>3, <2>4 DEF Next, Ended
  <1> QED
    BY <1>1, TcpStarts, PTL DEF Spec

\* No call of send_all or receive_all runs past its buffer, and the kernel
\* never holds more than it can, for any sizes.
THEOREM TcpBuffersAreKept == Spec => []TypeOK
  <1>1. TcpInv => TypeOK
    BY DEF TcpInv, TcpTypes
  <1> QED
    BY <1>1, TcpInvariance, PTL

\* As long as no call fails of its own and the watchdog does not fire, run_tcp
\* does not throw, for any number of messages and any split of the streams.
THEOREM TcpRaisesNoFalseAlarm == Spec => []ThrowsOnlyOnFaults
  <1>1. TcpInv => ThrowsOnlyOnFaults
    BY DEF TcpInv, Lockstep, AllIsWell, ThrowsOnlyOnFaults
  <1> QED
    BY <1>1, TcpInvariance, PTL

\* Whether it returns or throws, run_tcp has joined its server thread, which
\* does nothing afterwards.
THEOREM TcpJoinsItsServer == Spec => []NoThreadLeftBehind
  <1>1. Init => NoThreadLeftBehind
    BY DEF Init, Thread, NoThreadLeftBehind, Over
  <1>2. ASSUME TcpInv, NoThreadLeftBehind, [Next]_vars
        PROVE  NoThreadLeftBehind'
    <2>1. CASE Server \/ ServerFault
      <3>1. client' = client /\ server.pc # "ended"
        BY <2>1 DEF Server, ServerStart, ServerReceive, ServerSend, ServerCount,
                    ServerReturn, ServerPeerGone, ServerCatch, ServerFault,
                    ServerThrows
      <3> QED
        BY <1>2, <3>1 DEF NoThreadLeftBehind, Over
    <2>2. CASE ClientJoin \/ ClientUnwind
      BY <2>2 DEF ClientJoin, ClientUnwind, NoThreadLeftBehind
    <2>3. CASE \/ ClientStart \/ ClientSend \/ ClientReceive \/ ClientValidate
               \/ ClientPeerGone \/ ClientCatch \/ ClientFault
      <3>1. server' = server
        BY <2>3 DEF ClientStart, ClientSend, ClientReceive, ClientValidate,
                    ClientPeerGone, ClientCatch, ClientFault, ClientThrows
      <3>2. ~Over'
        BY <2>3, <1>2
           DEF TcpInv, TcpTypes, TypeOK, ThreadType, Over, ClientStart,
               ClientSend, SendCall, ClientReceive, ReceiveCall, Moved,
               ClientValidate, ClientPeerGone, ClientCatch, ClientFault,
               ClientThrows
      <3> QED
        BY <3>1, <3>2 DEF NoThreadLeftBehind
    <2>4. CASE Ended \/ UNCHANGED vars
      <3>1. server' = server /\ client' = client
        BY <2>4 DEF Ended, vars
      <3> QED
        BY <1>2, <3>1 DEF NoThreadLeftBehind, Over
    <2> QED
      BY <1>2, <2>1, <2>2, <2>3, <2>4 DEF Next, Client
  <1> QED
    BY <1>1, <1>2, TcpInvariance, PTL DEF Spec
==============================================================================
