---------------------------- MODULE StreamSockets ----------------------------
(***************************************************************************)
(* The stream half of lls::networking: one thread calls send_all, another  *)
(* receive_exact_blocking or receive_exact_busy_spin, over one direction   *)
(* of a connected stream socket.  One step is one send or recv and what    *)
(* the loop does with its outcome.                                         *)
(*                                                                         *)
(* Bytes are numbered by their place in what the sending caller wants to   *)
(* say.  Callers do what the results are for: after an error the sender    *)
(* goes on behind the bytes_sent that it was told, and the receiver keeps  *)
(* the first bytes_received bytes of its span and asks again.  The sender  *)
(* may close at any time between calls.  A descriptor with O_NONBLOCK makes*)
(* send and the blocking receive fail with EAGAIN: those are errors too.   *)
(***************************************************************************)
EXTENDS Integers, Sequences

CONSTANTS
    Sizes,          \* span sizes callers pass
    Buffer,         \* bytes the kernel holds
    StreamLength    \* bound on the bytes the caller sends in all

ASSUME StreamAssumption ==
    /\ Sizes \subseteq Nat
    /\ Buffer \in Nat \ {0}
    /\ StreamLength \in Nat

VARIABLES
    wire,       \* bytes the kernel has accepted and not handed over
    closed,     \* the sender has closed
    told,       \* bytes the sending caller has been told are sent
    sender,     \* send_all in progress: size, bytes_sent
    receiver,   \* a receive in progress, or the result of the last one
    span,       \* the receiver's span
    stop,       \* what stop_requested() answers in the current call
    collected   \* bytes the receiving caller has kept

streamVars == <<wire, closed, told, sender, receiver, span, stop, collected>>

NoBytes == [k \in {} |-> 0]

StreamInit ==
    /\ wire = <<>> /\ closed = FALSE
    /\ told = 0
    /\ sender = [calling |-> FALSE, size |-> 0, bytes_sent |-> 0]
    /\ receiver = [mode |-> "none", size |-> 0, bytes_received |-> 0,
                   state |-> "complete"]
    /\ span = NoBytes
    /\ stop = FALSE
    /\ collected = <<>>

------------------------------------------------------------------------------
(* send_all.                                                               *)

SendAll(size) ==
    /\ ~sender.calling /\ ~closed
    /\ told + size <= StreamLength
    /\ sender' = [calling |-> TRUE, size |-> size, bytes_sent |-> 0]
    /\ UNCHANGED <<wire, closed, told, receiver, span, stop, collected>>

\* send accepts n bytes from bytes.data() + bytes_sent.
SendBytes ==
    /\ sender.calling
    /\ \E n \in 1..(sender.size - sender.bytes_sent) :
        /\ Len(wire) + n <= Buffer
        /\ wire' = wire \o [k \in 1..n |-> told + sender.bytes_sent + k]
        /\ sender' = [sender EXCEPT !.bytes_sent = @ + n]
    /\ UNCHANGED <<closed, told, receiver, span, stop, collected>>

\* send fails or makes no progress: the result keeps bytes_sent.
SendFails ==
    /\ sender.calling /\ sender.bytes_sent < sender.size
    /\ told' = told + sender.bytes_sent
    /\ sender' = [sender EXCEPT !.calling = FALSE]
    /\ UNCHANGED <<wire, closed, receiver, span, stop, collected>>

SendReturns ==
    /\ sender.calling /\ sender.bytes_sent = sender.size
    /\ told' = told + sender.bytes_sent
    /\ sender' = [sender EXCEPT !.calling = FALSE]
    /\ UNCHANGED <<wire, closed, receiver, span, stop, collected>>

\* The sending caller closes the connection.
Close ==
    /\ ~sender.calling /\ ~closed
    /\ closed' = TRUE
    /\ UNCHANGED <<wire, told, sender, receiver, span, stop, collected>>

------------------------------------------------------------------------------
(* receive_exact_blocking and receive_exact_busy_spin.                     *)

Receiving == receiver.state = "receiving"

\* A fresh span; the stop predicate starts out FALSE.
ReceiveExact(mode, size) ==
    /\ ~Receiving
    /\ receiver' = [mode |-> mode, size |-> size, bytes_received |-> 0,
                    state |-> "receiving"]
    /\ span' = [k \in 1..size |-> 0]
    /\ stop' = FALSE
    /\ UNCHANGED <<wire, closed, told, sender, collected>>

\* The call returns and the caller keeps what it got.
Return(state) ==
    /\ receiver' = [receiver EXCEPT !.state = state]
    /\ collected' = collected \o SubSeq(span, 1, receiver.bytes_received)
    /\ UNCHANGED <<wire, closed, told, sender, span, stop>>

\* Mutant: every recv stores to the start of the span.
StoreAtStart(offset, bytes) ==
    [k \in 1..receiver.size |-> IF k \in DOMAIN bytes THEN bytes[k] ELSE span[k]]

\* What recv stores at bytes.data() + offset.
Store(offset, bytes) ==
    [k \in 1..receiver.size |->
        IF k - offset \in DOMAIN bytes THEN bytes[k - offset] ELSE span[k]]

ReceiveBytes ==
    /\ Receiving
    /\ \E n \in 1..(receiver.size - receiver.bytes_received) :
        /\ n <= Len(wire)
        /\ span' = Store(receiver.bytes_received, SubSeq(wire, 1, n))
        /\ wire' = SubSeq(wire, n + 1, Len(wire))
        /\ receiver' = [receiver EXCEPT !.bytes_received = @ + n]
    /\ UNCHANGED <<closed, told, sender, stop, collected>>

Incomplete == Receiving /\ receiver.bytes_received < receiver.size

\* Mutant: the predicate is asked after EINTR only.
StopOnInterruptOnly == FALSE

\* EAGAIN of a spinning receive, where the predicate is asked; otherwise the
\* loop pauses and goes on.  EINTR asks it too, with data waiting or not.
StopWhenNotReady == wire = <<>> /\ ~closed

ReceiveStops ==
    /\ Incomplete /\ receiver.mode = "spin"
    /\ stop
    /\ StopWhenNotReady
    /\ Return("stopped")

ReceiveInterrupted ==
    /\ Incomplete /\ receiver.mode = "spin"
    /\ stop
    /\ Return("stopped")

\* Mutant: the result of a peer close does not carry bytes_received.
PeerClosedForgets ==
    /\ Incomplete
    /\ closed /\ wire = <<>>
    /\ receiver' = [receiver EXCEPT !.state = "peer_closed",
                                    !.bytes_received = 0]
    /\ UNCHANGED <<wire, closed, told, sender, span, stop, collected>>

\* recv returns 0: the sender has closed and everything has been taken.
ReceivePeerClosed ==
    /\ Incomplete
    /\ closed /\ wire = <<>>
    /\ Return("peer_closed")

\* Any other errno.
ReceiveFails == Incomplete /\ Return("error")

\* The loop condition, also for an empty span.
ReceiveCompletes ==
    /\ Receiving /\ receiver.bytes_received = receiver.size
    /\ Return("complete")

\* The caller's predicate, or the deadline of receive_exact_busy_spin_until.
StopRequested ==
    /\ Receiving /\ receiver.mode = "spin"
    /\ ~stop
    /\ stop' = TRUE
    /\ UNCHANGED <<wire, closed, told, sender, receiver, span, collected>>

Receive == \/ ReceiveBytes \/ ReceiveStops \/ ReceivePeerClosed
           \/ ReceiveCompletes

StreamNext ==
    \/ \E size \in Sizes : SendAll(size)
    \/ SendBytes \/ SendFails \/ SendReturns \/ Close
    \/ \E mode \in {"blocking", "spin"}, size \in Sizes : ReceiveExact(mode, size)
    \/ Receive \/ ReceiveInterrupted \/ ReceiveFails
    \/ StopRequested

\* A thread inside a receive goes on; a stop is requested in the end.  Nobody
\* has to send, to close, to be interrupted or to fail.
StreamSpec ==
    /\ StreamInit /\ [][StreamNext]_streamVars
    /\ WF_streamVars(Receive) /\ WF_streamVars(StopRequested)

------------------------------------------------------------------------------
\* Bytes accepted by the kernel so far.
Accepted == told + IF sender.calling THEN sender.bytes_sent ELSE 0

\* Bytes the receiving call in progress holds.
Held == IF Receiving THEN SubSeq(span, 1, receiver.bytes_received) ELSE <<>>

\* The stream is exact: what the receiving caller has kept, what its current
\* call holds and what is on the wire are, in this order, the bytes that were
\* accepted, each once, over any partial transfers, stops, errors and retries.
StreamIsExact ==
    collected \o Held \o wire = [k \in 1..Accepted |-> k]

\* peer_closed is final: it is reported only when nothing sent is missing.
CloseLosesNothing ==
    receiver.state = "peer_closed" => closed /\ Len(collected) = told

\* A spinning receive whose predicate asks for a stop returns: no state of the
\* stream keeps it in its loop.
StreamSpinReturns == (Receiving /\ receiver.mode = "spin") ~> ~Receiving
==============================================================================
