--------------------------- MODULE DatagramSockets ---------------------------
(***************************************************************************)
(* The datagram half of lls::networking: a thread receives with            *)
(* receive_datagram_blocking, try_receive_datagram or                      *)
(* receive_datagram_busy_spin from a socket that peers send to with        *)
(* send_connected_datagram or send_datagram_to.  One step is one recvmsg   *)
(* and what receive_datagram_once and its caller do with its outcome.      *)
(*                                                                         *)
(* A datagram is identified by its number.  What a result says of it (its  *)
(* bytes, its size on the wire, its source, MSG_TRUNC) is filled in by the *)
(* recvmsg and left out: no call decides anything on it.                   *)
(***************************************************************************)
EXTENDS Integers, Sequences

CONSTANTS
    Sends,         \* datagrams the peers try to send
    Queue          \* datagrams the kernel holds

ASSUME DatagramAssumption ==
    /\ Sends \in Nat
    /\ Queue \in Nat \ {0}

VARIABLES
    sent,       \* sends of the peers so far
    send_error, \* error of the last send_result: "none", an errno, or
                \* "message_size" when fewer bytes were taken
    queue,      \* datagrams waiting at the socket
    refused,    \* an asynchronous error (ECONNREFUSED) is pending
    errno,      \* of the last recvmsg of the call
    receive,    \* the receive in progress, or the result of the last one
    stop_requested,     \* what stop_requested() answers in the current call
    arrived,    \* history: datagrams queued so far, in order
    got,        \* history: datagrams of all received results, in order
    unreported  \* history: asynchronous errors that no result has carried yet

sendVars     == <<sent, send_error>>
receiveVars  == <<errno, receive, stop_requested, got>>
datagramVars == <<sendVars, receiveVars, queue, refused, arrived, unreported>>

DatagramInit ==
    /\ sent = 0 /\ send_error = "none" /\ queue = <<>> /\ refused = FALSE
    /\ errno = "none"
    /\ receive = [mode |-> "none", state |-> "not_ready", error |-> "none"]
    /\ stop_requested = FALSE
    /\ arrived = <<>> /\ got = <<>> /\ unreported = 0

------------------------------------------------------------------------------
(* The sends: send_connected_datagram and send_datagram_to.  Both repeat   *)
(* an interrupted call and report any other errno, or message_size when    *)
(* the kernel has taken fewer bytes than there are.                        *)

\* A peer sends to this socket.  What its kernel takes reaches the queue or is
\* lost; after an errno there is nothing to queue.
SendDatagram ==
    /\ sent < Sends
    /\ sent' = sent + 1
    /\ \/ /\ send_error' \in {"none", "message_size", "errno"}
          /\ UNCHANGED <<queue, arrived>>
       \/ /\ send_error' \in {"none", "message_size"}
          /\ Len(queue) < Queue
          /\ queue' = Append(queue, sent')
          /\ arrived' = Append(arrived, sent')
    /\ UNCHANGED <<refused, receiveVars, unreported>>

\* A connected socket learns that the peer's port is closed.
PeerRefuses ==
    /\ ~refused
    /\ refused' = TRUE
    /\ unreported' = unreported + 1
    /\ UNCHANGED <<sendVars, receiveVars, queue, arrived>>

------------------------------------------------------------------------------
(* The receives.                                                           *)

ReceivingDatagram == receive.state = "receiving"

DontWait == receive.mode \in {"try", "spin"}

\* The thread of this socket sends between two receives: a pending asynchronous
\* error is the errno of that send.
SendFromHere ==
    /\ ~ReceivingDatagram
    /\ \/ /\ refused
          /\ send_error' = "ECONNREFUSED"
          /\ refused' = FALSE /\ unreported' = unreported - 1
       \/ /\ ~refused
          /\ send_error' \in {"none", "message_size", "errno"}
          /\ UNCHANGED <<refused, unreported>>
    /\ UNCHANGED <<sent, receiveVars, queue, arrived>>

StartReceive(mode) ==
    /\ ~ReceivingDatagram
    /\ receive' = [mode |-> mode, state |-> "receiving", error |-> "none"]
    /\ errno' = "none"
    /\ stop_requested' = FALSE
    /\ UNCHANGED <<sendVars, queue, refused, arrived, got, unreported>>

\* Mutant: a spin that is to stop reports stopped for the datagram it took.
StopSwallowsDatagram ==
    /\ ReceivingDatagram /\ errno = "none" /\ ~refused
    /\ queue # <<>>
    /\ queue' = Tail(queue)
    /\ got' = IF stop_requested THEN got ELSE Append(got, Head(queue))
    /\ receive' = [receive EXCEPT !.state = IF stop_requested THEN "stopped"
                                                           ELSE "received"]
    /\ UNCHANGED <<sendVars, refused, errno, stop_requested, arrived,
                   unreported>>

\* recvmsg takes the oldest datagram, truncating what does not fit.
ReceiveDatagram ==
    /\ ReceivingDatagram /\ errno = "none" /\ ~refused
    /\ queue # <<>>
    /\ queue' = Tail(queue)
    /\ got' = Append(got, Head(queue))
    /\ receive' = [receive EXCEPT !.state = "received"]
    /\ UNCHANGED <<sendVars, refused, errno, stop_requested, arrived,
                   unreported>>

\* recvmsg fails: interrupted, nothing there, or the pending error.  Without
\* MSG_DONTWAIT nothing there is a failure only if the descriptor is O_NONBLOCK.
RecvmsgFails ==
    /\ ReceivingDatagram /\ errno = "none"
    /\ \/ errno' = "EINTR" /\ UNCHANGED refused
       \/ queue = <<>> /\ ~refused /\ errno' = "EAGAIN" /\ UNCHANGED refused
       \/ refused /\ errno' = "ECONNREFUSED" /\ refused' = FALSE
    /\ UNCHANGED <<sendVars, queue, receive, stop_requested, arrived, got,
                   unreported>>

ReturnResult(state, error) ==
    /\ receive' = [receive EXCEPT !.state = state, !.error = error]
    /\ unreported' = IF error = "ECONNREFUSED" THEN unreported - 1
                                               ELSE unreported
    /\ UNCHANGED <<sendVars, queue, refused, errno, stop_requested, arrived,
                   got>>

Again ==
    /\ errno' = "none"
    /\ UNCHANGED <<sendVars, queue, refused, receive, stop_requested, arrived,
                   got, unreported>>

\* Mutant: an interrupted spin reports the error of receive_datagram_once.
SpinReportsInterrupt ==
    /\ ReceivingDatagram /\ errno = "EINTR"
    /\ IF receive.mode = "spin" THEN ReturnResult("error", "EINTR") ELSE Again

\* EINTR: blocking and try repeat it inside receive_datagram_once; the spin asks
\* the predicate and clears the error or goes on.
OnInterrupt ==
    /\ ReceivingDatagram /\ errno = "EINTR"
    /\ IF receive.mode = "spin" /\ stop_requested
         THEN ReturnResult("stopped", "none") ELSE Again

\* Mutant: the spin goes on without asking the predicate.
NotReadyNeverStops ==
    /\ ReceivingDatagram /\ errno = "EAGAIN"
    /\ CASE ~DontWait            -> ReturnResult("error", errno)
         [] receive.mode = "try" -> ReturnResult("not_ready", "none")
         [] OTHER                -> Again

\* EAGAIN: not_ready under MSG_DONTWAIT, where the spin asks the predicate, and
\* an error without.
OnNotReady ==
    /\ ReceivingDatagram /\ errno = "EAGAIN"
    /\ CASE ~DontWait            -> ReturnResult("error", errno)
         [] receive.mode = "try" -> ReturnResult("not_ready", "none")
         [] stop_requested       -> ReturnResult("stopped", "none")
         [] OTHER                -> Again

\* Mutant: the spin takes every error for an interruption.
SpinHidesErrors ==
    /\ ReceivingDatagram /\ errno \notin {"none", "EINTR", "EAGAIN"}
    /\ CASE receive.mode # "spin" -> ReturnResult("error", errno)
         [] stop_requested        -> ReturnResult("stopped", "none")
         [] OTHER                 -> Again

\* Any other error is the result, in every mode.
OnError ==
    /\ ReceivingDatagram /\ errno \notin {"none", "EINTR", "EAGAIN"}
    /\ ReturnResult("error", errno)

\* The caller's predicate, or the deadline of the _until overload.
DatagramStopRequested ==
    /\ ReceivingDatagram /\ receive.mode = "spin" /\ ~stop_requested
    /\ stop_requested' = TRUE
    /\ UNCHANGED <<sendVars, queue, refused, errno, receive, arrived, got,
                   unreported>>

Recvmsg == ReceiveDatagram \/ RecvmsgFails
React   == OnInterrupt \/ OnNotReady \/ OnError

DatagramNext ==
    \/ SendDatagram \/ SendFromHere \/ PeerRefuses
    \/ \E mode \in {"blocking", "try", "spin"} : StartReceive(mode)
    \/ Recvmsg \/ React
    \/ DatagramStopRequested

\* The receiving thread goes on, and a stop is requested in the end.
DatagramSpec ==
    /\ DatagramInit /\ [][DatagramNext]_datagramVars
    /\ WF_datagramVars(Recvmsg \/ React)
    /\ WF_datagramVars(DatagramStopRequested)

------------------------------------------------------------------------------
\* Datagrams are taken exactly once and in order, and only by results that say
\* received: a stop, an error or an interruption never swallows one.
NothingSwallowed == got \o queue = arrived

\* recvmsg has taken the asynchronous error from the socket, and its call has not
\* returned yet.
Taken == ReceivingDatagram /\ errno = "ECONNREFUSED"

\* Every asynchronous error of a connected socket is the error of exactly one
\* result, of a receive in any mode or of a send: recvmsg takes it away from the
\* socket, and neither a stop nor another turn of the spin may then drop it,
\* even when the next error arrives meanwhile.
ErrorsReportedOnce ==
    unreported = (IF refused THEN 1 ELSE 0) + (IF Taken THEN 1 ELSE 0)

\* No call reports an interruption as an error, in any mode, and a stopped call
\* carries no error.
InterruptionsHidden ==
    /\ receive.error # "EINTR"
    /\ receive.state = "stopped" => receive.error = "none" /\ stop_requested

\* A spin whose predicate asks for a stop returns, however often it is
\* interrupted and whatever arrives.
DatagramSpinReturns ==
    (ReceivingDatagram /\ receive.mode = "spin") ~> ~ReceivingDatagram
==============================================================================
