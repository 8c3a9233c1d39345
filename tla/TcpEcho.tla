------------------------------- MODULE TcpEcho -------------------------------
(***************************************************************************)
(* run_tcp and run_client of the socket-latency scenario: over one TCP     *)
(* connection the client sends a message of PayloadBytes bytes, the server *)
(* thread receives all of it and sends it back, and the client receives    *)
(* and validates the whole echo before it sends the next.  Both use the    *)
(* same exact-length send_all and receive_all, here one step per system    *)
(* call: the kernel accepts and hands over any number of bytes.            *)
(*                                                                         *)
(* A byte is <<sequence of its message, offset>>.  EINTR and, without a    *)
(* watchdog, EAGAIN only repeat the call and are stuttering steps.         *)
(***************************************************************************)
EXTENDS Integers, Sequences

CONSTANTS
    Warmup, Samples,   \* configuration.warmup, configuration.samples
    PayloadBytes,
    Buffer,            \* bytes the kernel holds per direction
    Spin,              \* profile.receive_wait is wait_strategy::spin
    MayFail            \* socket calls may fail

Total == Warmup + Samples

ASSUME TcpAssumption ==
    /\ Warmup \in Nat /\ Samples \in Nat
    /\ PayloadBytes \in Nat \ {0} /\ Buffer \in Nat \ {0}
    /\ Spin \in BOOLEAN /\ MayFail \in BOOLEAN

VARIABLES
    wire,           \* wire[e]: bytes on their way from e
    closed,         \* closed[e]: e has shut down or closed its socket
    server_state,   \* 0 starting, 1 serving, -1 failed
    server, client, \* pc, index of the exchange, bytes moved, buffer
    messages,       \* server.messages
    faulty          \* history: a call failed of its own, or the watchdog fired

vars == <<wire, closed, server_state, server, client, messages, faulty>>

Other(e) == IF e = "client" THEN "server" ELSE "client"

Message(n) == [k \in 1..PayloadBytes |-> <<n, k>>]

\* Buffers start zeroed and keep what an earlier message left in them.
Zeroed == [k \in 1..PayloadBytes |-> <<-1, k>>]

Thread == [pc |-> "start", index |-> 0, moved |-> 0, buffer |-> Zeroed]

Init ==
    /\ wire = [e \in {"client", "server"} |-> <<>>]
    /\ closed = [e \in {"client", "server"} |-> FALSE]
    /\ server_state = 0
    /\ server = Thread /\ client = Thread
    /\ messages = 0
    /\ faulty = FALSE

------------------------------------------------------------------------------
(* send_all and receive_all, for thread t of endpoint e: t2 is t after one *)
(* call that moves n bytes, `next` its pc once all bytes are moved.        *)

\* Mutant: the loop goes on while offset <= size.
MovedOnePast(t, n, next) ==
    IF t.moved + n > PayloadBytes THEN [t EXCEPT !.pc = next, !.moved = 0]
                                  ELSE [t EXCEPT !.moved = @ + n]

Moved(t, n, next) ==
    IF t.moved + n = PayloadBytes THEN [t EXCEPT !.pc = next, !.moved = 0]
                                  ELSE [t EXCEPT !.moved = @ + n]

\* The kernel takes n more bytes of message, discarding them if the other side
\* has gone.
SendCall(e, t, message, next, t2) ==
    \E n \in 1..(PayloadBytes - t.moved) :
        /\ IF closed[Other(e)]
             THEN UNCHANGED wire
             ELSE /\ Len(wire[e]) + n <= Buffer
                  /\ wire' = [wire EXCEPT ![e] =
                                @ \o SubSeq(message, t.moved + 1, t.moved + n)]
        /\ t2 = Moved(t, n, next)

\* What recv stores at bytes.data() + offset.
Store(buffer, offset, bytes) ==
    [k \in 1..PayloadBytes |->
        IF k - offset \in DOMAIN bytes THEN bytes[k - offset] ELSE buffer[k]]

\* The kernel hands over n of the bytes that have arrived.
ReceiveCall(e, t, next, t2) ==
    \E n \in 1..(PayloadBytes - t.moved) :
        /\ n <= Len(wire[Other(e)])
        /\ wire' = [wire EXCEPT ![Other(e)] = SubSeq(@, n + 1, Len(@))]
        /\ t2 = Moved([t EXCEPT !.buffer =
                         Store(@, t.moved, SubSeq(wire[Other(e)], 1, n))],
                      n, next)

\* recv returns 0: everything sent has been taken and the other side has shut
\* down.
PeerClosed(e) == closed[Other(e)] /\ wire[Other(e)] = <<>>

\* The server closed early, perhaps with bytes unread: the client's calls may
\* fail at once.
Reset == closed["server"] /\ server.index < Total

------------------------------------------------------------------------------
(* The server thread.                                                      *)

\* accept the connection that is already established, set the options.
ServerStart ==
    /\ server.pc = "start"
    /\ server_state' = 1
    /\ server' = [server EXCEPT !.pc = "receive"]
    /\ UNCHANGED <<wire, closed, client, messages, faulty>>

ServerReceive ==
    /\ server.pc = "receive"
    /\ server.index < Total
    /\ ReceiveCall("server", server, "send", server')
    /\ UNCHANGED <<closed, server_state, client, messages, faulty>>

ServerSend ==
    /\ server.pc = "send"
    /\ SendCall("server", server, server.buffer, "count", server')
    /\ UNCHANGED <<closed, server_state, client, messages, faulty>>

\* After the echo: rearm TCP_QUICKACK, then count.
ServerCount ==
    /\ server.pc = "count"
    /\ messages' = messages + 1
    /\ server' = [server EXCEPT !.pc = "receive", !.index = @ + 1]
    /\ UNCHANGED <<wire, closed, server_state, client, faulty>>

\* The thread ends and closes its connection.
ServerReturn ==
    /\ server.pc = "receive"
    /\ server.index = Total
    /\ server' = [server EXCEPT !.pc = "ended"]
    /\ closed' = [closed EXCEPT !["server"] = TRUE]
    /\ UNCHANGED <<wire, server_state, client, messages, faulty>>

\* Unwinding closes the connection.
ServerThrows ==
    /\ server' = [server EXCEPT !.pc = "catch"]
    /\ closed' = [closed EXCEPT !["server"] = TRUE]
    /\ UNCHANGED <<wire, server_state, client, messages>>

\* The client has shut down, before or within a message.
ServerPeerGone ==
    /\ \/ /\ server.pc = "receive" /\ server.index < Total
          /\ PeerClosed("server")
       \/ server.pc = "send" /\ closed["client"]
    /\ ServerThrows
    /\ UNCHANGED faulty

\* A call fails of its own.
ServerFault ==
    /\ MayFail
    /\ server.pc \in {"start", "receive", "send", "count"}
    /\ ServerThrows
    /\ faulty' = TRUE

\* catch (...): keep the exception, then say so.
ServerCatch ==
    /\ server.pc = "catch"
    /\ server_state' = -1
    /\ server' = [server EXCEPT !.pc = "ended"]
    /\ UNCHANGED <<wire, closed, client, messages, faulty>>

Server == \/ ServerStart \/ ServerReceive \/ ServerSend \/ ServerCount
          \/ ServerReturn \/ ServerPeerGone \/ ServerCatch

------------------------------------------------------------------------------
(* The client thread.                                                      *)

ClientStart ==
    /\ client.pc = "start"
    /\ server_state # 0
    /\ client' = [client EXCEPT !.pc = IF server_state < 0 THEN "unwind"
                                                           ELSE "send"]
    /\ UNCHANGED <<wire, closed, server_state, server, messages, faulty>>

ClientSend ==
    /\ client.pc = "send"
    /\ client.index < Total
    /\ SendCall("client", client, Message(client.index), "receive", client')
    /\ UNCHANGED <<closed, server_state, server, messages, faulty>>

ClientReceive ==
    /\ client.pc = "receive"
    /\ ReceiveCall("client", client, "validate", client')
    /\ UNCHANGED <<closed, server_state, server, messages, faulty>>

\* Header, sequence and payload must be the message's own, in warm-up too.
ClientValidate ==
    /\ client.pc = "validate"
    /\ client' = IF client.buffer = Message(client.index)
                   THEN [client EXCEPT !.pc = "send", !.index = @ + 1]
                   ELSE [client EXCEPT !.pc = "catch"]
    /\ UNCHANGED <<wire, closed, server_state, server, messages, faulty>>

ClientThrows ==
    /\ client' = [client EXCEPT !.pc = "catch"]
    /\ UNCHANGED <<wire, closed, server_state, server, messages>>

\* The server has closed its end.
ClientPeerGone ==
    /\ \/ client.pc = "send" /\ client.index < Total /\ closed["server"]
       \/ client.pc = "receive" /\ (PeerClosed("client") \/ Reset)
    /\ ClientThrows
    /\ UNCHANGED faulty

\* A call fails of its own, or the spin watchdog finds that the exchange has
\* lasted too long.
ClientFault ==
    /\ \/ MayFail /\ client.pc \in {"send", "receive", "validate"}
       \/ Spin /\ client.pc = "receive" /\ wire["server"] = <<>>
    /\ ClientThrows
    /\ faulty' = TRUE

\* Mutant: the server's report is read without waiting for the thread.
ReportWithoutJoin ==
    /\ client.pc = "send"
    /\ client.index = Total
    /\ client' = [client EXCEPT !.pc = IF server_state < 0 \/ messages # Total
                                         THEN "threw" ELSE "returned"]
    /\ UNCHANGED <<wire, closed, server_state, server, messages, faulty>>

\* join, rethrow the server's exception, compare its count.
ClientJoin ==
    /\ client.pc = "send"
    /\ client.index = Total
    /\ server.pc = "ended"
    /\ client' = [client EXCEPT !.pc = IF server_state < 0 \/ messages # Total
                                         THEN "threw" ELSE "returned"]
    /\ UNCHANGED <<wire, closed, server_state, server, messages, faulty>>

\* Mutant: the exception handler joins without shutting the socket down.
CatchWithoutShutdown ==
    /\ client.pc = "catch"
    /\ client' = [client EXCEPT !.pc = "unwind"]
    /\ UNCHANGED <<wire, closed, server_state, server, messages, faulty>>

\* catch (...): shutdown(SHUT_RDWR), so that the server's recv returns 0.
ClientCatch ==
    /\ client.pc = "catch"
    /\ client' = [client EXCEPT !.pc = "unwind"]
    /\ closed' = [closed EXCEPT !["client"] = TRUE]
    /\ UNCHANGED <<wire, server_state, server, messages, faulty>>

\* Join the server, rethrow.
ClientUnwind ==
    /\ client.pc = "unwind"
    /\ server.pc = "ended"
    /\ client' = [client EXCEPT !.pc = "threw"]
    /\ UNCHANGED <<wire, closed, server_state, server, messages, faulty>>

Client == \/ ClientStart \/ ClientSend \/ ClientReceive \/ ClientValidate
          \/ ClientPeerGone \/ ClientJoin \/ ClientCatch \/ ClientUnwind

Over == client.pc \in {"returned", "threw"}

\* run_tcp has returned or thrown.
Ended == Over /\ UNCHANGED vars

Next == Client \/ Server \/ ClientFault \/ ServerFault \/ Ended

\* Both threads run; nothing has to fail.
Spec == Init /\ [][Next]_vars /\ WF_vars(Client) /\ WF_vars(Server)

------------------------------------------------------------------------------
Bytes == {<<n, k>> : n \in -1..(Total - 1), k \in 1..PayloadBytes}

ThreadType == [pc : {"start", "send", "receive", "count", "validate", "ended",
                     "catch", "unwind", "returned", "threw"},
               index : 0..Total, moved : 0..(PayloadBytes - 1),
               buffer : [1..PayloadBytes -> Bytes]]

\* Buffers are never overrun and the kernel never holds more than it can.
TypeOK ==
    /\ \A e \in {"client", "server"} :
          wire[e] \in Seq(Bytes) /\ Len(wire[e]) <= Buffer
    /\ closed \in [{"client", "server"} -> BOOLEAN]
    /\ server_state \in {-1, 0, 1}
    /\ server \in ThreadType /\ client \in ThreadType
    /\ messages \in 0..Total
    /\ faulty \in BOOLEAN

\* No false alarm: as long as no system call fails of its own and the watchdog
\* does not fire, no segmentation of the byte streams and no timing of the two
\* threads makes run_tcp throw; every echo validates, the counts agree and
\* neither thread finds the other gone while it still needs it.
ThrowsOnlyOnFaults == client.pc \in {"catch", "unwind", "threw"} => faulty

\* run_tcp leaves no thread behind, however it ends: the server, which refers to
\* locals of run_tcp, is joined first.
NoThreadLeftBehind == Over => server.pc = "ended"

\* run_tcp ends, whichever call fails: the shutdown in the exception handler
\* wakes a server that waits for the rest of a message without a watchdog.
Terminates == []NoThreadLeftBehind /\ <>Over
==============================================================================
