------------------------------- MODULE UdpEcho -------------------------------
(***************************************************************************)
(* run_udp of the socket-latency scenario: a client thread sends numbered  *)
(* requests one at a time, each with an absolute deadline, and a server    *)
(* thread echoes whatever is well formed until it is cancelled.  Warm-up   *)
(* requests must all be answered; a measured request may miss its          *)
(* deadline, and its answer may then turn up while a later one is awaited. *)
(*                                                                         *)
(* The network loses datagrams when they are sent, delays them (a receive  *)
(* need not see what is queued), copies and swaps queued ones and, on      *)
(* unconnected sockets, delivers datagrams of other processes; Disturbances*)
(* bounds how often it copies, swaps or delivers a stray.                  *)
(*                                                                         *)
(* Payloads are abstracted to what the checks tell apart (kind), time to   *)
(* whether the current deadline has passed.                                *)
(***************************************************************************)
EXTENDS Integers, Sequences, FiniteSets

CONSTANTS
    Warmup, Samples,   \* configuration.warmup, configuration.samples
    Connected,         \* profile.udp_connected
    MayFail,           \* socket calls may fail
    Strays,            \* datagrams other processes may send
    Disturbances       \* bound on copies, swaps and strays

Total     == Warmup + Samples
Sequences == 0..(Total - 1)
Measured  == Warmup..(Total - 1)

\* "long" exceeds the receive buffer, "short" is smaller than the message,
\* "header" has another magic, version or protocol, "body" another payload.
Kinds    == {"whole", "long", "short", "header", "body"}
Datagram == [kind : Kinds, seq : 0..Total, from : {"client", "server", "other"}]

ASSUME UdpAssumption ==
    /\ Warmup \in Nat /\ Samples \in Nat
    /\ Connected \in BOOLEAN /\ MayFail \in BOOLEAN
    /\ Disturbances \in Nat
    /\ Strays \subseteq {d \in Datagram : d.from = "other"}
    /\ Connected => Strays = {}

VARIABLES
    requests, responses,      \* queued for the server and for the client
    disturbed,                \* how often the network has done what
    cancellation_requested,
    server_state,             \* 0 starting, 1 serving, 2 stopped, -1 failed
    server,                   \* the server thread and its server_report
    client,                   \* the client thread and its counters
    expired,                  \* the deadline of the current request has passed
    echoed                    \* history: sequences echoed to the client

network == <<requests, responses, disturbed>>
vars == <<network, cancellation_requested, server_state, server, client,
          expired, echoed>>

Request(n) == [kind |-> "whole", seq |-> n, from |-> "client"]

\* high is high_water, -1 while high_water_valid is false.
Counters == [seen |-> {}, high |-> -1, duplicates |-> 0, reordered |-> 0,
             invalid |-> 0, truncated |-> 0]

Init ==
    /\ requests = <<>> /\ responses = <<>>
    /\ disturbed = [copy |-> 0, swap |-> 0, stray |-> 0]
    /\ cancellation_requested = FALSE
    /\ server_state = 0
    /\ server = [pc |-> "start", datagram |-> Request(0), count |-> Counters]
    /\ client = [pc |-> "start", index |-> 0, completed |-> <<>>,
                 count |-> Counters]
    /\ expired = FALSE
    /\ echoed = {}

------------------------------------------------------------------------------
(* The network.                                                            *)

\* A datagram that is sent is queued or lost.
Sent(queue, d) == {queue, Append(queue, d)}

Copy(queue, i) == SubSeq(queue, 1, i) \o SubSeq(queue, i, Len(queue))

Swap(queue, i) == [queue EXCEPT ![i] = queue[i + 1], ![i + 1] = queue[i]]

Disturb(what) ==
    /\ disturbed.copy + disturbed.swap + disturbed.stray < Disturbances
    /\ disturbed' = [disturbed EXCEPT ![what] = @ + 1]
    /\ UNCHANGED <<cancellation_requested, server_state, server, client,
                   expired, echoed>>

CopyDatagram ==
    /\ Disturb("copy")
    /\ \/ /\ \E i \in DOMAIN requests : requests' = Copy(requests, i)
          /\ UNCHANGED responses
       \/ /\ \E i \in DOMAIN responses : responses' = Copy(responses, i)
          /\ UNCHANGED requests

SwapDatagrams ==
    /\ Disturb("swap")
    /\ \/ /\ \E i \in 1..(Len(requests) - 1) : requests' = Swap(requests, i)
          /\ UNCHANGED responses
       \/ /\ \E i \in 1..(Len(responses) - 1) : responses' = Swap(responses, i)
          /\ UNCHANGED requests

StrayDatagram ==
    /\ Disturb("stray")
    /\ \E d \in Strays :
          \/ requests' = Append(requests, d) /\ UNCHANGED responses
          \/ responses' = Append(responses, d) /\ UNCHANGED requests

------------------------------------------------------------------------------
(* The accounting both threads do of a measured sequence.                  *)

Bump(count, field) == [count EXCEPT ![field] = @ + 1]

\* Mutant: the first arrival of any older sequence than the awaited one counts
\* as reordered, so an answer that is merely late does.
FirstArrivalBehindAwaited(count, n) ==
    [count EXCEPT !.seen = @ \cup {n},
                  !.reordered = IF n < client.index THEN @ + 1 ELSE @,
                  !.high = IF n > @ THEN n ELSE @]

\* First arrival of n: reordered if a later one came before it.
FirstArrival(count, n) ==
    [count EXCEPT !.seen = @ \cup {n},
                  !.reordered = IF n < count.high THEN @ + 1 ELSE @,
                  !.high = IF n > @ THEN n ELSE @]

------------------------------------------------------------------------------
(* The server thread.                                                      *)

ServerStart ==
    /\ server.pc = "start"
    /\ server_state' = 1
    /\ server' = [server EXCEPT !.pc = "check"]
    /\ UNCHANGED <<network, cancellation_requested, client, expired, echoed>>

\* Pinning the thread, poll, recvmsg, sendto and the affinity checks throw.
ServerThrows ==
    /\ MayFail
    /\ server.pc \in {"start", "receive", "echo", "count", "stop"}
    /\ server_state' = -1
    /\ server' = [server EXCEPT !.pc = "ended"]
    /\ UNCHANGED <<network, cancellation_requested, client, expired, echoed>>

\* Mutant: the receive loop does not look at cancellation_requested.
ServerNeverCancelled ==
    /\ server.pc = "check"
    /\ server' = [server EXCEPT !.pc = "receive"]
    /\ UNCHANGED <<network, cancellation_requested, server_state, client,
                   expired, echoed>>

\* Both wait strategies look at cancellation_requested before every wait.
ServerCheck ==
    /\ server.pc = "check"
    /\ server' = [server EXCEPT !.pc = IF cancellation_requested THEN "stop"
                                                                 ELSE "receive"]
    /\ UNCHANGED <<network, cancellation_requested, server_state, client,
                   expired, echoed>>

\* poll or the nonblocking recvmsg came back with nothing.
ServerNotReady ==
    /\ server.pc = "receive"
    /\ server' = [server EXCEPT !.pc = "check"]
    /\ UNCHANGED <<network, cancellation_requested, server_state, client,
                   expired, echoed>>

\* Why the server drops a datagram: a counter, or "none" when it is echoed.
ServerRejects(d) ==
    CASE d.kind = "long"                -> "truncated"
      [] d.kind \in {"short", "header"} -> "invalid"
      [] d.seq >= Total                 -> "invalid"
      [] OTHER                          -> "none"

ServerReceive ==
    LET d == Head(requests)
        reason == ServerRejects(d)
    IN  /\ server.pc = "receive"
        /\ requests # <<>>
        /\ requests' = Tail(requests)
        /\ server' = IF reason = "none"
                       THEN [server EXCEPT !.pc = "echo", !.datagram = d]
                       ELSE [server EXCEPT !.pc = "check",
                                           !.count = Bump(@, reason)]
        /\ UNCHANGED <<responses, disturbed, cancellation_requested,
                       server_state, client, expired, echoed>>

\* send_profile_datagram: to the connected peer, or to where d came from.
ServerEcho ==
    LET d == server.datagram IN
    /\ server.pc = "echo"
    /\ server' = [server EXCEPT !.pc = "count"]
    /\ IF d.from = "client"
         THEN /\ responses' \in Sent(responses, [d EXCEPT !.from = "server"])
              /\ echoed' = echoed \cup {d.seq}
         ELSE UNCHANGED <<responses, echoed>>
    /\ UNCHANGED <<requests, disturbed, cancellation_requested, server_state,
                   client, expired>>

\* After the echo is on its way: warm-up is not accounted for.
ServerCount ==
    LET n == server.datagram.seq IN
    /\ server.pc = "count"
    /\ server' = [server EXCEPT !.pc = "check",
         !.count = IF n < Warmup      THEN @
                   ELSE IF n \in @.seen THEN Bump(@, "duplicates")
                   ELSE FirstArrival(@, n)]
    /\ UNCHANGED <<network, cancellation_requested, server_state, client,
                   expired, echoed>>

ServerStop ==
    /\ server.pc = "stop"
    /\ server_state' = 2
    /\ server' = [server EXCEPT !.pc = "ended"]
    /\ UNCHANGED <<network, cancellation_requested, client, expired, echoed>>

Server == \/ ServerStart \/ ServerCheck \/ ServerNotReady \/ ServerReceive
          \/ ServerEcho \/ ServerCount \/ ServerStop

------------------------------------------------------------------------------
(* The client thread.                                                      *)

\* Wait for the server; one that failed already is joined at once.
ClientStart ==
    /\ client.pc = "start"
    /\ server_state # 0
    /\ client' = [client EXCEPT !.pc = IF server_state < 0 THEN "cancel"
                                                           ELSE "send"]
    /\ UNCHANGED <<network, cancellation_requested, server_state, server,
                   expired, echoed>>

ClientSend ==
    /\ client.pc = "send"
    /\ client.index < Total
    /\ requests' \in Sent(requests, Request(client.index))
    /\ client' = [client EXCEPT !.pc = "wait"]
    /\ expired' = FALSE
    /\ UNCHANGED <<responses, disturbed, cancellation_requested, server_state,
                   server, echoed>>

\* The socket calls, the RTT check and the final affinity check throw.
ClientThrows ==
    /\ MayFail
    /\ client.pc \in {"send", "wait", "receive"}
    /\ client' = [client EXCEPT !.pc = "cancel"]
    /\ UNCHANGED <<network, cancellation_requested, server_state, server,
                   expired, echoed>>

DeadlinePasses ==
    /\ client.pc \in {"wait", "receive"}
    /\ ~expired
    /\ expired' = TRUE
    /\ UNCHANGED <<network, cancellation_requested, server_state, server,
                   client, echoed>>

\* receive_udp_until: no more looking once the deadline has passed.
ClientWait ==
    /\ client.pc = "wait"
    /\ IF expired
         THEN client' = [client EXCEPT !.pc = IF client.index < Warmup
                                                THEN "cancel" ELSE "missed"]
         ELSE /\ responses # <<>>
              /\ client' = [client EXCEPT !.pc = "receive"]
    /\ UNCHANGED <<network, cancellation_requested, server_state, server,
                   expired, echoed>>

\* Mutant: the sender's endpoint is not compared.
AnyEndpoint(d) == TRUE

\* A connected socket only delivers its peer's datagrams.
FromServer(d) == Connected \/ d.from = "server"

\* One wrong datagram ends the warm-up.
WarmupReceive(d) ==
    client' = IF d.kind = "whole" /\ FromServer(d) /\ d.seq = client.index
                THEN [client EXCEPT !.pc = "send", !.index = @ + 1]
                ELSE [client EXCEPT !.pc = "cancel"]

ClientRejects(d) ==
    CASE d.kind = "long"                              -> "truncated"
      [] d.kind = "short" \/ ~FromServer(d)           -> "invalid"
      [] d.kind = "header" \/ d.seq \notin Measured   -> "invalid"
      [] d.kind = "body"                              -> "invalid"
      [] d.seq \in client.count.seen                  -> "duplicates"
      [] OTHER                                        -> "none"

\* Only the answer to the awaited request, taken before its deadline, is a
\* sample; after anything else the wait goes on.
MeasuredReceive(d) ==
    LET reason == ClientRejects(d) IN
    client' =
        IF reason # "none"
          THEN [client EXCEPT !.pc = "wait", !.count = Bump(@, reason)]
          ELSE IF d.seq # client.index \/ expired
            THEN [client EXCEPT !.pc = "wait",
                                !.count = FirstArrival(@, d.seq)]
            ELSE [client EXCEPT !.pc = "send", !.index = @ + 1,
                                !.count = FirstArrival(@, d.seq),
                                !.completed = Append(@, d.seq)]

ClientReceive ==
    /\ client.pc = "receive"
    /\ IF client.index < Warmup THEN WarmupReceive(Head(responses))
                                ELSE MeasuredReceive(Head(responses))
    /\ responses' = Tail(responses)
    /\ UNCHANGED <<requests, disturbed, cancellation_requested, server_state,
                   server, expired, echoed>>

\* A missed deadline is an error only if the server has failed.
ClientMissed ==
    /\ client.pc = "missed"
    /\ client' = IF server_state < 0
                   THEN [client EXCEPT !.pc = "cancel"]
                   ELSE [client EXCEPT !.pc = "send", !.index = @ + 1]
    /\ UNCHANGED <<network, cancellation_requested, server_state, server,
                   expired, echoed>>

\* All requests sent: cancel the server and join it.
ClientFinish ==
    /\ client.pc = "send"
    /\ client.index = Total
    /\ cancellation_requested' = TRUE
    /\ client' = [client EXCEPT !.pc = "join"]
    /\ UNCHANGED <<network, server_state, server, expired, echoed>>

Completed == {client.completed[i] : i \in DOMAIN client.completed}
DeadlineMisses == Samples - Len(client.completed)
RequestsUnobserved == Samples - Cardinality(server.count.seen)

\* Mutant: the accounts are drawn up without waiting for the server.
AccountWithoutJoin ==
    /\ client.pc = "join"
    /\ client' = [client EXCEPT !.pc =
         IF server_state < 0 THEN "threw"
         ELSE IF RequestsUnobserved > DeadlineMisses THEN "inconsistent"
         ELSE "returned"]
    /\ UNCHANGED <<network, cancellation_requested, server_state, server,
                   expired, echoed>>

\* join, rethrow the server's exception, draw up the accounts.
ClientJoin ==
    /\ client.pc = "join"
    /\ server.pc = "ended"
    /\ client' = [client EXCEPT !.pc =
         IF server_state < 0 THEN "threw"
         ELSE IF RequestsUnobserved > DeadlineMisses THEN "inconsistent"
         ELSE "returned"]
    /\ UNCHANGED <<network, cancellation_requested, server_state, server,
                   expired, echoed>>

\* catch (...): cancel, then join, then rethrow.
ClientCatch ==
    /\ \/ client.pc = "cancel" /\ client' = [client EXCEPT !.pc = "unwind"]
       \/ /\ client.pc = "unwind"
          /\ server.pc = "ended"
          /\ client' = [client EXCEPT !.pc = "threw"]
    /\ cancellation_requested' = TRUE
    /\ UNCHANGED <<network, server_state, server, expired, echoed>>

Client == \/ ClientStart \/ ClientSend \/ ClientWait \/ ClientReceive
          \/ ClientMissed \/ ClientFinish \/ ClientJoin \/ ClientCatch

Over == client.pc \in {"returned", "threw", "inconsistent"}

\* run_udp has returned or thrown.
Ended == Over /\ UNCHANGED vars

Next == \/ Client \/ Server \/ DeadlinePasses
        \/ ClientThrows \/ ServerThrows
        \/ CopyDatagram \/ SwapDatagrams \/ StrayDatagram
        \/ Ended

\* Both threads run, and time passes; nothing has to fail.
Spec == /\ Init /\ [][Next]_vars
        /\ WF_vars(Client) /\ WF_vars(Server) /\ WF_vars(DeadlinePasses)

------------------------------------------------------------------------------
Happened(what) == disturbed[what] > 0

Counted(field) == client.count[field] + server.count[field] > 0

\* The accounts of a finished run add up: every sample belongs to a request the
\* server had counted by the time it was joined, so "inconsistent UDP deadline
\* accounting" is never thrown and the misses split exactly into unobserved
\* requests and late or lost answers.  Whatever arrives, indices stay inside
\* measured_seen and response_seen.
AccountsAddUp ==
    /\ server.count.seen \cup client.count.seen \subseteq Measured
    /\ client.pc # "inconsistent"
    /\ client.pc = "returned" => Completed \subseteq server.count.seen

\* A sample is an answer of this server to the request it is attributed to: it
\* was echoed, and samples are taken in request order, each at most once.
SamplesAreAnswers ==
    /\ Completed \subseteq echoed
    /\ \A i, j \in DOMAIN client.completed :
          i < j => client.completed[i] < client.completed[j]

\* An anomaly is reported only if the network produced one: lost datagrams and
\* answers that arrive after their deadline never count as duplicates, as
\* reordered, as invalid or as truncated messages.
AnomaliesAreReal ==
    /\ Counted("duplicates") => Happened("copy") \/ Happened("stray")
    /\ Counted("reordered") => Happened("swap") \/ Happened("stray")
    /\ Counted("invalid") => Happened("copy") \/ Happened("stray")
    /\ Counted("truncated") => Happened("stray")

\* run_udp leaves no thread behind, however it ends: the server is joined first,
\* because it refers to locals of run_udp and its std::thread would terminate
\* the process.
NoThreadLeftBehind == Over => server.pc = "ended"

\* Whatever is lost, late or failing, run_udp ends: the server it waits for is
\* cancelled.
Terminates == []NoThreadLeftBehind /\ <>Over
==============================================================================
