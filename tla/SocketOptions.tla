---------------------------- MODULE SocketOptions ----------------------------
(***************************************************************************)
(* The socket option helpers of lls::networking: observe or apply          *)
(* TCP_NODELAY and SO_BUSY_POLL, the latter two with a readback, and rearm *)
(* TCP_QUICKACK.  Several callers may hold the same descriptor, and an     *)
(* apply is two system calls, so one step is one setsockopt or getsockopt  *)
(* with what the helper does about its outcome.                            *)
(*                                                                         *)
(* An int has 2 * IntLimit values, -IntLimit .. IntLimit - 1; a count of   *)
(* microseconds is wider.  The kernel may refuse a call, store another     *)
(* value than it was given (one of Adjusted) or answer with a length that  *)
(* is not an int's.                                                        *)
(***************************************************************************)
EXTENDS Integers

CONSTANTS
    Callers,
    IntLimit,       \* 2^31 in the code
    Budgets,        \* microseconds callers request
    Adjusted        \* values the kernel may store instead

INT_MAX == IntLimit - 1
Ints    == (-IntLimit)..INT_MAX

ASSUME OptionAssumption ==
    /\ Callers # {}
    /\ IntLimit \in Nat \ {0, 1}
    /\ Budgets \subseteq Int
    /\ Adjusted \subseteq Ints

VARIABLES
    option,     \* what the socket stores
    call,       \* per caller: the helper in progress, or the last one's result
    deviated    \* per caller, history: since its setsockopt the kernel or another
                \* caller has made the socket differ from its request

vars == <<option, call, deviated>>

Options == {"TCP_NODELAY", "SO_BUSY_POLL", "TCP_QUICKACK"}

\* socket_option_result: a value or an error; the void one carries no value.
Success(value) == [has_value |-> TRUE,  value |-> value, error |-> "none"]
SuccessVoid    == [has_value |-> TRUE,  value |-> 0,     error |-> "none"]
Failure(error) == [has_value |-> FALSE, value |-> 0,     error |-> error]

Ready == [pc |-> "ready", option |-> "TCP_QUICKACK", readback |-> FALSE,
          requested |-> 0, value |-> 0, result |-> SuccessVoid]

Init ==
    /\ option = [o \in Options |-> 0]
    /\ call = [c \in Callers |-> Ready]
    /\ deviated = [c \in Callers |-> FALSE]

------------------------------------------------------------------------------
(* Entry of each helper.                                                   *)

\* static_cast<int>
CastInt(v) == ((v + IntLimit) % (2 * IntLimit)) - IntLimit

Enter(c, pc, o, readback, requested, value) ==
    /\ call[c].pc = "ready"
    /\ call' = [call EXCEPT ![c] = [pc |-> pc, option |-> o,
                    readback |-> readback, requested |-> requested,
                    value |-> value, result |-> SuccessVoid]]
    /\ deviated' = [deviated EXCEPT ![c] = FALSE]
    /\ UNCHANGED option

\* tcp_no_delay, busy_poll_budget
Observe(c, o) == Enter(c, "get", o, FALSE, 0, 0)

ConfigureTcpNoDelay(c, enabled) ==
    Enter(c, "set", "TCP_NODELAY", TRUE, enabled, enabled)

RearmTcpQuickAck(c) == Enter(c, "set", "TCP_QUICKACK", FALSE, 1, 1)

\* Mutant: only the sign of the request is checked.
SignCheckedOnly(requested) == requested < 0

OutOfRange(requested) == requested < 0 \/ requested > INT_MAX

ConfigureBusyPollBudget(c, requested) ==
    /\ ~OutOfRange(requested)
    /\ Enter(c, "set", "SO_BUSY_POLL", TRUE, requested, CastInt(requested))

\* The early return: the socket is not touched.
RejectBusyPollBudget(c, requested) ==
    /\ call[c].pc = "ready"
    /\ OutOfRange(requested)
    /\ call' = [call EXCEPT ![c].option = "SO_BUSY_POLL",
                            ![c].readback = TRUE,
                            ![c].requested = requested,
                            ![c].result = Failure("invalid_argument")]
    /\ deviated' = [deviated EXCEPT ![c] = FALSE]
    /\ UNCHANGED option

------------------------------------------------------------------------------
(* set_integer_socket_option.                                              *)

\* How a stored int reads: TCP_NODELAY as a bool.
Reading(o, v) == IF o = "TCP_NODELAY" THEN (IF v # 0 THEN 1 ELSE 0) ELSE v

\* setsockopt succeeds.  This caller, and everybody who is between set and get
\* on the same option, will read what is stored now.
SetOption(c) ==
    LET o == call[c].option IN
    /\ call[c].pc = "set"
    /\ \E kept \in {call[c].value} \cup Adjusted :
        /\ option' = [option EXCEPT ![o] = kept]
        /\ deviated' = [d \in Callers |->
                IF d = c \/ (call[d].option = o /\ call[d].pc = "get")
                  THEN Reading(o, kept) # call[d].requested
                  ELSE deviated[d]]
    /\ call' = IF call[c].readback
                 THEN [call EXCEPT ![c].pc = "get"]
                 ELSE [call EXCEPT ![c].pc = "ready", ![c].result = SuccessVoid]

Finish(c, result) ==
    call' = [call EXCEPT ![c].pc = "ready", ![c].result = result]

\* setsockopt or getsockopt fails: the errno is the result, nothing is stored.
SystemCallFails(c) ==
    /\ call[c].pc \in {"set", "get"}
    /\ Finish(c, Failure("errno"))
    /\ UNCHANGED <<option, deviated>>

------------------------------------------------------------------------------
(* integer_socket_option and what each helper makes of it.                 *)

\* The answer is not as long as an int.
ShortAnswer(c) ==
    /\ call[c].pc = "get"
    /\ deviated' = [deviated EXCEPT ![c] = TRUE]
    /\ Finish(c, Failure("protocol_error"))
    /\ UNCHANGED option

\* Mutant: TCP_NODELAY is compared as the int it is stored as.
RawReading(c) == option[call[c].option]

Observed(c) == Reading(call[c].option, option[call[c].option])

\* Mutant: a readback that differs is returned as the value.
NeverDiffers(c) == FALSE

Differs(c) == call[c].readback /\ Observed(c) # call[c].requested

NegativeBudget(c) == call[c].option = "SO_BUSY_POLL" /\ Observed(c) < 0

GetOption(c) ==
    /\ call[c].pc = "get"
    /\ Finish(c, IF NegativeBudget(c) \/ Differs(c)
                   THEN Failure("protocol_error") ELSE Success(Observed(c)))
    /\ UNCHANGED <<option, deviated>>

\* The kernel leaves quick-ACK mode by itself.
QuickAckWearsOff ==
    /\ option["TCP_QUICKACK"] # 0
    /\ option' = [option EXCEPT !["TCP_QUICKACK"] = 0]
    /\ UNCHANGED <<call, deviated>>

Next ==
    \/ \E c \in Callers :
        \/ \E o \in {"TCP_NODELAY", "SO_BUSY_POLL"} : Observe(c, o)
        \/ \E enabled \in 0..1 : ConfigureTcpNoDelay(c, enabled)
        \/ RearmTcpQuickAck(c)
        \/ \E requested \in Budgets : \/ ConfigureBusyPollBudget(c, requested)
                                      \/ RejectBusyPollBudget(c, requested)
        \/ SetOption(c) \/ SystemCallFails(c)
        \/ ShortAnswer(c) \/ GetOption(c)
    \/ QuickAckWearsOff

Spec == Init /\ [][Next]_vars

------------------------------------------------------------------------------
CallType == [pc : {"ready", "set", "get"}, option : Options, readback : BOOLEAN,
             requested : Int, value : Ints,
             result : [has_value : BOOLEAN, value : Ints,
                       error : {"none", "errno", "protocol_error",
                                "invalid_argument"}]]

\* An int never holds a value out of its range, the socket's options included;
\* a result has a value or an error.
TypeOK ==
    /\ option \in [Options -> Ints]
    /\ call \in [Callers -> CallType]
    /\ \A c \in Callers : call[c].result.has_value <=> call[c].result.error = "none"
    /\ deviated \in [Callers -> BOOLEAN]

\* Caller c's last helper was an apply of option o, and it was told success.
Applied(c, o) == /\ call[c].pc = "ready" /\ call[c].result.has_value
                 /\ call[c].readback /\ call[c].option = o

\* However configure_tcp_no_delay or configure_busy_poll_budget of several callers
\* race between their two system calls, and whatever the kernel makes of their
\* values: when all of them have been told success, what the socket holds is
\* what one of them has asked for, never a value nobody was told of.
RacingAppliesAgree ==
    \A o \in {"TCP_NODELAY", "SO_BUSY_POLL"} :
        (\A c \in Callers : Applied(c, o)) =>
            \E c \in Callers : Reading(o, option[o]) = call[c].requested

\* The int given to setsockopt is the count of microseconds that was requested:
\* a request that does not fit is refused before the narrowing conversion.
NarrowingIsExact ==
    \A c \in Callers :
        call[c].pc = "set" => call[c].value = call[c].requested

\* An apply reports protocol_error only when the kernel or another caller made
\* the socket differ from the request, or the kernel's answer was malformed: a
\* helper never disputes a socket that does what it was asked to do.
ErrorsAreReal ==
    \A c \in Callers :
        call[c].readback /\ call[c].result.error = "protocol_error" => deviated[c]

\* Nobody is ever told of a negative busy-poll budget, however the kernel came
\* to store one and whichever of the two helpers reads it.
BudgetsAreDurations ==
    \A c \in Callers :
        /\ call[c].pc = "ready" /\ call[c].option = "SO_BUSY_POLL"
        /\ call[c].result.has_value
        => call[c].result.value >= 0
==============================================================================
