--------------------------- MODULE MulticastStream ---------------------------
(***************************************************************************)
(* What single_producer_disruptor promises, without ring, cursors or       *)
(* caches: a stream whose every event reaches every consumer, once and in  *)
(* publication order; batches appear as a whole; and no consumer is ever   *)
(* more than Capacity events behind (backpressure instead of dropping or   *)
(* overwriting).  An event is identified by its sequence, an unsigned      *)
(* number that rolls over to 0 after Wrap - 1.                             *)
(***************************************************************************)
EXTENDS Naturals, Sequences

CONSTANTS Wrap, Capacity, Consumers

VARIABLES tail,     \* the sequence the next published event will get
          pending   \* pending[c]: published events c has not handled yet

streamVars == <<tail, pending>>

\* The n events that follow sequence t.
Batch(t, n) == [i \in 1..n |-> (t + i - 1) % Wrap]

StreamInit ==
    /\ tail \in 0..(Wrap - 1)
    /\ pending = [c \in Consumers |-> <<>>]

\* A batch of n events becomes visible to all consumers at once, if each has
\* room for all of it.
Broadcast(n) ==
    /\ \A c \in Consumers : Len(pending[c]) + n <= Capacity
    /\ tail' = (tail + n) % Wrap
    /\ pending' = [c \in Consumers |-> pending[c] \o Batch(tail, n)]

\* Consumer c handles its oldest pending event.
Deliver(c) ==
    /\ pending[c] # <<>>
    /\ pending' = [pending EXCEPT ![c] = SubSeq(@, 2, Len(@))]
    /\ UNCHANGED tail

StreamNext ==
    \/ \E n \in 1..Capacity : Broadcast(n)
    \/ \E c \in Consumers : Deliver(c)

StreamSpec == StreamInit /\ [][StreamNext]_streamVars
==============================================================================
