--------------------------- MODULE MulticastClient ---------------------------
(***************************************************************************)
(* examples/basic.cpp: the main thread spawns one thread per consumer,     *)
(* opens a start gate, publishes EventCount events in batches through a    *)
(* producer handle, retrying on backpressure, and joins the consumers,     *)
(* each of which polls its handle until it has counted EventCount events.  *)
(* The disruptor is the module Disruptor, step for step.                   *)
(***************************************************************************)
EXTENDS Disruptor

CONSTANTS EventCount,   \* event_count
          BatchSize,    \* the literal 64
          Producer      \* the producer handle of main

ASSUME ClientAssumption ==
    /\ EventCount \in Nat
    /\ BatchSize \in 1..Capacity
    /\ Producer \in Handles

VARIABLES main,      \* "spawned", "gateOpen", "publishing", "joined"
          thread,    \* per consumer: "new", "waiting", "polling", "returned"
          counted,   \* published: events main has counted as published
          consumed   \* per consumer: its local count

clientVars == <<main, thread, counted, consumed>>
allVars == <<vars, clientVars>>

ClientInit ==
    /\ Init
    /\ main = "spawned"
    /\ thread = [c \in Consumers |-> "new"]
    /\ counted = 0
    /\ consumed = [c \in Consumers |-> 0]

------------------------------------------------------------------------------
(* The main thread.                                                        *)

OpenGate ==
    /\ main = "spawned"
    /\ main' = "gateOpen"
    /\ UNCHANGED <<vars, thread, counted, consumed>>

MakeHandle ==
    /\ main = "gateOpen"
    /\ MakeProducer(Producer)
    /\ main' = "publishing"
    /\ UNCHANGED <<thread, counted, consumed>>

\* Mutant: the last, short batch is never asked for.
FullBatchesOnly == BatchSize

\* The last batch is as short as what remains.
NextBatch == IF EventCount - counted < BatchSize
               THEN EventCount - counted ELSE BatchSize

\* One turn of the publication loop; after a rejection the loop comes back here.
TryPublishNext ==
    /\ main = "publishing"
    /\ counted < EventCount
    /\ TryPublishBatch(Producer, NextBatch)
    /\ UNCHANGED clientVars

InsideTryPublish ==
    /\ CheckBlocker \/ ScanConsumer \/ FinishRefresh \/ WriteEvent
    /\ UNCHANGED clientVars

CountPublished ==
    /\ Publish
    /\ counted' = counted + call.count
    /\ UNCHANGED <<main, thread, consumed>>

\* risk.join(), journal.join(), then the handle's destructor.
JoinAll ==
    /\ main = "publishing"
    /\ counted >= EventCount
    /\ \A c \in Consumers : thread[c] = "returned"
    /\ DestroyProducer(Producer)
    /\ main' = "joined"
    /\ UNCHANGED <<thread, counted, consumed>>

MainThread == \/ OpenGate \/ MakeHandle \/ TryPublishNext \/ InsideTryPublish
              \/ CountPublished \/ JoinAll

------------------------------------------------------------------------------
(* A consumer thread.                                                      *)

MakeItsHandle(c) ==
    /\ thread[c] = "new"
    /\ MakeConsumer(c)
    /\ thread' = [thread EXCEPT ![c] = "waiting"]
    /\ UNCHANGED <<main, counted, consumed>>

PassGate(c) ==
    /\ thread[c] = "waiting"
    /\ main # "spawned"
    /\ thread' = [thread EXCEPT ![c] = "polling"]
    /\ UNCHANGED <<vars, main, counted, consumed>>

Poll(c) ==
    /\ thread[c] = "polling"
    /\ consumed[c] < EventCount
    /\ ConsumeCached(c, BatchSize) \/ ConsumeReloading(c, BatchSize)
    /\ UNCHANGED clientVars

HandleOne(c) ==
    /\ HandleEvent(c)
    /\ UNCHANGED clientVars

CountConsumed(c) ==
    /\ Release(c)
    /\ consumed' = [consumed EXCEPT ![c] = @ + take[c].count]
    /\ UNCHANGED <<main, thread, counted>>

Return(c) ==
    /\ thread[c] = "polling"
    /\ consumed[c] >= EventCount
    /\ DropConsumer(c)
    /\ thread' = [thread EXCEPT ![c] = "returned"]
    /\ UNCHANGED <<main, counted, consumed>>

ConsumerThread(c) == \/ MakeItsHandle(c) \/ PassGate(c) \/ Poll(c)
                     \/ HandleOne(c) \/ CountConsumed(c) \/ Return(c)

Memory(c) == /\ PublishedPropagates(c) \/ ReleasePropagates(c)
             /\ UNCHANGED clientVars

\* The process has ended; nothing moves any more.
Ended == main = "joined" /\ UNCHANGED allVars

ClientNext == \/ MainThread
              \/ \E c \in Consumers : ConsumerThread(c) \/ Memory(c)
              \/ Ended

\* The scheduler runs every thread again and again, and a store becomes visible
\* to the other threads in finite time.
Fairness == /\ WF_allVars(MainThread)
            /\ \A c \in Consumers : /\ WF_allVars(ConsumerThread(c))
                                    /\ WF_allVars(Memory(c))

ClientSpec == ClientInit /\ [][ClientNext]_allVars /\ Fairness

------------------------------------------------------------------------------
\* Retrying on backpressure and polling until EventCount events have been
\* counted ends: no batch is refused for ever, no consumer waits for an event
\* that never comes, and main gets past both joins.
Terminates == <>(main = "joined")

\* When a consumer thread returns it has taken exactly the events of the stream,
\* none twice and none of a batch beyond them, and the ring holds nothing for it.
ReturnsWithTheWholeStream ==
    \A c \in Consumers :
        thread[c] = "returned" =>
            consumed[c] = EventCount /\ counted = EventCount
               /\ consumers[c] = published
==============================================================================
