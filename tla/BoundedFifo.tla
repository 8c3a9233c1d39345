----------------------------- MODULE BoundedFifo -----------------------------
(***************************************************************************)
(* What the queues that the disruptor is measured against promise: the     *)
(* values 0, 1, 2, ... of one pushing thread come out once each and in     *)
(* order, and at most Bound of them are inside.                            *)
(***************************************************************************)
EXTENDS Naturals, Sequences

CONSTANTS Bound,
          Nothing     \* what has been taken out before the first value

VARIABLES contents,   \* the values inside, oldest first
          sent,       \* how many have been pushed
          got         \* the value taken out last

fifoVars == <<contents, sent, got>>

FifoInit == contents = <<>> /\ sent = 0 /\ got = Nothing

Push ==
    /\ Len(contents) < Bound
    /\ contents' = Append(contents, sent)
    /\ sent' = sent + 1
    /\ UNCHANGED got

Pop ==
    /\ contents # <<>>
    /\ got' = Head(contents)
    /\ contents' = Tail(contents)
    /\ UNCHANGED sent

FifoSpec == FifoInit /\ [][Push \/ Pop]_fifoVars
==============================================================================
