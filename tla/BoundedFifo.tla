---------------------------- MODULE BoundedFifo ----------------------------
(***************************************************************************)
(* What SpscRingBuffer promises its two threads: a FIFO queue of at most    *)
(* Capacity published chunks.  A chunk is delivered once, whole and in the  *)
(* order it was published, or it is still queued.                           *)
(***************************************************************************)
EXTENDS Naturals, Sequences

CONSTANTS Item,      \* published chunks
          Capacity   \* slots

VARIABLE queue

FifoInit == queue = <<>>

\* commit() publishes one more chunk behind those already queued.
Put(x) ==
    /\ Len(queue) < Capacity
    /\ queue' = Append(queue, x)

\* release() gives the oldest slot back.
Get ==
    /\ queue # <<>>
    /\ queue' = Tail(queue)

FifoNext == (\E x \in Item : Put(x)) \/ Get

FifoSpec == FifoInit /\ [][FifoNext]_queue
=============================================================================
