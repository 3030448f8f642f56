------------------------------ MODULE SpscRing ------------------------------
(***************************************************************************)
(* common/util/SpscRingBuffer: the lock-free single-producer single-        *)
(* consumer ring between the thread that receives and the thread that       *)
(* parses (server), and between the file reader and the network loop        *)
(* (client).                                                                *)
(*                                                                         *)
(* The interleaving is that of single loads and stores.  An acquire load of *)
(* the other thread's index is not promised the newest value: it returns    *)
(* any value between the last one this thread saw and the current one       *)
(* (seenHead, seenTail).  Whatever was stored before the release store of   *)
(* the value that is read is visible, so slots need no stale copies.        *)
(***************************************************************************)
EXTENDS Integers, Sequences

CONSTANTS SlotCount,   \* _slotCount
          Data,        \* contents a slot's storage can hold
          Size,        \* byte counts passed to commit()
          MaxIndex     \* bound on the monotone u64 indices

ASSUME SlotCountAssumption == SlotCount \in Nat \ {0}
ASSUME MaxIndexAssumption == MaxIndex \in Nat

VARIABLES storage,     \* _storage, one entry per slot
          sizes,       \* _sizes
          head,        \* _head, advanced by the consumer
          tail,        \* _tail, advanced by the producer
          producer,    \* [pc, seenHead]: the producer between its calls
          consumer     \* [pc, seenTail, view]: the consumer between its calls

vars == <<storage, sizes, head, tail, producer, consumer>>

Slot == 0 .. SlotCount - 1
Item == Data \X Size
Index == 0 .. MaxIndex
Zeroed == 0            \* both arrays start zero-filled

SlotOf(i) == i % SlotCount
ItemAt(i) == <<storage[SlotOf(i)], sizes[SlotOf(i)]>>

Init ==
    /\ storage = [i \in Slot |-> Zeroed]
    /\ sizes = [i \in Slot |-> Zeroed]
    /\ head = 0
    /\ tail = 0
    /\ producer = [pc |-> "idle", seenHead |-> 0]
    /\ consumer = [pc |-> "idle", seenTail |-> 0, view |-> <<>>]
-----------------------------------------------------------------------------
(* Producer: tryAcquire(), the write into the slot, commit(). *)

Full(h) == tail - h = SlotCount

\* Faulty variant: the slot is lent without a look at the consumer's index.
TryAcquireUnchecked ==
    /\ producer.pc = "idle"
    /\ tail < MaxIndex
    /\ producer' = [producer EXCEPT !.pc = "acquired"]
    /\ UNCHANGED <<storage, sizes, head, tail, consumer>>

TryAcquire ==
    /\ producer.pc = "idle"
    /\ tail < MaxIndex
    /\ \E h \in producer.seenHead .. head :
          /\ ~Full(h)
          /\ producer' = [pc |-> "acquired", seenHead |-> h]
    /\ UNCHANGED <<storage, sizes, head, tail, consumer>>

\* tryAcquire() or full() finds the ring full: the caller stops reading.
FindFull ==
    /\ producer.pc = "idle"
    /\ \E h \in producer.seenHead .. head :
          /\ Full(h)
          /\ producer' = [producer EXCEPT !.seenHead = h]
    /\ UNCHANGED <<storage, sizes, head, tail, consumer>>

\* The kernel (server) or read() (client) fills the slot that was lent out.
Fill(d) ==
    /\ producer.pc \in {"acquired", "filled"}
    /\ storage' = [storage EXCEPT ![SlotOf(tail)] = d]
    /\ producer' = [producer EXCEPT !.pc = "filled"]
    /\ UNCHANGED <<sizes, head, tail, consumer>>

\* A read that delivered nothing: the slot is not committed and the next
\* tryAcquire() lends it out again.
Abandon ==
    /\ producer.pc \in {"acquired", "filled"}
    /\ producer' = [producer EXCEPT !.pc = "idle"]
    /\ UNCHANGED <<storage, sizes, head, tail, consumer>>

\* commit(), its first store: the size of the slot.
CommitSize(n) ==
    /\ producer.pc = "filled"
    /\ sizes' = [sizes EXCEPT ![SlotOf(tail)] = n]
    /\ producer' = [producer EXCEPT !.pc = "sized"]
    /\ UNCHANGED <<storage, head, tail, consumer>>

\* Faulty variant: the slot is published before its size is stored.
CommitTailFirst ==
    /\ producer.pc \in {"filled", "sized"}
    /\ tail' = tail + 1
    /\ producer' = [producer EXCEPT !.pc = "idle"]
    /\ UNCHANGED <<storage, sizes, head, consumer>>

\* commit(), its release store: ownership of the slot moves to the consumer.
CommitTail ==
    /\ producer.pc = "sized"
    /\ tail' = tail + 1
    /\ producer' = [producer EXCEPT !.pc = "idle"]
    /\ UNCHANGED <<storage, sizes, head, consumer>>
-----------------------------------------------------------------------------
(* Consumer: tryPeek(), the use of the view, release(). *)

\* Faulty variant: a slot given back while it is viewed.
TryPeekReleasing ==
    /\ consumer.pc = "idle"
    /\ tail # head
    /\ head' = head + 1
    /\ consumer' = [pc |-> "viewing", seenTail |-> tail, view |-> ItemAt(head)]
    /\ UNCHANGED <<storage, sizes, tail, producer>>

TryPeek ==
    /\ consumer.pc = "idle"
    /\ \E t \in consumer.seenTail .. tail :
          /\ t # head
          /\ consumer' = [pc |-> "viewing", seenTail |-> t, view |-> ItemAt(head)]
    /\ UNCHANGED <<storage, sizes, head, tail, producer>>

\* A consumer that sees an abort or a stop returns without releasing.
Leave ==
    /\ consumer.pc = "viewing"
    /\ consumer' = [consumer EXCEPT !.pc = "idle", !.view = <<>>]
    /\ UNCHANGED <<storage, sizes, head, tail, producer>>

Release ==
    /\ consumer.pc = "viewing"
    /\ head' = head + 1
    /\ consumer' = [consumer EXCEPT !.pc = "idle", !.view = <<>>]
    /\ UNCHANGED <<storage, sizes, tail, producer>>
-----------------------------------------------------------------------------
Next ==
    \/ TryAcquire \/ FindFull \/ Abandon \/ CommitTail
    \/ \E d \in Data : Fill(d)
    \/ \E n \in Size : CommitSize(n)
    \/ TryPeek \/ Leave \/ Release

Spec == Init /\ [][Next]_vars
-----------------------------------------------------------------------------
(* Every variable has its type; neither thread has seen more than there is. *)
TypeOK ==
    /\ storage \in [Slot -> Data \cup {Zeroed}]
    /\ sizes \in [Slot -> Size \cup {Zeroed}]
    /\ head \in Index
    /\ tail \in Index
    /\ producer \in [pc : {"idle", "acquired", "filled", "sized"}, seenHead : Index]
    /\ consumer \in [pc : {"idle", "viewing"}, seenTail : Index, view : Item \cup {<<>>}]

(* tryAcquire() and commit() never let the producer run more than SlotCount *)
(* slots ahead of release(), nor the consumer past the producer, although   *)
(* each decides on an index of the other that may be old.                   *)
Bounded == head <= tail /\ tail - head <= SlotCount

(* The slot lent to the producer is never one that is published and not yet *)
(* released: no thread writes bytes another thread may be reading.          *)
SlotOwnership ==
    producer.pc # "idle" =>
        \A i \in head .. tail - 1 : SlotOf(i) # SlotOf(tail)

(* The ReadView handed out by tryPeek() still describes the slot's bytes    *)
(* and size when the consumer is done with it.                              *)
ViewStable == consumer.pc = "viewing" => consumer.view = ItemAt(head)

(* The ring, read from head to tail, behaves as the bounded FIFO of         *)
(* published chunks: nothing is lost, torn, duplicated or reordered.        *)
Fifo == INSTANCE BoundedFifo
            WITH Capacity <- SlotCount,
                 queue <- [i \in 1 .. tail - head |-> ItemAt(head + i - 1)]

ImplementsFifo == Fifo!FifoSpec
=============================================================================
