-------------------------- MODULE SpscRing_proofs --------------------------
(***************************************************************************)
(* For every slot count, every set of contents and sizes and every bound on *)
(* the indices: the ring's safety invariants hold, and the ring implements  *)
(* the bounded FIFO.                                                        *)
(***************************************************************************)
EXTENDS SpscRing, SequenceTheorems, TLAPS

(***************************************************************************)
(* The inductive invariant.  Bounded and SlotOwnership follow from what     *)
(* each thread has seen of the other's index: the producer lends a slot out *)
(* only if the head it saw leaves room, the consumer looks only at a slot   *)
(* below the tail it saw, and an index once seen is never undercut.         *)
(***************************************************************************)
Seen ==
    /\ producer.seenHead <= head
    /\ tail - producer.seenHead <= SlotCount
    /\ producer.pc # "idle" => tail - producer.seenHead < SlotCount /\ tail < MaxIndex
    /\ head <= consumer.seenTail
    /\ consumer.seenTail <= tail
    /\ consumer.pc = "viewing" => head < consumer.seenTail

Published ==
    /\ \A i \in head .. tail - 1 : ItemAt(i) \in Item
    /\ producer.pc \in {"filled", "sized"} => storage[SlotOf(tail)] \in Data
    /\ producer.pc = "sized" => sizes[SlotOf(tail)] \in Size

IndInv == TypeOK /\ Seen /\ Published /\ ViewStable
-----------------------------------------------------------------------------
(* Arithmetic of the slot index. *)

(* A natural number is its quotient times the divisor plus the remainder. *)
LEMMA DivMod ==
    ASSUME NEW a \in Nat, NEW n \in Nat, n > 0
    PROVE  a = (n * (a \div n)) + (a % n) /\ a % n \in 0 .. n - 1
  OBVIOUS

(* A positive multiple of n is at least n. *)
LEMMA Multiple ==
    ASSUME NEW n \in Nat, NEW k \in Int, n > 0, k > 0
    PROVE  n * k >= n
  OBVIOUS

(* Two different indices less than SlotCount apart have different slots. *)
LEMMA DistinctSlots ==
    ASSUME NEW a \in Nat, NEW b \in Nat, a < b, b - a < SlotCount
    PROVE  SlotOf(a) # SlotOf(b)
<1> SUFFICES ASSUME a % SlotCount = b % SlotCount PROVE FALSE
  BY DEF SlotOf
<1> DEFINE q == a \div SlotCount
           r == b \div SlotCount
<1>n. SlotCount \in Nat /\ SlotCount > 0
  BY SlotCountAssumption
<1>1. q \in Int /\ r \in Int /\ a % SlotCount \in Int
  BY <1>n
<1>2. a = (SlotCount * q) + (a % SlotCount) /\ b = (SlotCount * r) + (b % SlotCount)
  BY <1>n, DivMod
<1> HIDE DEF q, r
<1>3. b - a = SlotCount * (r - q)
  <2>1. b - a = (SlotCount * r) - (SlotCount * q)
    BY <1>1, <1>2, <1>n
  <2> QED BY <2>1, <1>1, <1>n
<1>4. r - q > 0
  <2> SUFFICES ASSUME r - q <= 0 PROVE FALSE
    BY <1>1
  <2>1. SlotCount * (r - q) <= 0
    BY <1>1, <1>n
  <2> QED BY <2>1, <1>3
<1>5. SlotCount * (r - q) >= SlotCount
  BY <1>4, <1>1, <1>n, Multiple
<1> QED BY <1>5, <1>3, <1>n

(* Every index has a slot. *)
LEMMA SlotOfType == ASSUME NEW i \in Nat PROVE SlotOf(i) \in Slot
  BY SlotCountAssumption, DivMod DEF SlotOf, Slot
-----------------------------------------------------------------------------
(* What the invariant says in the terms of the properties. *)

(* The views of the indices keep the ring within its slots. *)
LEMMA IndInvBounded == IndInv => Bounded
  BY SlotCountAssumption, MaxIndexAssumption
  DEF IndInv, TypeOK, Seen, Bounded, Index

(* The slot lent out lies outside the published ones. *)
LEMMA IndInvOwnership == IndInv => SlotOwnership
<1> SUFFICES ASSUME IndInv, producer.pc # "idle", NEW i \in head .. tail - 1
             PROVE  SlotOf(i) # SlotOf(tail)
  BY DEF SlotOwnership
<1>1. i \in Nat /\ tail \in Nat /\ i < tail /\ tail - i < SlotCount
  BY SlotCountAssumption, MaxIndexAssumption DEF IndInv, TypeOK, Seen, Index
<1> QED BY <1>1, DistinctSlots
-----------------------------------------------------------------------------
(* The invariant holds initially: both threads are idle and nothing is published. *)
LEMMA InitInv == Init => IndInv
  BY SlotCountAssumption, MaxIndexAssumption
  DEF Init, IndInv, TypeOK, Seen, Published, ViewStable, Index, Slot

(* Every step of either thread preserves the invariant. *)
LEMMA NextInv == IndInv /\ [Next]_vars => IndInv'
<1> SUFFICES ASSUME IndInv, [Next]_vars PROVE IndInv'
  OBVIOUS
<1> USE SlotCountAssumption, MaxIndexAssumption
<1>own. SlotOwnership /\ Bounded
  BY IndInvOwnership, IndInvBounded
<1>typ. head \in Nat /\ tail \in Nat /\ SlotOf(tail) \in Slot /\ SlotOf(head) \in Slot
  BY SlotOfType DEF IndInv, TypeOK, Index
<1>1. CASE TryAcquire
  BY <1>1 DEF TryAcquire, Full, IndInv, TypeOK, Seen, Published, ViewStable, Index, ItemAt
<1>2. CASE FindFull
  BY <1>2 DEF FindFull, Full, IndInv, TypeOK, Seen, Published, ViewStable, Index, ItemAt
<1>3. CASE Abandon
  BY <1>3 DEF Abandon, IndInv, TypeOK, Seen, Published, ViewStable, Index, ItemAt
<1>4. CASE CommitTail
  <2>1. TypeOK' /\ Seen' /\ ViewStable'
    BY <1>4 DEF CommitTail, IndInv, TypeOK, Seen, ViewStable, Index, ItemAt
  <2>2. ItemAt(tail) \in Item
    BY <1>4 DEF CommitTail, IndInv, Published, ItemAt, Item
  <2>3. Published'
    BY <1>4, <1>typ, <2>2 DEF CommitTail, IndInv, Published, ItemAt
  <2> QED BY <2>1, <2>3 DEF IndInv
<1>5. ASSUME NEW d \in Data, Fill(d) PROVE IndInv'
  <2>1. TypeOK' /\ Seen'
    BY <1>5, <1>typ DEF Fill, IndInv, TypeOK, Seen, Index
  <2>2. \A i \in head .. tail - 1 : ItemAt(i)' = ItemAt(i)
    BY <1>5, <1>own, <1>typ DEF Fill, SlotOwnership, ItemAt, IndInv, TypeOK
  <2>3. Published'
    BY <1>5, <1>typ, <2>2 DEF Fill, IndInv, Published, TypeOK
  <2>4. ViewStable'
    BY <1>5, <1>typ, <2>2 DEF Fill, IndInv, ViewStable, Seen, TypeOK, Index
  <2> QED BY <2>1, <2>3, <2>4 DEF IndInv
<1>6. ASSUME NEW n \in Size, CommitSize(n) PROVE IndInv'
  <2>1. TypeOK' /\ Seen'
    BY <1>6, <1>typ DEF CommitSize, IndInv, TypeOK, Seen, Index
  <2>2. \A i \in head .. tail - 1 : ItemAt(i)' = ItemAt(i)
    BY <1>6, <1>own, <1>typ DEF CommitSize, SlotOwnership, ItemAt, IndInv, TypeOK
  <2>3. Published'
    BY <1>6, <1>typ, <2>2 DEF CommitSize, IndInv, Published, TypeOK
  <2>4. ViewStable'
    BY <1>6, <1>typ, <2>2 DEF CommitSize, IndInv, ViewStable, Seen, TypeOK, Index
  <2> QED BY <2>1, <2>3, <2>4 DEF IndInv
<1>7. CASE TryPeek
  <2>1. ItemAt(head) \in Item
    BY <1>7 DEF TryPeek, IndInv, TypeOK, Seen, Published, Index
  <2> QED
    BY <1>7, <2>1 DEF TryPeek, IndInv, TypeOK, Seen, Published, ViewStable, Index, ItemAt
<1>8. CASE Leave
  BY <1>8 DEF Leave, IndInv, TypeOK, Seen, Published, ViewStable, Index, ItemAt
<1>9. CASE Release
  <2>a. head' \in Index
    BY <1>9 DEF Release, IndInv, TypeOK, Seen, Index
  <2>b. consumer' \in [pc : {"idle", "viewing"}, seenTail : Index, view : Item \cup {<<>>}]
    BY <1>9 DEF Release, IndInv, TypeOK
  <2>1. TypeOK'
    BY <1>9, <2>a, <2>b DEF Release, IndInv, TypeOK
  <2>2. Seen' /\ ViewStable'
    BY <1>9 DEF Release, IndInv, TypeOK, Seen, ViewStable, Index
  <2>3. Published'
    BY <1>9, <1>typ DEF Release, IndInv, Published, ItemAt
  <2> QED BY <2>1, <2>2, <2>3 DEF IndInv
<1>10. CASE UNCHANGED vars
  BY <1>10 DEF vars, IndInv, TypeOK, Seen, Published, ViewStable, ItemAt
<1> QED
  BY <1>1, <1>2, <1>3, <1>4, <1>5, <1>6, <1>7, <1>8, <1>9, <1>10 DEF Next
-----------------------------------------------------------------------------
(* The invariant is an invariant of the ring. *)
LEMMA Invariance == Spec => []IndInv
  BY InitInv, NextInv, PTL DEF Spec

(* TypeOK: the ring's variables keep their types. *)
THEOREM TypeCorrect == Spec => []TypeOK
<1>1. IndInv => TypeOK
  BY DEF IndInv
<1> QED BY <1>1, Invariance, PTL

(* Bounded: tryAcquire()/commit() against release() never let the ring hold *)
(* fewer than zero or more than SlotCount chunks.                           *)
THEOREM RingBounded == Spec => []Bounded
  BY Invariance, IndInvBounded, PTL

(* SlotOwnership: no slot is written while it is published. *)
THEOREM SlotsOwned == Spec => []SlotOwnership
  BY Invariance, IndInvOwnership, PTL

(* ViewStable: a ReadView keeps its bytes and size until release(). *)
THEOREM ViewsStable == Spec => []ViewStable
<1>1. IndInv => ViewStable
  BY DEF IndInv
<1> QED BY <1>1, Invariance, PTL
-----------------------------------------------------------------------------
(* Refinement: the queue the ring stands for. *)

Queue == [i \in 1 .. tail - head |-> ItemAt(head + i - 1)]

(* Under the invariant the ring stands for a sequence of published chunks. *)
LEMMA QueueType ==
    ASSUME IndInv
    PROVE  /\ Queue \in Seq(Item)
           /\ Len(Queue) = tail - head
           /\ tail - head \in Nat
           /\ \A i \in 1 .. tail - head : Queue[i] = ItemAt(head + i - 1)
<1>1. Bounded /\ head \in Nat /\ tail \in Nat
  BY IndInvBounded, MaxIndexAssumption DEF IndInv, TypeOK, Index
<1>2. tail - head \in Nat
  BY <1>1 DEF Bounded
<1>3. \A i \in 1 .. tail - head : ItemAt(head + i - 1) \in Item
  BY <1>1, <1>2 DEF IndInv, Published
<1>4. Queue \in [1 .. tail - head -> Item]
  BY <1>3 DEF Queue
<1>5. Queue \in Seq(Item) /\ Len(Queue) = tail - head
  BY <1>2, <1>4
<1> QED BY <1>2, <1>5 DEF Queue

(* A step that moves no index and no published slot leaves the queue alone. *)
LEMMA QueueUnchanged ==
    ASSUME IndInv, UNCHANGED <<head, tail>>,
           \A i \in head .. tail - 1 : ItemAt(i)' = ItemAt(i)
    PROVE  Queue' = Queue
<1>1. head \in Nat /\ tail \in Nat
  BY MaxIndexAssumption DEF IndInv, TypeOK, Index
<1>2. \A i \in 1 .. tail - head : ItemAt(head + i - 1)' = ItemAt(head + i - 1)
  BY <1>1
<1> QED BY <1>2 DEF Queue

(* Publishing a slot appends it to the queue, which had room. *)
LEMMA CommitPuts == IndInv /\ IndInv' /\ CommitTail => Fifo!FifoNext
<1> SUFFICES ASSUME IndInv, IndInv', CommitTail PROVE Fifo!FifoNext
  OBVIOUS
<1> DEFINE x == ItemAt(tail)
<1>1. head \in Nat /\ tail \in Nat /\ head' = head /\ tail' = tail + 1 /\ head <= tail
  BY IndInvBounded, MaxIndexAssumption DEF CommitTail, IndInv, TypeOK, Index, Bounded
<1>2. x \in Item
  BY DEF CommitTail, IndInv, Published, ItemAt, Item
<1>3. Len(Queue) < SlotCount
  BY QueueType, SlotCountAssumption, MaxIndexAssumption
  DEF CommitTail, IndInv, TypeOK, Seen, Index
<1>4. /\ Queue \in Seq(Item) /\ Len(Queue) = tail - head
      /\ Queue' \in Seq(Item) /\ Len(Queue') = tail + 1 - head
  <2>1. Queue' \in Seq(Item) /\ Len(Queue') = tail' - head'
    <3>1. (Queue \in Seq(Item) /\ Len(Queue) = tail - head)'
      BY QueueType, PTL
    <3> QED BY <3>1
  <2> QED BY <2>1, <1>1, QueueType
<1>5. Append(Queue, x) \in Seq(Item) /\ Len(Append(Queue, x)) = tail + 1 - head
  BY <1>1, <1>2, <1>4, AppendProperties
<1>6. ASSUME NEW i \in 1 .. tail + 1 - head
      PROVE  Queue'[i] = Append(Queue, x)[i]
  <2>1. Queue'[i] = ItemAt(head + i - 1)
    BY <1>1 DEF Queue, ItemAt, CommitTail
  <2>2. CASE i = tail + 1 - head
    BY <2>1, <2>2, <1>1, <1>2, <1>4, AppendProperties
  <2>3. CASE i \in 1 .. tail - head
    BY <2>1, <2>3, <1>1, <1>2, <1>4, AppendProperties DEF Queue
  <2>4. i = tail + 1 - head \/ i \in 1 .. tail - head
    BY <1>1
  <2> QED BY <2>2, <2>3, <2>4
<1>7. Queue' = Append(Queue, x)
  BY <1>1, <1>4, <1>5, <1>6, SeqEqual
<1> QED BY <1>2, <1>3, <1>7 DEF Fifo!FifoNext, Fifo!Put, Queue

(* Releasing a slot takes the oldest chunk off the queue. *)
LEMMA ReleaseGets == IndInv /\ IndInv' /\ Release => Fifo!FifoNext
<1> SUFFICES ASSUME IndInv, IndInv', Release PROVE Fifo!FifoNext
  OBVIOUS
<1>1. /\ head \in Nat /\ tail \in Nat /\ head' = head + 1 /\ tail' = tail
      /\ head < tail /\ tail - head \in Nat
  BY MaxIndexAssumption DEF Release, IndInv, TypeOK, Seen, Index
<1>2. /\ Queue \in Seq(Item) /\ Len(Queue) = tail - head
      /\ Queue' \in Seq(Item) /\ Len(Queue') = tail - (head + 1)
  <2>1. (Queue \in Seq(Item) /\ Len(Queue) = tail - head)'
    BY QueueType, PTL
  <2> QED BY <2>1, <1>1, QueueType
<1>3. Queue # <<>>
  BY <1>1, <1>2
<1>4. /\ Tail(Queue) \in Seq(Item) /\ Len(Tail(Queue)) = Len(Queue) - 1
      /\ \A i \in 1 .. Len(Tail(Queue)) : Tail(Queue)[i] = Queue[i + 1]
  BY <1>2, <1>3, HeadTailProperties
<1>5. ASSUME NEW i \in 1 .. tail - (head + 1)
      PROVE  Queue'[i] = Tail(Queue)[i]
  <2>1. Queue'[i] = ItemAt(head + 1 + i - 1)
    BY <1>1 DEF Queue, ItemAt, Release
  <2>2. Tail(Queue)[i] = Queue[i + 1] /\ i + 1 \in 1 .. tail - head
    BY <1>1, <1>2, <1>4
  <2>3. Queue[i + 1] = ItemAt(head + (i + 1) - 1)
    BY <2>2 DEF Queue
  <2>4. head + (i + 1) - 1 = head + 1 + i - 1
    BY <1>1
  <2> QED BY <2>1, <2>2, <2>3, <2>4
<1>6. Queue' = Tail(Queue)
  BY <1>1, <1>2, <1>4, <1>5, SeqEqual
<1> QED BY <1>3, <1>6 DEF Fifo!FifoNext, Fifo!Get, Queue

(* ImplementsFifo: what the two threads do to storage, sizes, head and tail *)
(* is a bounded FIFO queue of chunks, published whole by commit() and taken *)
(* off in order by release().                                               *)
THEOREM RingIsFifo == Spec => ImplementsFifo
<1>1. Init => Fifo!FifoInit
  <2> SUFFICES ASSUME Init PROVE Queue = <<>>
    BY DEF Fifo!FifoInit, Queue
  <2>1. tail - head = 0
    BY DEF Init
  <2> QED BY <2>1 DEF Queue
<1>2. IndInv /\ IndInv' /\ [Next]_vars => [Fifo!FifoNext]_Queue
  <2> SUFFICES ASSUME IndInv, IndInv', [Next]_vars PROVE Fifo!FifoNext \/ Queue' = Queue
    OBVIOUS
  <2>own. SlotOwnership
    BY IndInvOwnership
  <2>1. CASE TryAcquire \/ FindFull \/ Abandon \/ TryPeek \/ Leave \/ UNCHANGED vars
    BY <2>1, QueueUnchanged
    DEF TryAcquire, FindFull, Abandon, TryPeek, Leave, vars, ItemAt
  <2>2. ASSUME NEW d \in Data, Fill(d) PROVE Queue' = Queue
    BY <2>2, <2>own, QueueUnchanged DEF Fill, SlotOwnership, ItemAt, IndInv, TypeOK
  <2>3. ASSUME NEW n \in Size, CommitSize(n) PROVE Queue' = Queue
    BY <2>3, <2>own, QueueUnchanged DEF CommitSize, SlotOwnership, ItemAt, IndInv, TypeOK
  <2>4. CASE CommitTail
    BY <2>4, CommitPuts
  <2>5. CASE Release
    BY <2>5, ReleaseGets
  <2> QED BY <2>1, <2>2, <2>3, <2>4, <2>5 DEF Next
<1> QED BY <1>1, <1>2, Invariance, PTL DEF Spec, ImplementsFifo, Fifo!FifoSpec, Queue
=============================================================================
