------------------------- MODULE FileReader_proofs -------------------------
(***************************************************************************)
(* For every number of slots, chunks, writes in flight and uploads: what    *)
(* the worker sends of an upload is that reading of the file, in order,     *)
(* and the writes libuv holds are bounded.                                  *)
(***************************************************************************)
EXTENDS FileReader, SequenceTheorems, TLAPS

Idle == {"idleLock", "idleAsleep", "exited"}
Stopping == {"stopNotify", "join", "stopped"}
Pumping == {"pump", "release", "notify", "atEnd", "isEmpty"}

(* What the reader relies on: the slot it fills is free, and while it is busy *)
(* beginUpload() refuses, so that nobody changes its upload under its hands.  *)
ReaderOwns ==
    /\ reader.pc \in {"read", "commit"} => Len(ring) < SlotCount
    /\ reader.pc = "commit" => reader.slot \in Chunk
    /\ ~flags.uploading => reader.pc \in Idle \/ worker.pc \in Stopping
    /\ flags.uploading \/ reader.pc \notin Idle => reader.upload # 0

(* What the worker relies on: it pumps only during an upload, and empties the *)
(* ring only outside of one.                                                  *)
WorkerOwns ==
    /\ worker.pc \in Pumping => worker.uploading
    /\ worker.uploading => worker.pc \in Pumping \cup {"poll", "abort"}
    /\ worker.pc = "release" => ring # <<>> /\ Len(worker.sent) > 0
    /\ worker.pc \in {"drainForStart", "begin"} => worker.upload < MaxUploads

(* The chunks that have left the ring: the one being released is still in it. *)
Gone == Len(worker.sent) - (IF worker.pc = "release" THEN 1 ELSE 0)

(* During an upload the chunks sent, those in the ring and the one being      *)
(* committed are the file up to where the reader has come.                    *)
Stream ==
    worker.uploading /\ ~leftover =>
        /\ reader.upload = worker.upload
        /\ \A k \in 1 .. Len(ring) : ring[k] = <<worker.upload, Gone + k>>
        /\ Gone + Len(ring) + (IF reader.pc = "commit" THEN 1 ELSE 0) = Chunks - reader.remaining
        /\ reader.pc = "commit" => reader.slot = <<worker.upload, Gone + Len(ring) + 1>>

Sent == leftover \/ \A k \in 1 .. Len(worker.sent) : worker.sent[k] = <<worker.upload, k>>

(* A completion lowers _inFlightWrites whenever it lowers what libuv holds,   *)
(* unless the counter is 0 and only uncounted writes are left.  The chunk      *)
(* between its send and the next look at the limit is counted already.        *)
Written ==
    IF worker.uploading
    THEN worker.pending + (IF worker.pc \in {"release", "notify"} THEN 1 ELSE 0)
            <= worker.older + worker.inFlight + 1
    ELSE worker.pending <= worker.older + kMaxInFlightWrites + 2

IndInv == TypeOK /\ ReaderOwns /\ WorkerOwns /\ Stream /\ Sent /\ Written
-----------------------------------------------------------------------------
USE ReaderAssumption DEF WorkerState

(* Chunk by chunk, or as one sequence. *)
LEMMA SentIsFileBarring == TypeOK => (Sent <=> SentIsFileBarringLeftover)
<1> SUFFICES ASSUME TypeOK PROVE Sent <=> SentIsFileBarringLeftover
  OBVIOUS
<1>1. worker.sent \in Seq(Chunk)
  BY DEF TypeOK
<1>2. worker.sent = [k \in 1 .. Len(worker.sent) |-> worker.sent[k]]
  BY <1>1
<1> QED BY <1>2 DEF Sent, SentIsFileBarringLeftover, SentIsFile

(* The invariant holds initially: nothing has been read and nothing sent. *)
LEMMA InitInv == Init => IndInv
<1> SUFFICES ASSUME Init PROVE IndInv
  OBVIOUS
<1>1. TypeOK
  <2>1. ring \in Seq(Chunk) /\ Len(ring) <= SlotCount /\ worker.sent \in Seq(Chunk)
    BY DEF Init
  <2>2. reader \in [pc : ReaderPc, remaining : 0 .. Chunks, upload : 0 .. MaxUploads,
                    slot : Chunk \cup {NoChunk}]
    BY DEF Init, ReaderPc
  <2>3. worker \in WorkerState
    BY <2>1 DEF Init, WorkerPc
  <2> QED BY <2>1, <2>2, <2>3 DEF Init, TypeOK
<1>2. ReaderOwns /\ WorkerOwns
  BY DEF Init, ReaderOwns, WorkerOwns, Idle, Stopping, Pumping
<1>3. Stream /\ Sent /\ Written
  BY DEF Init, Stream, Sent, Written
<1> QED BY <1>1, <1>2, <1>3 DEF IndInv

(* Steps of the reader that only move on. *)
LEMMA ReaderMoves ==
    ASSUME IndInv, NEW from \in ReaderPc, NEW to \in ReaderPc,
           ReaderGoes(from, to),
           from # "commit" /\ to # "commit",
           to = "read" => Len(ring) < SlotCount,
           from \in Idle => to \in Idle \/ flags.uploading,
           flags' \in [uploading : BOOLEAN, quit : BOOLEAN, abort : BOOLEAN,
                       readComplete : BOOLEAN, failed : BOOLEAN],
           flags'.uploading => flags.uploading,
           ~flags'.uploading => ~flags.uploading \/ to \in Idle,
           async' \in BOOLEAN, missed' \in BOOLEAN,
           UNCHANGED <<ring, worker, leftover>>
    PROVE  IndInv'
<1>1. TypeOK'
  BY DEF IndInv, TypeOK, ReaderGoes
<1>2. ReaderOwns'
  BY DEF IndInv, TypeOK, ReaderGoes, ReaderOwns
<1>3. WorkerOwns' /\ Sent' /\ Written'
  BY DEF IndInv, WorkerOwns, Sent, Written
<1>4. Stream'
  BY DEF IndInv, TypeOK, ReaderGoes, Stream, Gone
<1> QED BY <1>1, <1>2, <1>3, <1>4 DEF IndInv

(* The same for steps that leave the flags alone. *)
LEMMA ReaderAlone ==
    ASSUME IndInv, NEW from \in ReaderPc, NEW to \in ReaderPc,
           ReaderGoes(from, to),
           from # "commit" /\ to # "commit",
           to = "read" => Len(ring) < SlotCount,
           from \in Idle => to \in Idle \/ flags.uploading,
           async' \in BOOLEAN, missed' \in BOOLEAN,
           UNCHANGED <<ring, flags, worker, leftover>>
    PROVE  IndInv'
<1>1. TypeOK
  BY DEF IndInv
<1>2. flags' \in [uploading : BOOLEAN, quit : BOOLEAN, abort : BOOLEAN,
                  readComplete : BOOLEAN, failed : BOOLEAN]
  BY <1>1 DEF TypeOK
<1> QED BY <1>2, ReaderMoves

(* Every step of the reader thread. *)
LEMMA ReaderInv == IndInv /\ ReaderStep => IndInv'
<1> SUFFICES ASSUME IndInv, ReaderStep PROVE IndInv'
  OBVIOUS
<1>typ. TypeOK
  BY DEF IndInv
<1>mis. (async' = async => async' \in BOOLEAN) /\ (missed' = missed => missed' \in BOOLEAN)
  BY <1>typ DEF TypeOK
<1>1. CASE IdleWait
  BY <1>1, <1>mis, ReaderAlone DEF IdleWait, ReaderPc, Idle
<1>2. CASE CheckAbort
  BY <1>2, <1>mis, ReaderAlone DEF CheckAbort, ReaderPc, Idle
<1>3. CASE TryAcquire
  <2>1. ~Full => Len(ring) < SlotCount
    BY <1>typ DEF Full, TypeOK
  <2> QED BY <1>3, <1>mis, <2>1, ReaderAlone DEF TryAcquire, ReaderPc, Idle
<1>4. CASE FullLock
  BY <1>4, <1>mis, ReaderAlone DEF FullLock, ReaderPc, Idle
<1>5. CASE FullEval
  BY <1>5, <1>mis, ReaderAlone DEF FullEval, ReaderPc, Idle
<1>6. CASE FullSleep
  BY <1>6, <1>mis, ReaderAlone DEF FullSleep, ReaderPc, Idle
<1>7. CASE FullOut
  BY <1>7, <1>mis, ReaderAlone DEF FullOut, ReaderPc, Idle
<1>8. CASE ReadChunk
  <2>1. CASE reader.remaining = 0 /\ ReaderGoes("read", "complete")
    BY <1>8, <2>1, <1>typ, ReaderMoves DEF ReadChunk, TypeOK, ReaderPc, Idle, ReaderGoes
  <2>2. CASE /\ reader.remaining > 0
             /\ ReaderGoes("read", "close")
             /\ flags' = [flags EXCEPT !.failed = TRUE]
             /\ async' = TRUE
             /\ UNCHANGED <<ring, worker, missed, leftover>>
    BY <2>2, <1>typ, ReaderMoves DEF TypeOK, ReaderPc, Idle
  <2>3. CASE /\ reader.remaining > 0
             /\ reader.pc = "read"
             /\ reader' = [reader EXCEPT !.pc = "commit", !.remaining = @ - 1,
                             !.slot = <<reader.upload, Chunks - reader.remaining + 1>>]
             /\ UNCHANGED <<ring, flags, worker, async, missed, leftover>>
    <3>1. reader.upload \in 1 .. MaxUploads /\ Len(ring) < SlotCount
      BY <2>3, <1>typ DEF IndInv, ReaderOwns, TypeOK, Idle
    <3>2. <<reader.upload, Chunks - reader.remaining + 1>> \in Chunk
      BY <3>1, <2>3, <1>typ DEF TypeOK, Chunk
    <3>3. reader' = [pc |-> "commit", remaining |-> reader.remaining - 1,
                     upload |-> reader.upload,
                     slot |-> <<reader.upload, Chunks - reader.remaining + 1>>]
      BY <2>3, <1>typ DEF TypeOK
    <3>4. /\ reader.remaining - 1 \in 0 .. Chunks
          /\ reader.upload \in 0 .. MaxUploads
      BY <2>3, <1>typ DEF TypeOK
    <3>5. TypeOK'
      <4>1. reader' \in [pc : ReaderPc, remaining : 0 .. Chunks, upload : 0 .. MaxUploads,
                         slot : Chunk \cup {NoChunk}]
        BY <3>2, <3>3, <3>4 DEF ReaderPc
      <4> QED BY <4>1, <2>3, <1>typ DEF TypeOK
    <3>6. ReaderOwns'
      BY <2>3, <3>1, <3>2, <3>3 DEF IndInv, ReaderOwns, Idle
    <3>7. WorkerOwns' /\ Sent' /\ Written'
      BY <2>3 DEF IndInv, WorkerOwns, Sent, Written
    <3>8. ASSUME worker.uploading /\ ~leftover
          PROVE  /\ reader.upload = worker.upload
                 /\ \A k \in 1 .. Len(ring) : ring[k] = <<worker.upload, Gone + k>>
                 /\ Gone + Len(ring) = Chunks - reader.remaining
      <4>1. Gone \in Int /\ Len(ring) \in Nat
        BY <2>3, <1>typ DEF TypeOK, Gone
      <4> QED BY <3>8, <2>3, <4>1 DEF IndInv, Stream
    <3>9. Gone \in Int /\ Len(ring) \in Nat /\ Gone' = Gone
      BY <2>3, <1>typ DEF TypeOK, Gone
    <3>10. Stream'
      <4> SUFFICES ASSUME worker.uploading /\ ~leftover PROVE Stream'
        BY <2>3 DEF Stream
      <4>1. Chunks - reader.remaining + 1 = Gone + Len(ring) + 1
        BY <3>8
      <4>2. Gone + Len(ring) + 1 = Chunks - (reader.remaining - 1)
        <5>1. reader.remaining \in Int /\ Chunks \in Int
          BY <1>typ DEF TypeOK
        <5>2. Gone + Len(ring) = Chunks - reader.remaining
          BY <3>8
        <5>3. \A g, l, r, c \in Int : g + l = c - r => g + l + 1 = c - (r - 1)
          OBVIOUS
        <5> QED BY <3>9, <5>1, <5>2, <5>3
      <4>3. reader'.slot = <<worker.upload, Gone + Len(ring) + 1>>
        BY <3>3, <3>8, <4>1
      <4> QED BY <2>3, <3>3, <3>8, <3>9, <4>2, <4>3 DEF Stream
    <3> QED BY <3>5, <3>6, <3>7, <3>10 DEF IndInv
  <2> QED BY <1>8, <2>1, <2>2, <2>3 DEF ReadChunk
<1>9. CASE CommitChunk
  <2>1. reader.slot \in Chunk /\ Len(ring) < SlotCount /\ ring \in Seq(Chunk)
    BY <1>9, <1>typ DEF IndInv, ReaderOwns, CommitChunk, TypeOK
  <2>2. /\ ring' \in Seq(Chunk) /\ Len(ring') = Len(ring) + 1
        /\ \A k \in 1 .. Len(ring) : ring'[k] = ring[k]
        /\ ring'[Len(ring) + 1] = reader.slot
    BY <1>9, <2>1 DEF CommitChunk
  <2>3. reader' = [pc |-> "wake", remaining |-> reader.remaining,
                   upload |-> reader.upload, slot |-> NoChunk]
    BY <1>9, <1>typ DEF CommitChunk, TypeOK
  <2>4. TypeOK'
    <3>1. reader' \in [pc : ReaderPc, remaining : 0 .. Chunks, upload : 0 .. MaxUploads,
                       slot : Chunk \cup {NoChunk}]
      BY <2>3, <1>typ DEF TypeOK, ReaderPc
    <3>2. Len(ring') <= SlotCount
      BY <2>1, <2>2
    <3> QED BY <1>9, <1>typ, <2>2, <3>1, <3>2 DEF CommitChunk, TypeOK
  <2>5. ReaderOwns' /\ Sent' /\ Written'
    BY <1>9, <2>3 DEF IndInv, CommitChunk, ReaderOwns, Sent, Written, Idle
  <2>6. WorkerOwns'
    BY <1>9, <2>2 DEF IndInv, CommitChunk, WorkerOwns
  <2>7. Gone \in Int /\ Len(ring) \in Nat /\ Gone' = Gone
    BY <1>9, <1>typ DEF TypeOK, CommitChunk, Gone
  <2>8. ASSUME worker.uploading /\ ~leftover
        PROVE  /\ reader.upload = worker.upload
               /\ \A k \in 1 .. Len(ring) : ring[k] = <<worker.upload, Gone + k>>
               /\ Gone + Len(ring) + 1 = Chunks - reader.remaining
               /\ reader.slot = <<worker.upload, Gone + Len(ring) + 1>>
    BY <2>8, <1>9 DEF IndInv, Stream, CommitChunk
  <2>9. ASSUME worker.uploading /\ ~leftover, NEW k \in 1 .. Len(ring')
        PROVE  ring'[k] = <<worker.upload, Gone + k>>
    <3>1. CASE k \in 1 .. Len(ring)
      BY <2>2, <2>8, <2>9, <3>1
    <3>2. CASE k = Len(ring) + 1
      <4>1. Gone + k = Gone + Len(ring) + 1
        BY <2>7, <3>2
      <4> QED BY <2>2, <2>8, <2>9, <3>2, <4>1
    <3> QED BY <2>2, <2>7, <2>9, <3>1, <3>2
  <2>10. Stream'
    <3> SUFFICES ASSUME worker.uploading /\ ~leftover PROVE Stream'
      BY <1>9 DEF CommitChunk, Stream
    <3>1. Gone + Len(ring') + 0 = Chunks - reader.remaining
      BY <2>2, <2>7, <2>8
    <3>2. \A k \in 1 .. Len(ring') : ring'[k] = <<worker.upload, Gone + k>>
      BY <2>9
    <3>3. worker' = worker /\ leftover' = leftover
      BY <1>9 DEF CommitChunk
    <3> QED BY <2>3, <2>7, <2>8, <3>1, <3>2, <3>3 DEF Stream
  <2> QED BY <2>4, <2>5, <2>6, <2>10 DEF IndInv
<1>10. CASE WakeWorker
  BY <1>10, <1>mis, ReaderAlone DEF WakeWorker, ReaderPc, Idle
<1>11. CASE ReadComplete
  BY <1>11, <1>typ, ReaderMoves DEF ReadComplete, TypeOK, ReaderPc, Idle
<1>12. CASE CompleteWake
  BY <1>12, <1>mis, ReaderAlone DEF CompleteWake, ReaderPc, Idle
<1>13. CASE CloseFile
  BY <1>13, <1>typ, ReaderMoves DEF CloseFile, TypeOK, ReaderPc, Idle
<1> QED
  BY <1>1, <1>2, <1>3, <1>4, <1>5, <1>6, <1>7, <1>8, <1>9, <1>10, <1>11, <1>12, <1>13
  DEF ReaderStep

(* A notification moves a sleeping reader to its lock and nothing else. *)
LEMMA Notified ==
    ASSUME TypeOK, reader' = reader \/ NotifyAll
    PROVE  /\ reader' \in [pc : ReaderPc, remaining : 0 .. Chunks, upload : 0 .. MaxUploads,
                           slot : Chunk \cup {NoChunk}]
           /\ reader'.remaining = reader.remaining
           /\ reader'.upload = reader.upload
           /\ reader'.slot = reader.slot
           /\ reader'.pc \in Idle <=> reader.pc \in Idle
           /\ reader'.pc = reader.pc \/ reader'.pc \in {"idleLock", "fullLock"}
           /\ reader.pc \in {"read", "commit"} => reader'.pc = reader.pc
<1>1. CASE reader' = reader
  BY <1>1 DEF TypeOK
<1>2. CASE NotifyAll
  BY <1>2 DEF TypeOK, NotifyAll, ReaderPc, Idle
<1> QED BY <1>1, <1>2

(* Steps of the worker that leave the ring and what is sent alone. *)
LEMMA WorkerMoves ==
    ASSUME IndInv,
           worker' \in WorkerState,
           worker'.upload = worker.upload, worker'.sent = worker.sent,
           worker'.uploading => worker.uploading,
           Written',
           worker.pc # "release" /\ worker'.pc # "release",
           worker'.pc \in Pumping => worker'.uploading,
           worker'.uploading => worker'.pc \in Pumping \cup {"poll", "abort"},
           worker.pc \in Stopping => worker'.pc \in Stopping,
           worker'.pc \in {"drainForStart", "begin"} => worker.upload < MaxUploads,
           reader' = reader \/ NotifyAll,
           flags' \in [uploading : BOOLEAN, quit : BOOLEAN, abort : BOOLEAN,
                       readComplete : BOOLEAN, failed : BOOLEAN],
           flags'.uploading => flags.uploading,
           ~flags'.uploading => ~flags.uploading \/ worker'.pc \in Stopping,
           async' \in BOOLEAN, missed' \in BOOLEAN,
           UNCHANGED <<ring, leftover>>
    PROVE  IndInv'
<1>typ. TypeOK
  BY DEF IndInv
<1>rd. /\ reader' \in [pc : ReaderPc, remaining : 0 .. Chunks, upload : 0 .. MaxUploads,
                       slot : Chunk \cup {NoChunk}]
       /\ reader'.remaining = reader.remaining
       /\ reader'.upload = reader.upload
       /\ reader'.slot = reader.slot
       /\ reader'.pc \in Idle <=> reader.pc \in Idle
       /\ reader'.pc = "read" => reader.pc = "read"
       /\ reader'.pc = "commit" <=> reader.pc = "commit"
  BY <1>typ, Notified
<1>1. TypeOK'
  BY <1>typ, <1>rd DEF TypeOK
<1>2. ReaderOwns'
  BY <1>rd DEF IndInv, ReaderOwns
<1>3. WorkerOwns' /\ Sent'
  BY DEF IndInv, WorkerOwns, Sent
<1>4. Gone' = Gone
  BY DEF Gone
<1>5. Stream'
  BY <1>rd, <1>4 DEF IndInv, Stream
<1> QED BY <1>1, <1>2, <1>3, <1>5 DEF IndInv

(* drainRing(): nobody is sending, so that a slot fewer is all that changes. *)
LEMMA DrainInv ==
    ASSUME IndInv, NEW from \in {"drainForStart", "drainForAbort"}, NEW to \in {"begin", "poll"},
           from = "drainForStart" <=> to = "begin", DrainRing(from, to)
    PROVE  IndInv'
<1>own. TypeOK /\ WorkerOwns /\ Written
  BY DEF IndInv
<1>1. CASE /\ worker.pc = from
           /\ ring # <<>>
           /\ ring' = Tail(ring)
           /\ UNCHANGED <<reader, flags, worker, async, missed, leftover>>
  <2>1. ring' \in Seq(Chunk) /\ Len(ring') <= Len(ring)
    BY <1>1, <1>own DEF TypeOK
  <2>2. TypeOK'
    BY <1>1, <1>own, <2>1 DEF TypeOK
  <2>3. ReaderOwns'
    BY <1>1, <1>own, <2>1 DEF IndInv, TypeOK, ReaderOwns
  <2>4. WorkerOwns' /\ Sent' /\ Stream' /\ Written'
    BY <1>1 DEF IndInv, WorkerOwns, Sent, Stream, Written, Pumping
  <2> QED BY <2>2, <2>3, <2>4 DEF IndInv
<1>2. CASE /\ ring = <<>>
           /\ WorkerGoes(from, to)
           /\ NotifyAll
           /\ UNCHANGED <<ring, flags, async, leftover>>
  <2>1. missed' \in BOOLEAN
    BY <1>2, <1>own DEF NotifyAll, TypeOK
  <2> QED
    BY <1>2, <1>own, <2>1, WorkerMoves
    DEF WorkerGoes, TypeOK, WorkerOwns, WorkerPc, Pumping, Stopping, Written
<1> QED BY <1>1, <1>2 DEF DrainRing

(* beginUpload(): the reader is idle; with an empty ring the stream starts afresh. *)
LEMMA BeginInv == IndInv /\ BeginUpload => IndInv'
<1> SUFFICES ASSUME IndInv, BeginUpload PROVE IndInv'
  OBVIOUS
<1>own. TypeOK /\ WorkerOwns /\ ReaderOwns /\ Written
  BY DEF IndInv
<1>1. CASE /\ WorkerGoes("begin", "poll")
           /\ UNCHANGED <<reader, ring, flags, async, missed, leftover>>
  BY <1>1, <1>own, WorkerMoves
  DEF WorkerGoes, TypeOK, WorkerOwns, WorkerPc, Pumping, Stopping, Written
<1>2. CASE /\ ~flags.uploading
           /\ flags' = [flags EXCEPT !.uploading = TRUE, !.abort = FALSE,
                                     !.readComplete = FALSE, !.failed = FALSE]
           /\ reader' = [reader EXCEPT !.remaining = Chunks, !.upload = worker.upload + 1,
                                       !.pc = IF @ = "idleAsleep" THEN "idleLock" ELSE @]
           /\ \E ok \in BOOLEAN :
                 worker' = [worker EXCEPT !.pc = IF ok THEN "pump" ELSE "abort",
                               !.uploading = TRUE, !.inFlight = 0,
                               !.upload = @ + 1, !.sent = <<>>,
                               !.older = worker.pending,
                               !.pending = IF ok THEN @ + 1 ELSE @]
           /\ leftover' = (leftover \/ ring # <<>>)
           /\ UNCHANGED <<ring, async, missed>>
  <2>1. /\ worker.pc = "begin" /\ worker.upload < MaxUploads
        /\ reader.pc \in Idle
    BY <1>2, <1>own DEF BeginUpload, ReaderOwns, WorkerOwns, Stopping
  <2>2. worker.upload + 1 \in 1 .. MaxUploads
    BY <2>1, <1>own DEF TypeOK
  <2>3. PICK ok \in BOOLEAN :
          worker' = [pc |-> IF ok THEN "pump" ELSE "abort", uploading |-> TRUE,
                     upload |-> worker.upload + 1, sent |-> <<>>, inFlight |-> 0,
                     pending |-> IF ok THEN worker.pending + 1 ELSE worker.pending,
                     older |-> worker.pending, open |-> worker.open]
    BY <1>2, <1>own DEF TypeOK
  <2>4. /\ reader'.remaining = Chunks /\ reader'.upload = worker.upload + 1
        /\ reader'.slot = reader.slot
        /\ reader'.pc \in Idle
    BY <1>2, <1>own, <2>1 DEF TypeOK, Idle
  <2>5. TypeOK'
    <3>1. reader' \in [pc : ReaderPc, remaining : 0 .. Chunks, upload : 0 .. MaxUploads,
                       slot : Chunk \cup {NoChunk}]
      <4>1. reader' = [pc |-> reader'.pc, remaining |-> Chunks,
                       upload |-> worker.upload + 1, slot |-> reader.slot]
        BY <1>2, <1>own DEF TypeOK
      <4>2. reader'.pc \in ReaderPc
        BY <2>4 DEF Idle, ReaderPc
      <4>3. reader.slot \in Chunk \cup {NoChunk} /\ Chunks \in 0 .. Chunks
            /\ worker.upload + 1 \in 0 .. MaxUploads
        BY <1>own, <2>2 DEF TypeOK
      <4> QED BY <4>1, <4>2, <4>3
    <3>2. worker' \in WorkerState
      BY <2>2, <2>3, <1>own DEF TypeOK, WorkerPc
    <3>3. flags' \in [uploading : BOOLEAN, quit : BOOLEAN, abort : BOOLEAN,
                      readComplete : BOOLEAN, failed : BOOLEAN]
      BY <1>2, <1>own DEF TypeOK
    <3> QED BY <1>2, <1>own, <3>1, <3>2, <3>3 DEF TypeOK
  <2>6. ReaderOwns'
    <3>1. flags'.uploading /\ reader'.upload # 0
      BY <1>2, <1>own, <2>2, <2>4 DEF TypeOK
    <3> QED BY <2>4, <3>1 DEF ReaderOwns, Idle
  <2>7. WorkerOwns' /\ Sent'
    BY <2>3 DEF WorkerOwns, Sent, Pumping
  <2>8. Stream'
    <3>1. Gone' = 0
      BY <2>3 DEF Gone
    <3>2. ~leftover' => Len(ring') = 0
      BY <1>2
    <3> QED BY <2>3, <2>4, <3>1, <3>2 DEF Stream, Idle
  <2>9. Written'
    <3>1. worker.pending \in Nat
      BY <1>own DEF TypeOK
    <3> QED BY <2>3, <3>1 DEF Written
  <2> QED BY <2>5, <2>6, <2>7, <2>8, <2>9 DEF IndInv
<1> QED BY <1>1, <1>2 DEF BeginUpload

(* pumpUpload(): the chunk sent next is the one at the head of the ring. *)
LEMMA PumpInv == IndInv /\ Pump => IndInv'
<1> SUFFICES ASSUME IndInv, Pump PROVE IndInv'
  OBVIOUS
<1>own. TypeOK /\ WorkerOwns /\ Written
  BY DEF IndInv
<1>un. UNCHANGED <<reader, ring, flags, async, missed, leftover>>
  BY DEF Pump
<1>1. CASE WorkerGoes("pump", "abort") \/ WorkerGoes("pump", "atEnd")
  <2>1. /\ worker.pc = "pump" /\ worker'.pc \in {"abort", "atEnd"}
        /\ worker'.uploading = worker.uploading
        /\ worker'.upload = worker.upload /\ worker'.sent = worker.sent
    BY <1>1, <1>own DEF WorkerGoes, TypeOK
  <2>2. worker' \in WorkerState
    <3>1. worker' = [pc |-> worker'.pc, uploading |-> worker.uploading,
                     upload |-> worker.upload, sent |-> worker.sent,
                     inFlight |-> worker.inFlight, pending |-> worker.pending,
                     older |-> worker.older, open |-> worker.open]
      BY <1>1, <1>own DEF WorkerGoes, TypeOK
    <3>2. worker'.pc \in WorkerPc
      BY <2>1 DEF WorkerPc
    <3> QED BY <1>own, <3>1, <3>2 DEF TypeOK
  <2>3. flags' \in [uploading : BOOLEAN, quit : BOOLEAN, abort : BOOLEAN,
                    readComplete : BOOLEAN, failed : BOOLEAN]
        /\ async' \in BOOLEAN /\ missed' \in BOOLEAN
    BY <1>un, <1>own DEF TypeOK
  <2>4. Written'
    BY <1>1, <1>own DEF WorkerGoes, TypeOK, Written
  <2> QED BY <1>un, <1>own, <2>1, <2>2, <2>3, <2>4, WorkerMoves DEF WorkerOwns, Pumping, Stopping
<1>2. CASE /\ worker.inFlight < kMaxInFlightWrites /\ ring # <<>>
           /\ worker.pc = "pump"
           /\ worker' = [worker EXCEPT !.pc = "release", !.inFlight = @ + 1,
                                       !.sent = Append(@, Head(ring))]
  <2>1. /\ Head(ring) \in Chunk /\ Len(ring) > 0 /\ Head(ring) = ring[1]
        /\ worker.sent \in Seq(Chunk) /\ Len(worker.sent) \in Nat
    BY <1>2, <1>own DEF TypeOK
  <2>2. /\ worker'.sent \in Seq(Chunk) /\ Len(worker'.sent) = Len(worker.sent) + 1
        /\ \A k \in 1 .. Len(worker.sent) : worker'.sent[k] = worker.sent[k]
        /\ worker'.sent[Len(worker.sent) + 1] = Head(ring)
    <3>1. worker'.sent = Append(worker.sent, Head(ring))
      BY <1>2, <1>own DEF TypeOK
    <3> QED BY <2>1, <3>1
  <2>3. /\ worker'.pc = "release" /\ worker'.uploading = worker.uploading
        /\ worker'.upload = worker.upload /\ worker'.inFlight = worker.inFlight + 1
    BY <1>2, <1>own DEF TypeOK
  <2>4. TypeOK'
    <3>1. worker' = [pc |-> "release", uploading |-> worker.uploading,
                     upload |-> worker.upload, sent |-> worker'.sent,
                     inFlight |-> worker.inFlight + 1, pending |-> worker.pending,
                     older |-> worker.older, open |-> worker.open]
      BY <1>2, <1>own DEF TypeOK
    <3>2. /\ worker.inFlight + 1 \in 0 .. kMaxInFlightWrites
          /\ worker.uploading \in BOOLEAN /\ worker.upload \in 0 .. MaxUploads
      BY <1>2, <1>own DEF TypeOK
    <3>3. worker' \in WorkerState
      BY <2>2, <3>1, <3>2, <1>own DEF WorkerPc, TypeOK
    <3> QED BY <1>un, <1>own, <3>3 DEF TypeOK
  <2>5. ReaderOwns'
    BY <1>2, <1>un, <2>3 DEF IndInv, ReaderOwns, Stopping
  <2>6. WorkerOwns'
    BY <1>2, <1>un, <1>own, <2>1, <2>2, <2>3 DEF WorkerOwns, Pumping
  <2>7. Gone = Len(worker.sent) /\ Gone' = Gone
    BY <1>2, <2>1, <2>2, <2>3 DEF Gone
  <2>8. Stream'
    BY <1>un, <2>3, <2>7 DEF IndInv, Stream
  <2>9. ~leftover => Head(ring) = <<worker.upload, Len(worker.sent) + 1>>
    <3>1. worker.uploading
      BY <1>2, <1>own DEF WorkerOwns, Pumping
    <3>2. ~leftover => \A k \in 1 .. Len(ring) : ring[k] = <<worker.upload, Gone + k>>
      BY <3>1 DEF IndInv, Stream
    <3>3. 1 \in 1 .. Len(ring)
      BY <2>1, <1>own DEF TypeOK
    <3> QED BY <2>1, <2>7, <3>2, <3>3
  <2>10. ASSUME ~leftover, NEW k \in 1 .. Len(worker'.sent)
         PROVE  worker'.sent[k] = <<worker.upload, k>>
    <3>1. CASE k \in 1 .. Len(worker.sent)
      BY <2>2, <2>10, <3>1 DEF IndInv, Sent
    <3>2. CASE k = Len(worker.sent) + 1
      BY <2>2, <2>9, <2>10, <3>2
    <3> QED BY <2>1, <2>2, <2>10, <3>1, <3>2
  <2>11. Sent'
    BY <1>un, <2>3, <2>10 DEF Sent
  <2>12. Written'
    <3>1. worker.uploading
      BY <1>2, <1>own DEF WorkerOwns, Pumping
    <3> QED BY <1>2, <1>own, <3>1 DEF Written, TypeOK
  <2> QED BY <2>4, <2>5, <2>6, <2>8, <2>11, <2>12 DEF IndInv
<1> QED BY <1>1, <1>2 DEF Pump

(* release(): the chunk just sent leaves the ring. *)
LEMMA ReleaseInv == IndInv /\ ReleaseSlot => IndInv'
<1> SUFFICES ASSUME IndInv, ReleaseSlot PROVE IndInv'
  OBVIOUS
<1>own. TypeOK /\ WorkerOwns /\ Written
  BY DEF IndInv
<1>un. UNCHANGED <<reader, flags, async, missed, leftover>>
  BY DEF ReleaseSlot
<1>1. /\ worker.pc = "release" /\ worker'.pc = "notify"
      /\ worker'.uploading = worker.uploading /\ worker'.upload = worker.upload
      /\ worker'.sent = worker.sent /\ worker'.inFlight = worker.inFlight
      /\ worker' \in WorkerState
  BY <1>own DEF ReleaseSlot, WorkerGoes, TypeOK, WorkerPc
<1>2. ring \in Seq(Chunk) /\ ring # <<>> /\ worker.uploading
  BY <1>1, <1>own DEF TypeOK, WorkerOwns, Pumping
<1>3. /\ ring' \in Seq(Chunk) /\ Len(ring') = Len(ring) - 1 /\ Len(ring) \in Nat \ {0}
      /\ \A k \in 1 .. Len(ring') : ring'[k] = ring[k + 1]
  BY <1>2 DEF ReleaseSlot
<1>4. TypeOK'
  <2>1. Len(ring') <= SlotCount
    BY <1>3, <1>own DEF TypeOK
  <2> QED BY <1>un, <1>own, <1>1, <1>3, <2>1 DEF TypeOK
<1>5. ReaderOwns'
  <2>1. reader.pc \in {"read", "commit"} => Len(ring') < SlotCount
    BY <1>own, <1>3 DEF IndInv, ReaderOwns, TypeOK
  <2> QED BY <1>un, <1>1, <2>1 DEF IndInv, ReaderOwns, Stopping
<1>6. WorkerOwns' /\ Sent'
  BY <1>un, <1>1, <1>2 DEF IndInv, WorkerOwns, Sent, Pumping
<1>7. Gone \in Int /\ Gone' = Gone + 1
  BY <1>own, <1>1 DEF Gone, TypeOK
<1>8. Stream'
  <2> SUFFICES ASSUME ~leftover PROVE Stream'
    BY <1>un DEF Stream
  <2>1. \A k \in 1 .. Len(ring) : ring[k] = <<worker.upload, Gone + k>>
    BY <1>2 DEF IndInv, Stream
  <2>2. ASSUME NEW k \in 1 .. Len(ring') PROVE ring'[k] = <<worker.upload, Gone' + k>>
    <3>1. k \in Int /\ k + 1 \in 1 .. Len(ring)
      BY <1>3
    <3>2. Gone + (k + 1) = Gone' + k
      BY <1>7, <3>1
    <3> QED BY <1>3, <2>1, <3>1, <3>2
  <2>3. Gone + Len(ring) = Gone' + Len(ring')
    BY <1>3, <1>7
  <2>4. /\ reader.upload = worker.upload
        /\ Gone + Len(ring) + (IF reader.pc = "commit" THEN 1 ELSE 0) = Chunks - reader.remaining
        /\ reader.pc = "commit" => reader.slot = <<worker.upload, Gone + Len(ring) + 1>>
    BY <1>2 DEF IndInv, Stream
  <2> QED BY <1>un, <1>1, <2>2, <2>3, <2>4 DEF Stream
<1>9. Written'
  BY <1>own DEF ReleaseSlot, WorkerGoes, Written, TypeOK
<1> QED BY <1>4, <1>5, <1>6, <1>8, <1>9 DEF IndInv

(* Outside of an upload the writes of the last one are still under way. *)
LEMMA UploadOver ==
    ASSUME TypeOK, Written, NEW pc \in WorkerPc \ {"release", "notify"}, NEW open \in BOOLEAN,
           NEW uploading \in {worker.uploading, FALSE}, worker.pc \notin {"release", "notify"},
           worker' = [worker EXCEPT !.pc = pc, !.uploading = uploading, !.open = open]
    PROVE  /\ worker' \in WorkerState /\ Written'
           /\ worker'.pc = pc /\ worker'.uploading = uploading
           /\ worker'.upload = worker.upload /\ worker'.sent = worker.sent
<1>1. worker' = [pc |-> pc, uploading |-> uploading, upload |-> worker.upload,
                 sent |-> worker.sent, inFlight |-> worker.inFlight,
                 pending |-> worker.pending, older |-> worker.older, open |-> open]
  BY DEF TypeOK
<1>2. worker' \in WorkerState
  BY <1>1 DEF TypeOK
<1>3. /\ worker.pending \in Nat /\ worker.older \in Nat
      /\ worker.inFlight \in 0 .. kMaxInFlightWrites
  BY DEF TypeOK
<1>4. worker.pending <= worker.older + kMaxInFlightWrites + 2
  BY <1>3 DEF Written
<1>5. Written'
  BY <1>1, <1>3, <1>4 DEF Written
<1> QED BY <1>1, <1>2, <1>5

(* Every step: the reader's, the worker's, a spurious wake-up. *)
LEMMA NextInv == IndInv /\ [Next]_vars => IndInv'
<1> SUFFICES ASSUME IndInv, [Next]_vars PROVE IndInv'
  OBVIOUS
<1>own. TypeOK /\ WorkerOwns /\ Written
  BY DEF IndInv
<1>not. NotifyAll => missed' \in BOOLEAN
  BY <1>own DEF NotifyAll, TypeOK
<1>1. CASE NotifySpaceAvailable
  <2>1. PICK ok \in BOOLEAN :
          worker' = [worker EXCEPT !.pc = IF ok THEN "pump" ELSE "abort",
                                   !.pending = IF ok THEN @ + 1 ELSE @]
    BY <1>1 DEF NotifySpaceAvailable, Sending
  <2>2. worker' = [pc |-> IF ok THEN "pump" ELSE "abort", uploading |-> worker.uploading,
                   upload |-> worker.upload, sent |-> worker.sent,
                   inFlight |-> worker.inFlight,
                   pending |-> IF ok THEN worker.pending + 1 ELSE worker.pending,
                   older |-> worker.older, open |-> worker.open]
    BY <1>own, <2>1 DEF TypeOK
  <2>3. worker' \in WorkerState
    BY <1>own, <2>2 DEF TypeOK, WorkerPc
  <2>4. worker.pc = "notify" /\ worker.uploading
    BY <1>1, <1>own DEF NotifySpaceAvailable, Sending, WorkerOwns, Pumping
  <2>5. Written'
    BY <1>own, <2>2, <2>4 DEF Written, TypeOK
  <2> QED
    BY <1>1, <1>own, <1>not, <2>2, <2>3, <2>4, <2>5, WorkerMoves
    DEF NotifySpaceAvailable, TypeOK, Pumping, Stopping
<1>2. CASE AtEnd
  BY <1>2, <1>own, <1>not, WorkerMoves
  DEF AtEnd, WorkerGoes, TypeOK, WorkerOwns, WorkerPc, Pumping, Stopping, Written
<1>3. CASE FinishUpload
  <2>1. worker.pc = "isEmpty" /\ worker.uploading
    BY <1>3, <1>own DEF FinishUpload, WorkerGoes, WorkerOwns, Pumping
  <2>2. CASE worker' = [worker EXCEPT !.pc = "poll", !.uploading = FALSE, !.pending = @ + 1]
    <3>1. worker' = [pc |-> "poll", uploading |-> FALSE, upload |-> worker.upload,
                     sent |-> worker.sent, inFlight |-> worker.inFlight,
                     pending |-> worker.pending + 1, older |-> worker.older, open |-> worker.open]
      BY <1>own, <2>2 DEF TypeOK
    <3>2. worker' \in WorkerState
      BY <1>own, <3>1 DEF TypeOK, WorkerPc
    <3>3. worker.pending <= worker.older + worker.inFlight + 1
      BY <1>own, <2>1 DEF Written, TypeOK
    <3>4. /\ worker.pending \in Nat /\ worker.older \in Nat
          /\ worker.inFlight \in 0 .. kMaxInFlightWrites
      BY <1>own DEF TypeOK
    <3>5. Written'
      BY <3>1, <3>3, <3>4 DEF Written
    <3> QED
      BY <1>3, <1>own, <2>1, <3>1, <3>2, <3>5, WorkerMoves
      DEF FinishUpload, TypeOK, Pumping, Stopping
  <2>3. CASE WorkerGoes("isEmpty", "abort") \/ WorkerGoes("isEmpty", "poll")
    <3>1. PICK pc \in {"abort", "poll"} :
            worker' = [worker EXCEPT !.pc = pc, !.uploading = worker.uploading,
                                     !.open = worker.open]
      BY <1>own, <2>3 DEF WorkerGoes, TypeOK
    <3>2. worker.open \in BOOLEAN /\ pc \in WorkerPc
      BY <1>own DEF TypeOK, WorkerPc
    <3>3. /\ worker' \in WorkerState /\ Written'
          /\ worker'.pc = pc /\ worker'.uploading = worker.uploading
          /\ worker'.upload = worker.upload /\ worker'.sent = worker.sent
      BY <1>own, <2>1, <3>1, <3>2, UploadOver
    <3> QED
      BY <1>3, <1>own, <2>1, <3>3, WorkerMoves DEF FinishUpload, TypeOK, Pumping, Stopping
  <2> QED BY <1>3, <2>2, <2>3 DEF FinishUpload
<1>4. CASE AbortUpload
  <2>1. /\ worker' \in WorkerState /\ Written'
        /\ worker'.pc = "abortNotify" /\ worker'.uploading = FALSE
        /\ worker'.upload = worker.upload /\ worker'.sent = worker.sent
    BY <1>4, <1>own, UploadOver DEF AbortUpload, WorkerPc
  <2>2. flags' \in [uploading : BOOLEAN, quit : BOOLEAN, abort : BOOLEAN,
                    readComplete : BOOLEAN, failed : BOOLEAN]
        /\ flags'.uploading = flags.uploading
    BY <1>4, <1>own DEF AbortUpload, TypeOK
  <2> QED
    BY <1>4, <1>own, <2>1, <2>2, WorkerMoves DEF AbortUpload, TypeOK, Pumping, Stopping
<1>5. CASE AbortNotify
  BY <1>5, <1>own, <1>not, WorkerMoves
  DEF AbortNotify, WorkerGoes, TypeOK, WorkerOwns, WorkerPc, Pumping, Stopping, Written
<1>6. CASE QuitNotify
  BY <1>6, <1>own, <1>not, WorkerMoves
  DEF QuitNotify, WorkerGoes, TypeOK, WorkerOwns, WorkerPc, Pumping, Stopping, Written
<1>7. CASE StopLock
  BY <1>7, <1>own, <1>not, WorkerMoves
  DEF StopLock, WorkerGoes, TypeOK, WorkerOwns, WorkerPc, Pumping, Stopping, Written
<1>8. CASE StopNotify
  BY <1>8, <1>own, <1>not, WorkerMoves
  DEF StopNotify, WorkerGoes, TypeOK, WorkerOwns, WorkerPc, Pumping, Stopping, Written
<1>9. CASE Join
  BY <1>9, <1>own, <1>not, WorkerMoves
  DEF Join, WorkerGoes, TypeOK, WorkerOwns, WorkerPc, Pumping, Stopping, Written
<1>10. CASE StartUpload
  BY <1>10, <1>own, <1>not, WorkerMoves
  DEF StartUpload, WorkerGoes, TypeOK, WorkerOwns, WorkerPc, Pumping, Stopping, Written
<1>11. CASE OnAsync
  BY <1>11, <1>own, <1>not, WorkerMoves
  DEF OnAsync, WorkerGoes, TypeOK, WorkerOwns, WorkerPc, Pumping, Stopping, Written
<1>12. CASE OnSendComplete
  <2>1. PICK ok \in BOOLEAN :
          worker' = [worker EXCEPT !.pending = @ - 1,
                                   !.inFlight = IF @ > 0 THEN @ - 1 ELSE 0,
                                   !.open = ok,
                                   !.pc = CASE ~worker.uploading -> "poll"
                                            [] worker.uploading /\ ok -> "pump"
                                            [] OTHER -> "abort"]
    BY <1>12, <1>own DEF OnSendComplete, TypeOK
  <2>2. /\ worker.pc = "poll" /\ worker.pending \in Nat \ {0}
        /\ worker'.pc \in {"poll", "pump", "abort"}
        /\ worker'.pc = "pump" => worker.uploading
    BY <1>12, <1>own, <2>1 DEF OnSendComplete, TypeOK
  <2>3. worker' = [pc |-> worker'.pc, uploading |-> worker.uploading,
                   upload |-> worker.upload, sent |-> worker.sent,
                   inFlight |-> IF worker.inFlight > 0 THEN worker.inFlight - 1 ELSE 0,
                   pending |-> worker.pending - 1, older |-> worker.older, open |-> ok]
    BY <1>own, <2>1 DEF TypeOK
  <2>4. worker' \in WorkerState
    <3>1. (IF worker.inFlight > 0 THEN worker.inFlight - 1 ELSE 0) \in 0 .. kMaxInFlightWrites
      BY <1>own DEF TypeOK
    <3>2. worker'.pc \in WorkerPc /\ worker.pending - 1 \in Nat
      BY <2>2 DEF WorkerPc
    <3> QED BY <1>own, <2>3, <3>1, <3>2 DEF TypeOK
  <2>5. Written'
    <3>0. /\ worker.pending \in Nat /\ worker.older \in Nat
          /\ worker.inFlight \in 0 .. kMaxInFlightWrites
          /\ worker'.pc \notin {"release", "notify"}
      BY <1>own, <2>2 DEF TypeOK
    <3>1. CASE worker.uploading
      BY <1>own, <2>2, <2>3, <3>0, <3>1 DEF Written
    <3>2. CASE ~worker.uploading
      BY <1>own, <2>2, <2>3, <3>0, <3>2 DEF Written
    <3> QED BY <3>1, <3>2
  <2> QED
    BY <1>12, <1>own, <2>2, <2>3, <2>4, <2>5, WorkerMoves
    DEF OnSendComplete, TypeOK, Pumping, Stopping
<1>13. CASE Interrupt
  <2>1. CASE WorkerGoes("poll", "abort")
    BY <1>13, <1>own, <2>1, WorkerMoves
    DEF Interrupt, WorkerGoes, TypeOK, WorkerOwns, WorkerPc, Pumping, Stopping, Written
  <2>2. CASE worker.pc = "poll" /\ worker' = [worker EXCEPT !.open = FALSE]
    <3>1. worker' = [worker EXCEPT !.pc = "poll", !.uploading = worker.uploading, !.open = FALSE]
      BY <1>own, <2>2 DEF TypeOK
    <3>2. /\ worker' \in WorkerState /\ Written'
          /\ worker'.pc = "poll" /\ worker'.uploading = worker.uploading
          /\ worker'.upload = worker.upload /\ worker'.sent = worker.sent
      BY <1>own, <2>2, <3>1, UploadOver DEF WorkerPc
    <3> QED
      BY <1>13, <1>own, <2>2, <3>2, WorkerMoves DEF Interrupt, TypeOK, Pumping, Stopping
  <2> QED BY <1>13, <2>1, <2>2 DEF Interrupt
<1>14. CASE Quit
  <2>1. worker' = [worker EXCEPT !.pc = "quitNotify", !.uploading = FALSE, !.open = worker.open]
    BY <1>14, <1>own DEF Quit, TypeOK
  <2>2. /\ worker' \in WorkerState /\ Written'
        /\ worker'.pc = "quitNotify" /\ worker'.uploading = FALSE
        /\ worker'.upload = worker.upload /\ worker'.sent = worker.sent
    <3>1. worker.open \in BOOLEAN /\ worker.pc = "poll"
      BY <1>14, <1>own DEF Quit, TypeOK
    <3> QED BY <1>own, <2>1, <3>1, UploadOver DEF WorkerPc
  <2>3. flags' \in [uploading : BOOLEAN, quit : BOOLEAN, abort : BOOLEAN,
                    readComplete : BOOLEAN, failed : BOOLEAN]
        /\ flags'.uploading = flags.uploading
    BY <1>14, <1>own DEF Quit, TypeOK
  <2> QED
    BY <1>14, <1>own, <2>2, <2>3, WorkerMoves DEF Quit, TypeOK, Pumping, Stopping
<1>15. CASE DrainRing("drainForStart", "begin") \/ DrainRing("drainForAbort", "poll")
  BY <1>15, DrainInv
<1>16. CASE BeginUpload \/ Pump \/ ReleaseSlot
  BY <1>16, BeginInv, PumpInv, ReleaseInv
<1>17. CASE ReaderStep
  BY <1>17, ReaderInv
<1>18. CASE SpuriousWake
  BY <1>18, <1>own, ReaderAlone DEF SpuriousWake, TypeOK, ReaderPc, Idle
<1>19. CASE UNCHANGED vars
  <2>1. TypeOK'
    BY <1>19, <1>own DEF vars, TypeOK
  <2>2. ReaderOwns' /\ WorkerOwns'
    BY <1>19 DEF vars, IndInv, ReaderOwns, WorkerOwns
  <2>3. Stream' /\ Sent' /\ Written'
    BY <1>19 DEF vars, IndInv, Stream, Gone, Sent, Written
  <2> QED BY <2>1, <2>2, <2>3 DEF IndInv
<1>20. CASE Reconnect
  <2>1. worker.pc = "poll" /\ worker.pending = 0
    BY <1>20 DEF Reconnect
  <2>2. worker' = [pc |-> "poll", uploading |-> worker.uploading, upload |-> worker.upload,
                   sent |-> worker.sent, inFlight |-> worker.inFlight,
                   pending |-> 0, older |-> 0, open |-> TRUE]
    BY <1>20, <1>own DEF Reconnect, TypeOK
  <2>3. worker' \in WorkerState
    BY <1>own, <2>2 DEF TypeOK, WorkerPc
  <2>4. worker.inFlight \in 0 .. kMaxInFlightWrites
    BY <1>own DEF TypeOK
  <2>5. Written'
    BY <2>2, <2>4 DEF Written
  <2> QED
    BY <1>20, <1>own, <2>1, <2>2, <2>3, <2>5, WorkerMoves DEF Reconnect, TypeOK, Pumping, Stopping
<1> QED
  BY <1>1, <1>2, <1>3, <1>4, <1>5, <1>6, <1>7, <1>8, <1>9, <1>10, <1>11,
     <1>12, <1>13, <1>14, <1>15, <1>16, <1>17, <1>18, <1>19, <1>20
  DEF Next, WorkerStep, Stopped
-----------------------------------------------------------------------------
(* The inductive invariant holds of every behaviour. *)
THEOREM Invariance == Spec => []IndInv
<1> QED BY InitInv, NextInv, PTL DEF Spec

(* What pumpUpload() sends of an upload is that reading of the file from its    *)
(* beginning, whatever the interleaving with the reader, unless a chunk was     *)
(* committed between drainRing() and beginUpload().                             *)
THEOREM SentIsTheFile == Spec => []SentIsFileBarringLeftover
<1>1. IndInv => SentIsFileBarringLeftover
  BY SentIsFileBarring DEF IndInv
<1> QED BY <1>1, Invariance, PTL

(* Whatever the sizes, libuv never holds more than kMaxInFlightWrites writes    *)
(* of an upload beside its header and its trailer, which _inFlightWrites does   *)
(* not count (StartUpload, pumpUpload(), onSendComplete(), finishUpload()).     *)
THEOREM WritesStayBounded == Spec => []WritesBounded
<1>1. IndInv => WritesBounded
  <2> SUFFICES ASSUME IndInv PROVE WritesBounded
    OBVIOUS
  <2>1. TypeOK /\ Written
    BY DEF IndInv
  <2>2. CASE worker.uploading
    BY <2>1, <2>2 DEF TypeOK, Written, WritesBounded
  <2>3. CASE ~worker.uploading
    BY <2>1, <2>3 DEF TypeOK, Written, WritesBounded
  <2> QED BY <2>2, <2>3
<1> QED BY <1>1, Invariance, PTL
=============================================================================
