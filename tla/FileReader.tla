----------------------------- MODULE FileReader -----------------------------
(***************************************************************************)
(* The client's file-reader thread and the worker loop that empties its     *)
(* ring, one shared access per step.  The reader fills the ring under       *)
(* _mutex and _cv; the worker begins, pumps and aborts uploads.  The reader *)
(* sleeps on _cv when the ring is full; notifySpaceAvailable() and          *)
(* abortUpload() notify without holding _mutex, so the reader has a state   *)
(* of its own between the test of the wait's condition and the sleep.       *)
(*                                                                         *)
(* A chunk is <<upload, position>>: what is sent shows which reading of the *)
(* file it came from.  A slot holds one chunk.  Of the socket the model has *)
(* whether it is open and how many writes libuv holds: the upload's header, *)
(* its chunks and its trailer, each of which reports to onSendComplete().   *)
(***************************************************************************)
EXTENDS Integers, Sequences

CONSTANTS SlotCount,           \* slots of the ring
          Chunks,              \* chunks of the selected file
          kMaxInFlightWrites,
          MaxUploads           \* bound on the uploads begun

ASSUME ReaderAssumption ==
    /\ SlotCount \in Nat \ {0}
    /\ Chunks \in Nat
    /\ kMaxInFlightWrites \in Nat \ {0}
    /\ MaxUploads \in Nat

VARIABLES reader,    \* the reader thread: pc, _remaining, the upload it reads, the slot it fills
          ring,
          flags,     \* _uploading, _quit under _mutex; three atomics
          worker,    \* the worker loop: pc and its upload fields
          async,     \* the worker's uv_async is pending
          missed,    \* history: the last notification met the reader awake, not yet asleep
          leftover   \* history: an upload began with an old chunk in the ring

vars == <<reader, ring, flags, worker, async, missed, leftover>>

\* The reader holds _mutex only while it decides whether to sleep.
ReaderPc == {"idleLock", "idleAsleep", "check", "acquire", "fullLock", "fullEval",
             "fullSleep", "fullAsleep", "fullOut", "read", "commit", "wake",
             "complete", "completeWake", "close", "exited"}
HoldsMutex == {"fullEval", "fullSleep", "fullOut"}
MutexFree == reader.pc \notin HoldsMutex

WorkerPc == {"poll", "drainForStart", "begin", "pump", "release", "notify", "atEnd",
             "isEmpty", "abort", "abortNotify", "drainForAbort", "quitNotify", "stopLock",
             "stopNotify", "join", "stopped"}

Chunk == (1 .. MaxUploads) \X (1 .. Chunks)
NoChunk == <<0, 0>>

Init ==
    /\ reader = [pc |-> "idleLock", remaining |-> 0, upload |-> 0, slot |-> NoChunk]
    /\ ring = <<>>
    /\ flags = [uploading |-> FALSE, quit |-> FALSE, abort |-> FALSE,
                readComplete |-> FALSE, failed |-> FALSE]
    /\ worker = [pc |-> "poll", uploading |-> FALSE, upload |-> 0, sent |-> <<>>,
                 inFlight |-> 0,    \* _inFlightWrites
                 pending |-> 0,     \* writes libuv holds
                 older |-> 0,       \* how many it held when the upload began
                 open |-> TRUE]     \* the socket is there and not closing
    /\ async = FALSE
    /\ missed = FALSE
    /\ leftover = FALSE

Full == Len(ring) = SlotCount
-----------------------------------------------------------------------------
(* The reader thread. *)

ReaderGoes(from, to) ==
    /\ reader.pc = from
    /\ reader' = [reader EXCEPT !.pc = to]

\* run(): what the condition reads changes under _mutex only, so test and sleep are one step.
IdleWait ==
    /\ ReaderGoes("idleLock", CASE flags.quit -> "exited"
                                [] ~flags.quit /\ flags.uploading -> "check"
                                [] OTHER -> "idleAsleep")
    /\ UNCHANGED <<ring, flags, worker, async, missed, leftover>>

CheckAbort ==
    /\ ReaderGoes("check", IF flags.abort THEN "close" ELSE "acquire")
    /\ UNCHANGED <<ring, flags, worker, async, missed, leftover>>

TryAcquire ==
    /\ ReaderGoes("acquire", IF Full THEN "fullLock" ELSE "read")
    /\ UNCHANGED <<ring, flags, worker, async, missed, leftover>>

FullLock ==
    /\ ReaderGoes("fullLock", "fullEval")
    /\ UNCHANGED <<ring, flags, worker, async, missed, leftover>>

FullEval ==
    /\ ReaderGoes("fullEval", IF flags.quit \/ flags.abort \/ ~Full THEN "fullOut"
                              ELSE "fullSleep")
    /\ UNCHANGED <<ring, flags, worker, async, missed, leftover>>

FullSleep ==
    /\ ReaderGoes("fullSleep", "fullAsleep")
    /\ UNCHANGED <<ring, flags, worker, async, missed, leftover>>

\* A condition variable may wake a thread that nobody notified.
SpuriousWake ==
    /\ ReaderGoes("fullAsleep", "fullLock")
    /\ missed' = FALSE
    /\ UNCHANGED <<ring, flags, worker, async, leftover>>

FullOut ==
    /\ ReaderGoes("fullOut", IF flags.quit \/ flags.abort THEN "close" ELSE "check")
    /\ UNCHANGED <<ring, flags, worker, async, missed, leftover>>

\* The read under _mutex: a chunk, the end of the upload, or a file cut short.
ReadChunk ==
    \/ /\ reader.remaining > 0
       /\ reader.pc = "read"
       /\ reader' = [reader EXCEPT !.pc = "commit", !.remaining = @ - 1,
                        !.slot = <<reader.upload, Chunks - reader.remaining + 1>>]
       /\ UNCHANGED <<ring, flags, worker, async, missed, leftover>>
    \/ /\ reader.remaining = 0
       /\ ReaderGoes("read", "complete")
       /\ UNCHANGED <<ring, flags, worker, async, missed, leftover>>
    \/ /\ reader.remaining > 0
       /\ ReaderGoes("read", "close")
       /\ flags' = [flags EXCEPT !.failed = TRUE]
       /\ async' = TRUE
       /\ UNCHANGED <<ring, worker, missed, leftover>>

CommitChunk ==
    /\ reader.pc = "commit"
    /\ reader' = [reader EXCEPT !.pc = "wake", !.slot = NoChunk]
    /\ ring' = Append(ring, reader.slot)
    /\ UNCHANGED <<flags, worker, async, missed, leftover>>

WakeWorker ==
    /\ ReaderGoes("wake", "check")
    /\ async' = TRUE
    /\ UNCHANGED <<ring, flags, worker, missed, leftover>>

ReadComplete ==
    /\ ReaderGoes("complete", "completeWake")
    /\ flags' = [flags EXCEPT !.readComplete = TRUE]
    /\ UNCHANGED <<ring, worker, async, missed, leftover>>

CompleteWake ==
    /\ ReaderGoes("completeWake", "close")
    /\ async' = TRUE
    /\ UNCHANGED <<ring, flags, worker, missed, leftover>>

\* run() after readLoop(): _mutex is free, the worker holds it only within a step.
CloseFile ==
    /\ ReaderGoes("close", "idleLock")
    /\ flags' = [flags EXCEPT !.uploading = FALSE]
    /\ UNCHANGED <<ring, worker, async, missed, leftover>>

ReaderStep ==
    \/ IdleWait \/ CheckAbort \/ TryAcquire \/ FullLock \/ FullEval \/ FullSleep
    \/ FullOut \/ ReadChunk \/ CommitChunk \/ WakeWorker \/ ReadComplete
    \/ CompleteWake \/ CloseFile
-----------------------------------------------------------------------------
(* The worker loop. *)

WorkerGoes(from, to) ==
    /\ worker.pc = from
    /\ worker' = [worker EXCEPT !.pc = to]

\* notify_all(): wakes the reader if it sleeps, is lost if it does not.
NotifyAll ==
    /\ reader' = [reader EXCEPT !.pc = CASE @ = "idleAsleep" -> "idleLock"
                                         [] @ = "fullAsleep" -> "fullLock"
                                         [] OTHER -> @]
    /\ missed' = \/ reader.pc = "fullSleep"
                 \/ missed /\ reader.pc # "fullAsleep"

\* StartUpload: the worker's own _uploading and the socket are checked, then drainRing().
StartUpload ==
    /\ ~worker.uploading /\ worker.open
    /\ worker.upload < MaxUploads
    /\ WorkerGoes("poll", "drainForStart")
    /\ UNCHANGED <<reader, ring, flags, async, missed, leftover>>

\* drainRing(): slots one by one, then a notification.
DrainRing(from, to) ==
    \/ /\ worker.pc = from
       /\ ring # <<>>
       /\ ring' = Tail(ring)
       /\ UNCHANGED <<reader, flags, worker, async, missed, leftover>>
    \/ /\ ring = <<>>
       /\ WorkerGoes(from, to)
       /\ NotifyAll
       /\ UNCHANGED <<ring, flags, async, leftover>>

\* Faulty variant: a reader still busy with the last upload is not noticed.
BeginUnchecked ==
    /\ worker.pc = "begin"
    /\ MutexFree
    /\ flags' = [flags EXCEPT !.uploading = TRUE, !.abort = FALSE,
                              !.readComplete = FALSE, !.failed = FALSE]
    /\ reader' = [reader EXCEPT !.remaining = Chunks, !.upload = worker.upload + 1,
                                !.pc = IF @ = "idleAsleep" THEN "idleLock" ELSE @]
    /\ worker' = [worker EXCEPT !.pc = "pump", !.uploading = TRUE, !.inFlight = 0,
                                !.upload = @ + 1, !.sent = <<>>,
                                !.older = worker.pending, !.pending = @ + 1]
    /\ leftover' = (leftover \/ ring # <<>>)
    /\ UNCHANGED <<ring, async, missed>>

\* beginUpload(): refused while the reader is still busy or the file cannot be opened.
\* Then the header, whose send may fail.
BeginUpload ==
    /\ worker.pc = "begin"
    /\ MutexFree
    /\ \/ /\ WorkerGoes("begin", "poll")
          /\ UNCHANGED <<reader, ring, flags, async, missed, leftover>>
       \/ /\ ~flags.uploading
          /\ flags' = [flags EXCEPT !.uploading = TRUE, !.abort = FALSE,
                                    !.readComplete = FALSE, !.failed = FALSE]
          /\ reader' = [reader EXCEPT !.remaining = Chunks, !.upload = worker.upload + 1,
                                      !.pc = IF @ = "idleAsleep" THEN "idleLock" ELSE @]
          /\ \E ok \in BOOLEAN :
                worker' = [worker EXCEPT !.pc = IF ok THEN "pump" ELSE "abort",
                              !.uploading = TRUE, !.inFlight = 0,
                              !.upload = @ + 1, !.sent = <<>>,
                              !.older = worker.pending,
                              !.pending = IF ok THEN @ + 1 ELSE @]
          /\ leftover' = (leftover \/ ring # <<>>)
          /\ UNCHANGED <<ring, async, missed>>

\* The uv_async callback ends in pumpUpload().
OnAsync ==
    /\ async
    /\ async' = FALSE
    /\ WorkerGoes("poll", IF worker.uploading THEN "pump" ELSE "poll")
    /\ UNCHANGED <<reader, ring, flags, missed, leftover>>

\* A write was done, be it the header, a chunk or the trailer (pumpUpload follows), or
\* could not be: the upload is aborted and onError() closes the socket.  The writes of a
\* closed socket all fail.
OnSendComplete ==
    /\ worker.pc = "poll"
    /\ worker.pending > 0
    /\ \E ok \in {worker.open, FALSE} :
          worker' = [worker EXCEPT !.pending = @ - 1,
                                   !.inFlight = IF @ > 0 THEN @ - 1 ELSE 0,
                                   !.open = ok,
                                   !.pc = CASE ~worker.uploading -> "poll"
                                            [] worker.uploading /\ ok -> "pump"
                                            [] OTHER -> "abort"]
    /\ UNCHANGED <<reader, ring, flags, async, missed, leftover>>

\* Faulty variant: one write more than the limit.
PumpOneMore ==
    /\ \/ /\ flags.failed
          /\ MutexFree
          /\ WorkerGoes("pump", "abort")
       \/ /\ ~flags.failed
          /\ worker.inFlight <= kMaxInFlightWrites /\ ring # <<>>
          /\ worker.pc = "pump"
          /\ worker' = [worker EXCEPT !.pc = "release", !.inFlight = @ + 1,
                                      !.sent = Append(@, Head(ring))]
       \/ /\ ~flags.failed
          /\ worker.inFlight > kMaxInFlightWrites \/ ring = <<>>
          /\ WorkerGoes("pump", "atEnd")
    /\ UNCHANGED <<reader, ring, flags, async, missed, leftover>>

\* pumpUpload(): the failure flag (its text is under _mutex), then chunk by chunk.
Pump ==
    /\ \/ /\ flags.failed
          /\ MutexFree
          /\ WorkerGoes("pump", "abort")
       \/ /\ ~flags.failed
          /\ worker.inFlight < kMaxInFlightWrites /\ ring # <<>>
          /\ worker.pc = "pump"
          /\ worker' = [worker EXCEPT !.pc = "release", !.inFlight = @ + 1,
                                      !.sent = Append(@, Head(ring))]
       \/ /\ ~flags.failed
          /\ worker.inFlight = kMaxInFlightWrites \/ ring = <<>>
          /\ WorkerGoes("pump", "atEnd")
    /\ UNCHANGED <<reader, ring, flags, async, missed, leftover>>

ReleaseSlot ==
    /\ WorkerGoes("release", "notify")
    /\ ring' = Tail(ring)
    /\ UNCHANGED <<reader, flags, async, missed, leftover>>

\* The outcome of the send before the slot was released.
Sending ==
    /\ worker.pc = "notify"
    /\ \E ok \in BOOLEAN :
          worker' = [worker EXCEPT !.pc = IF ok THEN "pump" ELSE "abort",
                                   !.pending = IF ok THEN @ + 1 ELSE @]

\* Faulty variant: the reader is not told of the free slot.
NoNotify ==
    /\ Sending
    /\ UNCHANGED <<reader, ring, flags, async, missed, leftover>>

\* notifySpaceAvailable().
NotifySpaceAvailable ==
    /\ Sending
    /\ NotifyAll
    /\ UNCHANGED <<ring, flags, async, leftover>>

\* readComplete() is read before ring().empty().
AtEnd ==
    /\ WorkerGoes("atEnd", IF flags.readComplete THEN "isEmpty" ELSE "poll")
    /\ UNCHANGED <<reader, ring, flags, async, missed, leftover>>

AllSent == ring = <<>> /\ Len(worker.sent) >= Chunks

\* finishUpload(): the trailer, whose send may fail.
FinishUpload ==
    /\ \/ AllSent /\ worker.pc = "isEmpty"
          /\ worker' = [worker EXCEPT !.pc = "poll", !.uploading = FALSE, !.pending = @ + 1]
       \/ AllSent /\ WorkerGoes("isEmpty", "abort")
       \/ ~AllSent /\ WorkerGoes("isEmpty", "poll")
    /\ UNCHANGED <<reader, ring, flags, async, missed, leftover>>

\* Cancel, Disconnect or a socket error.
Interrupt ==
    /\ worker.open
    /\ \/ worker.uploading /\ WorkerGoes("poll", "abort")
       \/ /\ ~worker.uploading /\ worker.pc = "poll"
          /\ worker' = [worker EXCEPT !.open = FALSE]
    /\ UNCHANGED <<reader, ring, flags, async, missed, leftover>>

\* onClosed() after the last completion, then a new connection.
Reconnect ==
    /\ ~worker.open /\ worker.pending = 0 /\ worker.pc = "poll"
    /\ worker' = [worker EXCEPT !.open = TRUE, !.older = 0]
    /\ UNCHANGED <<reader, ring, flags, async, missed, leftover>>

\* abortUpload(): the flag, a notification, drainRing(); the socket is closed.
AbortUpload ==
    /\ worker.pc = "abort"
    /\ worker' = [worker EXCEPT !.pc = "abortNotify", !.uploading = FALSE, !.open = FALSE]
    /\ flags' = [flags EXCEPT !.abort = TRUE]
    /\ UNCHANGED <<reader, ring, async, missed, leftover>>

AbortNotify ==
    /\ WorkerGoes("abortNotify", "drainForAbort")
    /\ NotifyAll
    /\ UNCHANGED <<ring, flags, async, leftover>>

\* QuitCommand: abortUpload() of the reader; the loop ends.
Quit ==
    /\ worker.pc = "poll"
    /\ worker' = [worker EXCEPT !.pc = "quitNotify", !.uploading = FALSE]
    /\ flags' = [flags EXCEPT !.abort = TRUE]
    /\ UNCHANGED <<reader, ring, async, missed, leftover>>

QuitNotify ==
    /\ WorkerGoes("quitNotify", "stopLock")
    /\ NotifyAll
    /\ UNCHANGED <<ring, flags, async, leftover>>

\* Faulty variant: stop() sets _quit and _abort without waiting for _mutex.
StopUnlocked ==
    /\ WorkerGoes("stopLock", "stopNotify")
    /\ flags' = [flags EXCEPT !.quit = TRUE, !.uploading = FALSE, !.abort = TRUE]
    /\ UNCHANGED <<reader, ring, async, missed, leftover>>

\* FileReader::stop().
StopLock ==
    /\ MutexFree
    /\ WorkerGoes("stopLock", "stopNotify")
    /\ flags' = [flags EXCEPT !.quit = TRUE, !.uploading = FALSE, !.abort = TRUE]
    /\ UNCHANGED <<reader, ring, async, missed, leftover>>

StopNotify ==
    /\ WorkerGoes("stopNotify", "join")
    /\ NotifyAll
    /\ UNCHANGED <<ring, flags, async, leftover>>

Join ==
    /\ reader.pc = "exited"
    /\ WorkerGoes("join", "stopped")
    /\ UNCHANGED <<reader, ring, flags, async, missed, leftover>>

\* What the worker does without waiting for anyone but _mutex.
WorkerStep ==
    \/ DrainRing("drainForStart", "begin") \/ BeginUpload \/ Pump \/ ReleaseSlot
    \/ NotifySpaceAvailable \/ AtEnd \/ FinishUpload \/ AbortUpload \/ AbortNotify
    \/ DrainRing("drainForAbort", "poll") \/ QuitNotify \/ StopLock \/ StopNotify \/ Join

Stopped == worker.pc = "stopped" /\ UNCHANGED vars

Next ==
    \/ ReaderStep \/ SpuriousWake
    \/ WorkerStep \/ StartUpload \/ OnAsync \/ OnSendComplete \/ Interrupt \/ Reconnect \/ Quit
    \/ Stopped

Spec == Init /\ [][Next]_vars

\* Both threads run, the mutex is not withheld for ever, asyncs and write
\* completions are delivered.
FairSpec ==
    /\ Spec
    /\ WF_vars(ReaderStep)
    /\ SF_vars(WorkerStep)
    /\ WF_vars(OnAsync)
    /\ WF_vars(OnSendComplete)
-----------------------------------------------------------------------------
(* Properties. *)

WorkerState == [pc : WorkerPc, uploading : BOOLEAN, upload : 0 .. MaxUploads,
                sent : Seq(Chunk), inFlight : 0 .. kMaxInFlightWrites,
                pending : Nat, older : Nat, open : BOOLEAN]

\* Every pc is one of its thread's; the ring, _inFlightWrites and what is sent stay
\* within the slots, the limit and the file.
TypeOK ==
    /\ reader \in [pc : ReaderPc, remaining : 0 .. Chunks, upload : 0 .. MaxUploads,
                   slot : Chunk \cup {NoChunk}]
    /\ ring \in Seq(Chunk) /\ Len(ring) <= SlotCount
    /\ flags \in [uploading : BOOLEAN, quit : BOOLEAN, abort : BOOLEAN,
                  readComplete : BOOLEAN, failed : BOOLEAN]
    /\ worker \in WorkerState
    /\ async \in BOOLEAN /\ missed \in BOOLEAN /\ leftover \in BOOLEAN

\* What the worker sends of an upload is the beginning of that reading of the file.
SentIsFile ==
    worker.sent = [k \in 1 .. Len(worker.sent) |-> <<worker.upload, k>>]

\* libuv never holds more than kMaxInFlightWrites writes of an upload and two: the header
\* is not counted, though its completion is, and neither is the trailer.  What it holds
\* from before, on the same connection, comes on top (_inFlightWrites is set to 0).
WritesBounded ==
    worker.pending <= worker.older + kMaxInFlightWrites + IF worker.uploading THEN 1 ELSE 2

\* No chunk of an earlier upload is sent, unless the reader committed one between
\* drainRing() and beginUpload() of StartUpload.
SentIsFileBarringLeftover == leftover \/ SentIsFile

\* An upload is always finished or aborted, unless the reader went to sleep for ever on
\* a notification that came between its look at the ring and its sleep.
UploadEndsBarringMissed == <>[]missed \/ (worker.uploading ~> ~worker.uploading)

\* An upload is always finished or aborted while writes complete.
UploadEnds == worker.uploading ~> ~worker.uploading

\* stop() joins the reader whatever it is doing, a missed notification included.
StopJoinsReader == worker.pc = "stopLock" ~> worker.pc = "stopped"
=============================================================================
