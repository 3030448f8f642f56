-------------------------- MODULE ParserHandshake --------------------------
(***************************************************************************)
(* The loop thread and the parser thread, one shared access per step: the   *)
(* mutex and condition variable of ParserThread, its atomic flags, the ring *)
(* as a count of slots and the coalescing uv_async signals.  ServerSession  *)
(* runs a whole loop callback as one action; here the parser can act        *)
(* between any two accesses of a callback.                                  *)
(*                                                                         *)
(* The flags and the ring's indices are release stores and acquire loads,   *)
(* which do not order a store before a later load of the same thread: a     *)
(* thread's atomic stores wait in its own FIFO and reach the other thread   *)
(* later.  Taking the mutex and sending an async are read-modify-write      *)
(* operations and wait until they have.  Parsing the bytes of a slot and    *)
(* resetting the statistics outlast any such delay.                         *)
(***************************************************************************)
EXTENDS Integers, Sequences

CONSTANTS SlotCount,     \* slots of the ring
          MaxSlots,      \* bound on the slots of one upload
          MaxSessions    \* bound on the sessions served

ASSUME HandshakeAssumption ==
    /\ SlotCount \in Nat \ {0, 1}
    /\ MaxSlots \in Nat
    /\ MaxSessions \in Nat \ {0}

VARIABLES loop,    \* the loop thread and the session it drives
          parser,  \* pc of the parser thread
          mem,     \* shared memory; the ring as each thread counts it
          buf,     \* stores not visible to the other thread yet
          mutex, async

vars == <<loop, parser, mem, buf, mutex, async>>

Init ==
    /\ loop = [pc |-> "idle", state |-> "Closed", reading |-> FALSE, left |-> 0,
               trailer |-> FALSE, held |-> FALSE, sessions |-> 0]
    /\ parser = "lock"
    /\ mem = [seenByLoop |-> 0, seenByParser |-> 0, readStopped |-> FALSE,
              abort |-> FALSE, uploadComplete |-> FALSE, stop |-> FALSE]
    /\ buf = [loop |-> <<>>, parser |-> <<>>]
    /\ mutex = "free"
    /\ async = {}
-----------------------------------------------------------------------------
(* Memory. *)

Apply(m, store) ==
    CASE store = "tail" -> [m EXCEPT !.seenByParser = @ + 1]
      [] store = "head" -> [m EXCEPT !.seenByLoop = @ - 1]
      [] store = "stopped" -> [m EXCEPT !.readStopped = TRUE]
      [] store = "running" -> [m EXCEPT !.readStopped = FALSE]
      [] store = "abortClear" -> [m EXCEPT !.abort = FALSE]
      [] store = "uploadClear" -> [m EXCEPT !.uploadComplete = FALSE]

\* thread makes these stores, in this order, starting from memory m.
Store(thread, m, stores) ==
    /\ mem' = m
    /\ buf' = [buf EXCEPT ![thread] = @ \o stores]

\* All that thread stored is visible.
Flushed(thread) == buf[thread] = <<>>

\* Long computations of the parser begin when earlier stores have become visible.
Settled == Flushed("loop") /\ Flushed("parser")

BecomesVisible(thread) ==
    /\ buf[thread] # <<>>
    /\ mem' = Apply(mem, Head(buf[thread]))
    /\ buf' = [buf EXCEPT ![thread] = Tail(@)]
    /\ UNCHANGED <<loop, parser, mutex, async>>
-----------------------------------------------------------------------------
(* The loop thread. *)

LoopAt(from, to) ==
    /\ loop.pc = from
    /\ loop' = [loop EXCEPT !.pc = to]
    /\ UNCHANGED <<mutex, async>>

RingFull == mem.seenByLoop = SlotCount

\* A read into a ring slot: onAllocate()'s tryAcquireSlot, then the ring's commit;
\* the last payload may have the trailer behind it.
ReadPayload ==
    /\ loop.pc = "idle"
    /\ loop.state = "Receiving" /\ loop.reading /\ loop.left > 0
    /\ ~RingFull
    /\ \E behind \in IF loop.left = 1 THEN BOOLEAN ELSE {FALSE} :
          loop' = [loop EXCEPT !.pc = "commitLock", !.left = @ - 1, !.trailer = behind]
    /\ Store("loop", [mem EXCEPT !.seenByLoop = @ + 1], <<"tail">>)
    /\ UNCHANGED <<parser, mutex, async>>

\* Faulty variant: commitSlot() notifies without having held the mutex.
CommitUnlocked ==
    /\ LoopAt("commitLock", "commitNotify")
    /\ UNCHANGED <<parser, mem, buf>>

\* The mutex taken and dropped at once.
CommitLock ==
    /\ mutex = "free" /\ Flushed("loop")
    /\ LoopAt("commitLock", "commitNotify")
    /\ UNCHANGED <<parser, mem, buf>>

NotifyOne == parser' = IF parser = "asleep" THEN "lock" ELSE parser

CommitNotify ==
    /\ LoopAt("commitNotify", "backpressure")
    /\ NotifyOne
    /\ UNCHANGED <<mem, buf>>

\* After the payload: the trailer behind it, or back to the loop.
AfterPayload == IF loop.trailer THEN "verify" ELSE "idle"

\* Faulty variant: a full ring does not stop the reads.
NoBackpressure ==
    /\ LoopAt("backpressure", AfterPayload)
    /\ UNCHANGED <<parser, mem, buf>>

ApplyBackpressure ==
    /\ loop.pc = "backpressure"
    /\ loop' = IF RingFull /\ loop.reading
               THEN [loop EXCEPT !.pc = "setStopped", !.reading = FALSE]
               ELSE [loop EXCEPT !.pc = AfterPayload]
    /\ UNCHANGED <<parser, mem, buf, mutex, async>>

SetReadStopped ==
    /\ LoopAt("setStopped", "recheck")
    /\ Store("loop", mem, <<"stopped">>)
    /\ UNCHANGED parser

RecheckRing ==
    /\ LoopAt("recheck", IF RingFull THEN AfterPayload ELSE "resume")
    /\ UNCHANGED <<parser, mem, buf>>

\* resumeReading(): the ring is looked at only while payload is due.
ResumeReading ==
    /\ loop.pc = "resume"
    /\ \/ /\ loop.reading \/ (loop.state = "Receiving" /\ loop.left > 0 /\ RingFull)
          /\ loop' = [loop EXCEPT !.pc = AfterPayload]
          /\ UNCHANGED <<mem, buf>>
       \/ /\ ~loop.reading
          /\ ~(loop.state = "Receiving" /\ loop.left > 0 /\ RingFull)
          /\ loop' = [loop EXCEPT !.pc = AfterPayload, !.reading = TRUE]
          /\ Store("loop", mem, <<"running">>)
    /\ UNCHANGED <<parser, mutex, async>>

\* The trailer in a read of its own.
ReadTrailer ==
    /\ loop.state = "Receiving" /\ loop.reading /\ loop.left = 0
    /\ LoopAt("idle", "verify")
    /\ UNCHANGED <<parser, mem, buf>>

\* verifyAndAck(), CRC correct: out of Receiving, so reading restarts first.
Verify ==
    /\ loop.pc = "verify"
    /\ loop' = [loop EXCEPT !.pc = "markComplete", !.state = "Analyzing", !.reading = TRUE,
                            !.trailer = FALSE]
    /\ Store("loop", mem, IF loop.reading THEN <<>> ELSE <<"running">>)
    /\ UNCHANGED <<parser, mutex, async>>

\* A flag set under the mutex, then the notification.
SetUnderLock(from, to, flag) ==
    /\ mutex = "free" /\ Flushed("loop")
    /\ LoopAt(from, to)
    /\ mem' = [mem EXCEPT ![flag] = TRUE]
    /\ UNCHANGED <<parser, buf>>

MarkUploadComplete == SetUnderLock("markComplete", "notify", "uploadComplete")
AbortSession == SetUnderLock("abort", "notify", "abort")
RequestStop == SetUnderLock("stop", "stopNotify", "stop")

Notify(from, to) == LoopAt(from, to) /\ NotifyOne /\ UNCHANGED <<mem, buf>>

\* cleanup(): peer gone, error, timeout, or DownloadDone received.
EndSession ==
    /\ loop.pc = "idle"
    /\ loop.state \in {"Receiving", "Analyzing", "Sending"}
    /\ loop' = [loop EXCEPT !.pc = "abort", !.state = "Closing", !.reading = FALSE]
    /\ UNCHANGED <<parser, mem, buf, mutex, async>>

\* Faulty variant: the pending abort is not looked at.
AcceptUngated(l) ==
    IF l.state # "Closed" \/ ~l.held
    THEN loop' = l /\ UNCHANGED <<mem, buf>>
    ELSE /\ \E slots \in 0 .. MaxSlots :
               loop' = [l EXCEPT !.state = "Receiving", !.reading = TRUE, !.left = slots,
                                 !.held = FALSE]
         /\ Store("loop", mem, <<"uploadClear", "running">>)

\* acceptWhenParserIdle() and, when it accepts, the session's beginSession().
AcceptWhenParserIdle(l) ==
    IF mem.abort \/ l.state # "Closed" \/ ~l.held
    THEN loop' = l /\ UNCHANGED <<mem, buf>>
    ELSE /\ \E slots \in 0 .. MaxSlots :
               loop' = [l EXCEPT !.state = "Receiving", !.reading = TRUE, !.left = slots,
                                 !.held = FALSE]
         /\ Store("loop", mem, <<"uploadClear", "running">>)

\* libuv reports a connection once and holds it until it is accepted.
OnConnection ==
    /\ loop.pc = "idle"
    /\ ~loop.held /\ loop.sessions < MaxSessions
    /\ AcceptWhenParserIdle([loop EXCEPT !.held = TRUE, !.sessions = @ + 1])
    /\ UNCHANGED <<parser, mutex, async>>

OnReap ==
    /\ loop.pc = "idle"
    /\ loop.state = "Closing"
    /\ AcceptWhenParserIdle([loop EXCEPT !.state = "Closed"])
    /\ UNCHANGED <<parser, mutex, async>>

OnAbortDone ==
    /\ loop.pc = "idle"
    /\ "abortDone" \in async
    /\ async' = async \ {"abortDone"}
    /\ AcceptWhenParserIdle(loop)
    /\ UNCHANGED <<parser, mutex>>

OnResume ==
    /\ loop.pc = "idle"
    /\ "resume" \in async
    /\ async' = async \ {"resume"}
    /\ loop' = [loop EXCEPT !.pc = IF loop.state \in {"Closing", "Closed"} THEN "idle" ELSE "resume"]
    /\ UNCHANGED <<parser, mem, buf, mutex>>

OnCompletion ==
    /\ loop.pc = "idle"
    /\ "completion" \in async
    /\ async' = async \ {"completion"}
    /\ loop' = [loop EXCEPT !.state = IF @ = "Analyzing" THEN "Sending" ELSE @]
    /\ UNCHANGED <<parser, mem, buf, mutex>>

\* close(): the stop request, its notification, the join.
Stop ==
    /\ LoopAt("idle", "stop")
    /\ UNCHANGED <<parser, mem, buf>>

Join ==
    /\ parser = "exited"
    /\ LoopAt("join", "joined")
    /\ UNCHANGED <<parser, mem, buf>>
-----------------------------------------------------------------------------
(* ParserThread::run(). *)

ParserAt(from, to) ==
    /\ parser = from
    /\ parser' = to
    /\ UNCHANGED loop

Lock ==
    /\ mutex = "free" /\ Flushed("parser")
    /\ ParserAt("lock", "evaluate")
    /\ mutex' = "parser"
    /\ UNCHANGED <<mem, buf, async>>

\* The predicate of the wait, then the stop check; the mutex is held.
Evaluate ==
    LET work == mem.stop \/ mem.abort \/ mem.uploadComplete \/ mem.seenByParser > 0
    IN  /\ ParserAt("evaluate", IF mem.stop THEN "exited" ELSE IF work THEN "gate" ELSE "sleep")
        /\ mutex' = IF work THEN "free" ELSE "parser"
        /\ UNCHANGED <<mem, buf, async>>

\* Waiting and releasing the mutex are one step of the condition variable.
Sleep ==
    /\ ParserAt("sleep", "asleep")
    /\ mutex' = "free"
    /\ UNCHANGED <<mem, buf, async>>

SpuriousWakeup ==
    /\ ParserAt("asleep", "lock")
    /\ UNCHANGED <<mem, buf, mutex, async>>

Gate ==
    /\ ParserAt("gate", IF mem.abort THEN "discard" ELSE "consume")
    /\ UNCHANGED <<mem, buf, mutex, async>>

\* resetSessionState(): every slot the parser sees is released, visibly by the
\* time the statistics are reset; then the loop is told if it had stopped reading.
Drain(from, to) ==
    /\ Settled
    /\ ParserAt(from, to)
    /\ mem' = [mem EXCEPT !.seenByParser = 0, !.seenByLoop = @ - mem.seenByParser]
    /\ UNCHANGED <<buf, mutex, async>>

Signal(from, to, signal) ==
    /\ Flushed("parser")
    /\ ParserAt(from, to)
    /\ async' = async \cup {signal}
    /\ UNCHANGED <<mem, buf, mutex>>

\* The flag is read first, on the way to the signal or past it.
SignalIfStopped(from, sending, to) ==
    \/ /\ ParserAt(from, IF mem.readStopped THEN sending ELSE to)
       /\ UNCHANGED <<mem, buf, mutex, async>>
    \/ Signal(sending, to, "resume")

Clear(from, to, store) ==
    /\ ParserAt(from, to)
    /\ Store("parser", mem, <<store>>)
    /\ UNCHANGED <<mutex, async>>

Discard ==
    \/ Drain("discard", "discarded")
    \/ SignalIfStopped("discarded", "discardSignal", "abortClear")
    \/ Clear("abortClear", "abortSignal", "abortClear")
    \/ Signal("abortSignal", "lock", "abortDone")

\* consumeReadySlots(): one slot, released, and the signal behind it.
ConsumeSlot ==
    /\ mem.seenByParser > 0
    /\ Settled
    /\ ~mem.abort /\ ~mem.stop
    /\ ParserAt("consume", "space")
    /\ Store("parser", [mem EXCEPT !.seenByParser = @ - 1], <<"head">>)
    /\ UNCHANGED <<mutex, async>>

\* Faulty variant: no signal for the space that was made.
SilentSpace ==
    /\ ParserAt("space", "consume")
    /\ UNCHANGED <<mem, buf, mutex, async>>

SignalSpace == SignalIfStopped("space", "spaceSignal", "consume")

ConsumeEnds ==
    /\ mem.seenByParser = 0 \/ mem.abort \/ mem.stop
    /\ ParserAt("consume", "check")
    /\ UNCHANGED <<mem, buf, mutex, async>>

CheckComplete ==
    /\ ParserAt("check", IF mem.uploadComplete /\ mem.seenByParser = 0 THEN "finish" ELSE "lock")
    /\ UNCHANGED <<mem, buf, mutex, async>>

FinishSession ==
    \/ Drain("finish", "finished")
    \/ SignalIfStopped("finished", "finishSignal", "completion")
    \/ Signal("completion", "uploadClear", "completion")
    \/ Clear("uploadClear", "lock", "uploadClear")
-----------------------------------------------------------------------------
ParserStep ==
    \/ Lock \/ Evaluate \/ Sleep \/ Gate \/ Discard \/ ConsumeSlot \/ SignalSpace
    \/ ConsumeEnds \/ CheckComplete \/ FinishSession

\* The rest of a callback that has begun.
CallbackStep ==
    \/ CommitLock \/ CommitNotify \/ ApplyBackpressure \/ SetReadStopped \/ RecheckRing
    \/ ResumeReading \/ Verify \/ MarkUploadComplete \/ AbortSession \/ RequestStop
    \/ Notify("notify", "idle") \/ Notify("stopNotify", "join") \/ Join

\* Callbacks libuv owes the program.
PendingCallback == OnReap \/ OnAbortDone \/ OnResume \/ OnCompletion

\* What peers and signals decide.
Outside == ReadPayload \/ ReadTrailer \/ EndSession \/ OnConnection \/ Stop

Terminated == loop.pc = "joined" /\ UNCHANGED vars

Next ==
    \/ ParserStep \/ CallbackStep \/ PendingCallback \/ Outside \/ SpuriousWakeup
    \/ \E thread \in {"loop", "parser"} : BecomesVisible(thread)
    \/ Terminated

\* Both threads run, a mutex that is free again and again is obtained, libuv
\* delivers, stores become visible.  Spurious wake-ups and the peers' moves are
\* never relied upon.
Fairness ==
    /\ WF_vars(ParserStep)
    /\ SF_vars(CallbackStep)
    /\ WF_vars(OnReap) /\ WF_vars(OnAbortDone) /\ WF_vars(OnResume) /\ WF_vars(OnCompletion)
    /\ WF_vars(BecomesVisible("loop")) /\ WF_vars(BecomesVisible("parser"))

Spec == Init /\ [][Next]_vars
FairSpec == Spec /\ Fairness
-----------------------------------------------------------------------------
(* No lost wake-up: once the loop is through with a callback, a parser asleep *)
(* on the condition variable has nothing to do.  This is what commitSlot()'s  *)
(* empty critical section and the locks of markUploadComplete(),              *)
(* abortSession() and stop() are for.                                         *)
NoLostWakeup ==
    (parser = "asleep" /\ loop.pc \in {"idle", "join"}) =>
        ~(mem.stop \/ mem.abort \/ mem.uploadComplete \/ mem.seenByParser > 0)

(* While the parser discards an aborted session no next session exists: the   *)
(* gate of acceptWhenParserIdle() sees the abort flag until the ring is empty *)
(* and the statistics are reset, and only the parser lowers it.               *)
DiscardBeforeBegin ==
    parser \in {"discard", "discarded", "discardSignal", "abortClear"} =>
        loop.state \in {"Closing", "Closed"}

(* Whenever the socket is read for payload a slot is free, so onAllocate()    *)
(* always lends one and no payload has to be dropped.                         *)
SlotForEveryRead ==
    (loop.pc = "idle" /\ loop.state = "Receiving" /\ loop.reading /\ loop.left > 0) => ~RingFull

(* Backpressure ends: reading restarts, or the session or the server does end. *)
ReadingResumes ==
    (loop.state = "Receiving" /\ ~loop.reading)
        ~> (loop.reading \/ loop.state # "Receiving" \/ mem.stop)

=============================================================================
