--------------------------- MODULE ServerSession ---------------------------
(***************************************************************************)
(* The server's core: SessionManager, the one Session it owns at a time and *)
(* the resident ParserThread.                                               *)
(*                                                                         *)
(* Two threads.  The loop thread runs one callback at a time (socket,       *)
(* timer, listener, idle handle and the three uv_async signals); a callback *)
(* is one action, written as the composition of the methods it calls, each  *)
(* an operator from a world to the next world.  The parser thread runs      *)
(* run() as single steps between its accesses to shared state.  What the    *)
(* parser can do in the middle of a loop callback (lost wake-ups, the       *)
(* recheck in applyBackpressure) is the subject of module ParserHandshake.  *)
(*                                                                         *)
(* Payload bytes are <<file, position>>, so a result shows exactly which    *)
(* bytes of which upload were analysed; a CSV is the sequence of bytes that *)
(* went into it.                                                            *)
(***************************************************************************)
EXTENDS Integers, Sequences

CONSTANTS File,            \* uploads a client can make: name, size and content
          FileSize,        \* [File -> Nat], 0 is a legal upload
          SlotCount,       \* slots of the ring
          SlotUnits,       \* payload units a slot holds
          MaxConnections,  \* bound on the connections made
          MaxAfterAbort,   \* the same once a session was torn down in ANALYZING
          NoFile, NoCsv

ASSUME ServerAssumption ==
    /\ FileSize \in [File -> Nat]
    /\ SlotCount \in Nat \ {0}
    /\ SlotUnits \in Nat \ {0}
    /\ MaxConnections \in Nat
    /\ MaxAfterAbort \in Nat
    /\ NoFile \notin File

VARIABLES ses,      \* the Session object
          mgr,      \* SessionManager and its Listener
          shared,   \* what both threads touch: ring, atomics, asyncs, _result
          parser,   \* what only the parser thread touches
          abortedAnalyzing   \* history: some session was cleaned up in ANALYZING

vars == <<ses, mgr, shared, parser, abortedAnalyzing>>

\* Units from + 1 to to of a file.
Units(f, from, to) == [k \in 1 .. to - from |-> <<f, from + k>>]
Content(f) == Units(f, 0, FileSize[f])

NewSession == [state |-> "WaitHeader", reading |-> FALSE, timer |-> "off",
               file |-> NoFile, received |-> 0, csv |-> NoCsv, sends |-> <<>>,
               closeAfterSend |-> FALSE, cleanup |-> FALSE, finished |-> FALSE]

Init ==
    /\ ses = NewSession
    /\ mgr = [active |-> FALSE, sessionFinished |-> FALSE, closing |-> FALSE,
              joined |-> FALSE, retained |-> [file |-> NoFile, csv |-> NoCsv],
              connects |-> 0, held |-> FALSE]
    /\ shared = [ring |-> <<>>, abort |-> FALSE, uploadComplete |-> FALSE,
                 readStopped |-> FALSE, stop |-> FALSE, result |-> NoCsv, async |-> {}]
    /\ parser = [pc |-> "wait", acc |-> <<>>]
    /\ abortedAnalyzing = FALSE
-----------------------------------------------------------------------------
(* Session methods, loop thread: each maps a world to a world.  io says which *)
(* of the sends a callback makes is refused by the socket, if any.           *)

World == [ses |-> ses, mgr |-> mgr, shared |-> shared, abortedAnalyzing |-> abortedAnalyzing]

Install(world) ==
    \E w \in {world} :
        /\ ses' = w.ses
        /\ mgr' = w.mgr
        /\ shared' = w.shared
        /\ abortedAnalyzing' = w.abortedAnalyzing

IO == {"ok", "firstSendFails", "secondSendFails"}

TimeoutForState(state) ==
    CASE state \in {"WaitHeader", "WaitDone"} -> "response"
      [] state \in {"Receiving", "SendingResult"} -> "idle"
      [] OTHER -> "off"

PayloadDue(w) == w.ses.received < FileSize[w.ses.file]
RingFull(w) == Len(w.shared.ring) = SlotCount

\* Pending writes are cancelled by the close; their callbacks change nothing.
Cleanup(w) ==
    IF w.ses.cleanup THEN w
    ELSE [w EXCEPT !.ses.cleanup = TRUE, !.ses.state = "Cleanup", !.ses.timer = "off",
                   !.ses.reading = FALSE, !.ses.sends = <<>>,
                   !.shared.abort = TRUE,
                   !.abortedAnalyzing = @ \/ w.ses.state = "Analyzing"]

CloseSilently(w) == Cleanup(w)

ResumeReading(w) ==
    IF \/ w.ses.cleanup \/ w.ses.reading
       \/ /\ w.ses.state = "Receiving"
          /\ PayloadDue(w)
          /\ RingFull(w)
    THEN w
    ELSE [w EXCEPT !.shared.readStopped = FALSE, !.ses.reading = TRUE]

Transition(w, next) ==
    LET moved == [w EXCEPT !.ses.state = next, !.ses.timer = TimeoutForState(next)]
    IN  IF w.ses.state = next THEN w
        ELSE IF next \in {"Receiving", "Cleanup"} THEN moved
        ELSE ResumeReading(moved)

\* The second ringFull() of the code needs the parser to act in between.
ApplyBackpressure(w) ==
    IF RingFull(w) /\ w.ses.reading
    THEN [w EXCEPT !.ses.reading = FALSE, !.shared.readStopped = TRUE]
    ELSE w

Send(w, message) == [w EXCEPT !.ses.sends = Append(@, message)]

FailWithAck(w, io) ==
    IF io = "firstSendFails" THEN Cleanup(w)
    ELSE [Send(w, "FailAck") EXCEPT !.ses.reading = FALSE, !.ses.closeAfterSend = TRUE]

\* ResultHeader, then the CSV from the requested offset unless nothing is left.
SendResult(w, withBody, io) ==
    LET header == Send(w, "ResultHeader")
    IN  CASE io = "firstSendFails" -> Cleanup(w)
          [] io # "firstSendFails" /\ ~withBody -> header
          [] io = "secondSendFails" /\ withBody -> Cleanup(header)
          [] OTHER -> Send(header, "Csv")

HandleResultRequest(w, request, io) ==
    LET kept == w.mgr.retained
        accepted == [w EXCEPT !.ses.file = request.file, !.ses.csv = kept.csv]
    IN  IF kept.file # request.file \/ request.offset = "beyond"
        THEN FailWithAck(w, io)
        ELSE SendResult(Transition(accepted, "SendingResult"), request.offset # "end", io)

ConsumeHeader(w, message, io) ==
    CASE message.kind = "partial" -> w
      [] message.kind = "badPreamble" -> CloseSilently(w)
      [] message.kind = "badValue" -> FailWithAck(w, io)
      [] message.kind = "request" -> HandleResultRequest(w, message, io)
      [] message.kind = "upload" ->
            Transition([w EXCEPT !.ses.file = message.file], "Receiving")

\* The payload part of a read, n units, moves into one slot.
CommitSlot(w, n) ==
    LET from == w.ses.received
    IN  [w EXCEPT !.ses.received = from + n,
                  !.shared.ring = Append(@, Units(w.ses.file, from, from + n))]

\* Payload that arrived behind the header, copied out of the session's buffer.
ConsumePayload(w, n) ==
    IF RingFull(w) THEN Cleanup(w) ELSE ApplyBackpressure(CommitSlot(w, n))

AnalyzeAndSendResult(w) ==
    [Transition(w, "Analyzing") EXCEPT !.shared.uploadComplete = TRUE]

VerifyAndAck(w, crcMatches, io) ==
    LET verifying == Transition(w, "Verifying")
    IN  CASE ~crcMatches -> FailWithAck(verifying, io)
          [] crcMatches /\ io = "firstSendFails" -> Cleanup(verifying)
          [] OTHER -> AnalyzeAndSendResult(Send(verifying, "Ack"))

ConsumeTrailer(w, message, io) ==
    CASE message.kind = "partial" -> w
      [] message.kind = "badPreamble" -> CloseSilently(w)
      [] message.kind = "trailer" -> VerifyAndAck(w, message.crcMatches, io)

ConsumeDone(w, message) ==
    CASE message.kind = "partial" -> w
      [] message.kind = "badPreamble" -> CloseSilently(w)
      [] message.kind = "done" -> Cleanup(w)

\* One turn of onRead()'s loop: the state decides who consumes the next part.
Consume(w, part, io) ==
    IF w.ses.cleanup \/ w.ses.closeAfterSend THEN w
    ELSE CASE w.ses.state = "WaitHeader" -> ConsumeHeader(w, part, io)
           [] w.ses.state = "Receiving" /\ PayloadDue(w) -> ConsumePayload(w, part.n)
           [] w.ses.state = "Receiving" /\ ~PayloadDue(w) -> ConsumeTrailer(w, part, io)
           [] w.ses.state = "WaitDone" -> ConsumeDone(w, part)
           [] OTHER -> CloseSilently(w)

\* A read holds at most a header, payload, a trailer and bytes behind it.
Turn(w, data, k, io) == IF k > Len(data) THEN w ELSE Consume(w, data[k], io)
Turns(w, data, io) ==
    Turn(Turn(Turn(Turn(w, data, 1, io), data, 2, io), data, 3, io), data, 4, io)

\* onAllocate() lends a ring slot exactly when payload is due and a slot is free.
SlotAcquired(w) ==
    /\ w.ses.state = "Receiving"
    /\ PayloadDue(w)
    /\ ~RingFull(w)

\* A read into a slot: payload, then possibly the trailer behind it.
ReadIntoSlot(w, data, io) ==
    LET committed == ApplyBackpressure(CommitSlot(w, data[1].n))
    IN  IF Len(data) = 1 THEN committed ELSE ConsumeTrailer(committed, data[2], io)

HandleRead(w, data, io) ==
    IF SlotAcquired(w) THEN ReadIntoSlot(w, data, io)
    ELSE Turns(w, data, io)

OnAnalysisComplete(w, csv, io) ==
    LET kept == [w EXCEPT !.ses.csv = csv,
                          !.mgr.retained = [file |-> w.ses.file, csv |-> csv]]
    IN  IF w.ses.cleanup \/ w.ses.state # "Analyzing" THEN w
        ELSE SendResult(Transition(kept, "SendingResult"), TRUE, io)
-----------------------------------------------------------------------------
(* SessionManager methods, loop thread. *)

BeginSession(w) ==
    [w EXCEPT !.shared.uploadComplete = FALSE, !.shared.readStopped = FALSE]

\* Session::start(); one that cannot start is cleaned up and destroyed at once.
StartSession(w, canRead) ==
    LET made == [w EXCEPT !.mgr.active = TRUE, !.mgr.held = FALSE, !.ses = NewSession]
    IN  IF canRead
        THEN BeginSession([made EXCEPT !.ses.reading = TRUE,
                                       !.ses.timer = TimeoutForState("WaitHeader")])
        ELSE [Cleanup(made) EXCEPT !.mgr.active = FALSE, !.ses = NewSession]

AcceptIfIdle(w, canRead) ==
    IF w.mgr.closing \/ w.mgr.active \/ ~w.mgr.held THEN w ELSE StartSession(w, canRead)

\* Faulty variant: the next connection is accepted while a discard is pending.
AcceptUngated(w, canRead) == AcceptIfIdle(w, canRead)

AcceptWhenParserIdle(w, canRead) ==
    IF w.shared.abort THEN w ELSE AcceptIfIdle(w, canRead)
-----------------------------------------------------------------------------
(* What a peer can send next, as the server's framer reports it. *)

Payload(n) == [kind |-> "payload", n |-> n]
Partial == [kind |-> "partial"]
BadPreamble == [kind |-> "badPreamble"]
Trailers == {[kind |-> "trailer", crcMatches |-> b] : b \in BOOLEAN} \cup {Partial, BadPreamble}
Headers ==
    {Partial, BadPreamble, [kind |-> "badValue"]}
    \cup {[kind |-> "upload", file |-> f] : f \in File}
    \cup {[kind |-> "request", file |-> f, offset |-> o] :
             f \in File, o \in {"within", "end", "beyond"}}

\* The trailer is due; bytes behind a whole one are a protocol error.
TrailerReads ==
    {<<t>> : t \in Trailers} \cup {<<[kind |-> "trailer", crcMatches |-> TRUE], Partial>>}

\* left units of payload are due: some of them, or all and bytes of the trailer.
PayloadReads(left) ==
    IF left = 0 THEN TrailerReads
    ELSE {<<Payload(n)>> : n \in 1 .. IF left < SlotUnits THEN left ELSE SlotUnits}
         \cup {<<Payload(left)>> \o t : t \in IF left < SlotUnits THEN TrailerReads ELSE {}}

UploadReads(f) ==
    {<<[kind |-> "upload", file |-> f]>> \o rest : rest \in PayloadReads(FileSize[f])}

RequestRead(f) == <<[kind |-> "request", file |-> f, offset |-> "within"], Partial>>

HeaderReads ==
    {<<h>> : h \in Headers}
    \cup (UNION {UploadReads(f) : f \in File})
    \cup {RequestRead(f) : f \in File}

Reads ==
    CASE ses.state = "WaitHeader" -> HeaderReads
      [] ses.state = "Receiving" -> PayloadReads(FileSize[ses.file] - ses.received)
      [] ses.state = "WaitDone" -> {<<[kind |-> "done"]>>, <<Partial>>, <<BadPreamble>>}
      [] OTHER -> {<<Partial>>}
-----------------------------------------------------------------------------
(* Loop callbacks.  close() blocks the loop in join(), so nothing else runs. *)

LoopRuns == ~mgr.closing
SessionAlive == LoopRuns /\ mgr.active /\ ~ses.cleanup

OnRead ==
    /\ SessionAlive
    /\ ses.reading
    /\ \E w \in {HandleRead(World, data, io) : data \in Reads, io \in IO} : Install(w)
    /\ UNCHANGED parser

\* EOF and reset are noticed only while the socket is being read.
OnPeerGone ==
    /\ SessionAlive
    /\ ses.reading
    /\ Install(Cleanup(World))
    /\ UNCHANGED parser

OnTimeout ==
    /\ SessionAlive
    /\ ses.timer # "off"
    /\ Install(Cleanup(World))
    /\ UNCHANGED parser

SendCompleted(w) ==
    LET popped == [w EXCEPT !.ses.sends = Tail(@)]
    IN  CASE w.ses.closeAfterSend -> Cleanup(popped)
          [] ~w.ses.closeAfterSend /\ w.ses.state = "SendingResult" ->
                Transition(popped, "WaitDone")
          [] OTHER -> popped

OnSendComplete ==
    /\ SessionAlive
    /\ ses.sends # <<>>
    /\ Install(SendCompleted(World))
    /\ UNCHANGED parser

OnWriteError ==
    /\ SessionAlive
    /\ ses.sends # <<>>
    /\ Install(Cleanup(World))
    /\ UNCHANGED parser

OnClosed ==
    /\ LoopRuns
    /\ mgr.active
    /\ ses.cleanup
    /\ ~ses.finished
    /\ ses' = [ses EXCEPT !.finished = TRUE]
    /\ mgr' = [mgr EXCEPT !.sessionFinished = TRUE]
    /\ UNCHANGED <<shared, parser, abortedAnalyzing>>

OnReap ==
    /\ LoopRuns
    /\ mgr.sessionFinished
    /\ LET reaped == [World EXCEPT !.mgr.sessionFinished = FALSE, !.mgr.active = FALSE,
                                   !.ses = NewSession]
       IN  \E canRead \in BOOLEAN : Install(AcceptWhenParserIdle(reaped, canRead))
    /\ UNCHANGED parser

Fired(signal) == [World EXCEPT !.shared.async = @ \ {signal}]

OnCompletionAsync ==
    /\ LoopRuns
    /\ "completion" \in shared.async
    /\ LET moved == [Fired("completion") EXCEPT !.shared.result = NoCsv]
       IN  \E io \in IO :
              Install(IF mgr.active THEN OnAnalysisComplete(moved, shared.result, io) ELSE moved)
    /\ UNCHANGED parser

OnResumeAsync ==
    /\ LoopRuns
    /\ "resume" \in shared.async
    /\ Install(IF mgr.active THEN ResumeReading(Fired("resume")) ELSE Fired("resume"))
    /\ UNCHANGED parser

OnAbortDoneAsync ==
    /\ LoopRuns
    /\ "abortDone" \in shared.async
    /\ \E canRead \in BOOLEAN : Install(AcceptWhenParserIdle(Fired("abortDone"), canRead))
    /\ UNCHANGED parser

\* A client's connection is reported: libuv takes one out of the kernel's backlog
\* and takes no other until it is accepted.
OnConnection ==
    /\ LoopRuns
    /\ mgr.connects < IF abortedAnalyzing THEN MaxAfterAbort ELSE MaxConnections
    /\ ~mgr.held
    /\ LET offered == [World EXCEPT !.mgr.connects = @ + 1, !.mgr.held = TRUE]
       IN  IF mgr.active THEN Install(offered)
           ELSE \E canRead \in BOOLEAN : Install(AcceptWhenParserIdle(offered, canRead))
    /\ UNCHANGED parser

\* SessionManager::close() up to the join, then what follows the join.
Close ==
    /\ LoopRuns
    /\ mgr' = [mgr EXCEPT !.closing = TRUE, !.active = FALSE, !.held = FALSE,
                          !.sessionFinished = FALSE, !.connects = 0]
    /\ ses' = NewSession
    /\ shared' = [shared EXCEPT !.stop = TRUE]
    /\ UNCHANGED <<parser, abortedAnalyzing>>

Join ==
    /\ mgr.closing
    /\ ~mgr.joined
    /\ parser.pc = "exited"
    /\ mgr' = [mgr EXCEPT !.joined = TRUE]
    /\ shared' = [shared EXCEPT !.async = {}]
    /\ UNCHANGED <<ses, parser, abortedAnalyzing>>
-----------------------------------------------------------------------------
(* ParserThread::run(). *)

ParserAt(from, to) ==
    /\ parser.pc = from
    /\ parser' = [parser EXCEPT !.pc = to]
    /\ UNCHANGED <<ses, mgr, abortedAnalyzing>>

\* Faulty variant: the wait does not look at the stop request.
WakeUnlessStopped ==
    /\ shared.abort \/ shared.uploadComplete \/ shared.ring # <<>>
    /\ ParserAt("wait", IF shared.stop THEN "exited" ELSE "gate")
    /\ UNCHANGED shared

\* The predicate of the wait; lost notifications are ParserHandshake's subject.
Wake ==
    /\ shared.stop \/ shared.abort \/ shared.uploadComplete \/ shared.ring # <<>>
    /\ ParserAt("wait", IF shared.stop THEN "exited" ELSE "gate")
    /\ UNCHANGED shared

Gate ==
    /\ ParserAt("gate", IF shared.abort THEN "discard" ELSE "consume")
    /\ UNCHANGED shared

\* resetSessionState(): the ring is drained, everything accumulated is dropped.
SpaceSignal == IF shared.readStopped THEN {"resume"} ELSE {}

ResetSessionState(from, to) ==
    /\ parser.pc = from
    /\ parser' = [parser EXCEPT !.pc = to, !.acc = <<>>]
    /\ shared' = [shared EXCEPT !.ring = <<>>, !.async = @ \cup SpaceSignal]
    /\ UNCHANGED <<ses, mgr, abortedAnalyzing>>

Discard == ResetSessionState("discard", "abortClear")

AbortClear ==
    /\ ParserAt("abortClear", "abortSignal")
    /\ shared' = [shared EXCEPT !.abort = FALSE]

\* Faulty variant: the end of the discard is not signalled.
AbortSilent ==
    /\ ParserAt("abortSignal", "wait")
    /\ UNCHANGED shared

AbortSignal ==
    /\ ParserAt("abortSignal", "wait")
    /\ shared' = [shared EXCEPT !.async = @ \cup {"abortDone"}]

\* consumeReadySlots(): one slot per turn; an abort or stop leaves the rest.
ConsumeSlot ==
    /\ parser.pc = "consume"
    /\ shared.ring # <<>>
    /\ ~shared.abort /\ ~shared.stop
    /\ parser' = [parser EXCEPT !.pc = "space", !.acc = @ \o Head(shared.ring)]
    /\ shared' = [shared EXCEPT !.ring = Tail(@)]
    /\ UNCHANGED <<ses, mgr, abortedAnalyzing>>

SignalSpace ==
    /\ ParserAt("space", "consume")
    /\ shared' = [shared EXCEPT !.async = @ \cup SpaceSignal]

ConsumeEnds ==
    /\ shared.ring = <<>> \/ shared.abort \/ shared.stop
    /\ ParserAt("consume", "check")
    /\ UNCHANGED shared

\* Faulty variant: the flag alone ends the upload, slots may still wait.
CheckFlagOnly ==
    /\ ParserAt("check", IF shared.uploadComplete THEN "finish" ELSE "wait")
    /\ UNCHANGED shared

\* The end of the upload: flag set by the loop, ring empty.
CheckComplete ==
    /\ ParserAt("check", IF shared.uploadComplete /\ shared.ring = <<>> THEN "finish" ELSE "wait")
    /\ UNCHANGED shared

\* finishSession(): build the CSV, hand it over, reset, signal.  The copies
\* written to disk are never read back; a failure to write them is logged.
FinishBuild ==
    /\ parser.pc = "finish"
    /\ parser' = [parser EXCEPT !.pc = "finishReset"]
    /\ shared' = [shared EXCEPT !.result = parser.acc]
    /\ UNCHANGED <<ses, mgr, abortedAnalyzing>>

FinishReset == ResetSessionState("finishReset", "finishSignal")

FinishSignal ==
    /\ ParserAt("finishSignal", "finishClear")
    /\ shared' = [shared EXCEPT !.async = @ \cup {"completion"}]

FinishClear ==
    /\ ParserAt("finishClear", "wait")
    /\ shared' = [shared EXCEPT !.uploadComplete = FALSE]
-----------------------------------------------------------------------------
ParserStep ==
    \/ Wake \/ Gate \/ Discard \/ AbortClear \/ AbortSignal
    \/ ConsumeSlot \/ SignalSpace \/ ConsumeEnds \/ CheckComplete
    \/ FinishBuild \/ FinishReset \/ FinishSignal \/ FinishClear

PeerStep == OnRead \/ OnPeerGone \/ OnWriteError \/ OnConnection

LoopStep ==
    \/ OnTimeout \/ OnSendComplete \/ OnClosed \/ OnReap
    \/ OnCompletionAsync \/ OnResumeAsync \/ OnAbortDoneAsync \/ Join

\* After the join the process ends.
Terminated == mgr.joined /\ UNCHANGED vars

Next == ParserStep \/ PeerStep \/ LoopStep \/ Close \/ Terminated

\* Both threads keep running and libuv delivers what is pending.  Nothing is
\* assumed of peers: they may never send, never read the CSV, never leave.
Fairness ==
    /\ WF_vars(ParserStep \/ Join)
    /\ WF_vars(OnTimeout \/ OnClosed \/ OnReap)
    /\ WF_vars(OnCompletionAsync)
    /\ WF_vars(OnAbortDoneAsync)
    /\ WF_vars(OnSendComplete /\ Head(ses.sends) # "Csv")

Spec == Init /\ [][Next]_vars
FairSpec == Spec /\ Fairness
-----------------------------------------------------------------------------
\* acc and then the slots of ring are the first upto units of f, in order.
InOrder(acc, ring, f, upto) ==
    \E cut \in [0 .. Len(ring) -> 0 .. upto] :
        /\ acc = Units(f, 0, cut[0])
        /\ \A k \in 1 .. Len(ring) :
              cut[k - 1] <= cut[k] /\ ring[k] = Units(f, cut[k - 1], cut[k])
        /\ cut[Len(ring)] = upto

(* While an upload is being received, what the parser has accumulated       *)
(* followed by what waits in the ring is exactly the payload received so    *)
(* far: no byte of this upload is lost, and no line of an earlier session   *)
(* is left in the statistics (the gate of acceptWhenParserIdle against the  *)
(* asynchronous discard).  Holds until a session is torn down in ANALYZING. *)
StreamIntact ==
    (SessionAlive /\ ses.state = "Receiving" /\ ~abortedAnalyzing) =>
        InOrder(parser.acc, shared.ring, ses.file, ses.received)

(* The CSV a session sends, after its own upload or on a result request, is *)
(* the analysis of the whole of the file it names (onAnalysisComplete,      *)
(* handleResultRequest), whatever earlier sessions left behind.             *)
ResultIsOwn ==
    (SessionAlive /\ ses.csv # NoCsv) => ses.csv = Content(ses.file)

(* The retained result is the analysis of the file its claim names.         *)
RetainedIsOwn ==
    mgr.retained.file # NoFile => mgr.retained.csv = Content(mgr.retained.file)

ResultIsOwnBarringAbort == abortedAnalyzing \/ (ResultIsOwn /\ RetainedIsOwn)

(* A waiting connection is accepted, whatever the peers before it do or     *)
(* fail to do, in whichever order reap and discard finish.                  *)
WaitingIsAccepted == mgr.held ~> (~mgr.held \/ abortedAnalyzing)

(* close() returns: the parser sees the stop request and the join ends.     *)
ShutdownCompletes == mgr.closing ~> mgr.joined
=============================================================================
