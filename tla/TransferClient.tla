--------------------------- MODULE TransferClient ---------------------------
(***************************************************************************)
(* The client: the UI thread with its gating (UiState, Application), the    *)
(* worker loop of TransferService, and the file reader as the worker sees   *)
(* it (module FileReader has its accesses one by one).                      *)
(*                                                                         *)
(* A loop callback is one action, the composition of the methods it calls,  *)
(* each an operator from the worker's state to the next.  The UI posts      *)
(* commands on what it last saw and takes the worker's events all at once,  *)
(* so only the last event of each kind matters.  The server is external:    *)
(* it answers as the protocol says, closes or fails at any time, and may    *)
(* keep another result than before for the same claim.                      *)
(*                                                                         *)
(* A message to the client is two units, so that it can arrive in parts; a  *)
(* CSV is one unit per byte.  A csv is a file and a version of its analysis *)
(* and stands for the CRC of the whole result.                              *)
(***************************************************************************)
EXTENDS Integers, Sequences

CONSTANTS File,
          Chunks,              \* [File -> Nat]
          CsvSize,             \* sizes a result can have, by version
          SlotCount,           \* slots of the reader's ring
          kMaxInFlightWrites,
          MaxClicks,           \* bound on the buttons pressed
          None

Version == DOMAIN CsvSize

LinkState == {"Disconnected", "Reconnecting", "Connected"}
SessionState == {"Idle", "Connecting", "SendingHeader", "Streaming", "WaitAck", "WaitResult",
                 "ReceivingResult", "RequestingResult", "Done"}

ASSUME ClientAssumption ==
    /\ Chunks \in [File -> Nat]
    /\ CsvSize \in Seq(Nat) /\ CsvSize # <<>>
    /\ SlotCount \in Nat \ {0}
    /\ kMaxInFlightWrites \in Nat \ {0}
    /\ MaxClicks \in Nat
    /\ None \notin File /\ None \notin BOOLEAN /\ None \notin LinkState \cup SessionState

VARIABLES ui,       \* UiState and the pressed buttons
          queue,    \* commands posted, events pending, the uv_async
          worker,   \* TransferService
          reader,   \* FileReader
          server    \* external: the peer and the connection

vars == <<ui, queue, worker, reader, server>>

Csv == [file : File, version : Version]
Whole(csv) ==
    [k \in 1 .. CsvSize[csv.version] |-> [kind |-> "Csv", part |-> k, status |-> None, csv |-> csv]]
Message(kind, status, csv) ==
    [k \in 1 .. 2 |-> [kind |-> kind, part |-> k, status |-> status, csv |-> csv]]

NoEvents == [link |-> None, session |-> None, claim |-> None]

Init ==
    /\ ui = [link |-> "Disconnected", session |-> "Idle", claim |-> FALSE,
             clicks |-> 0, quit |-> FALSE]
    /\ queue = [commands |-> <<>>, events |-> NoEvents, async |-> FALSE]
    /\ worker = [pc |-> "poll", socket |-> "none", timer |-> FALSE, writes |-> <<>>,
                 uploading |-> FALSE, file |-> None, sent |-> 0, inFlight |-> 0,
                 expecting |-> "Nothing", part |-> 0, csv |-> <<>>, csvCrc |-> None,
                 claim |-> None, received |-> 0, result |-> <<>>, overlap |-> FALSE,
                 quit |-> FALSE]
    /\ reader = [busy |-> FALSE, mid |-> FALSE, remaining |-> 0, ring |-> 0,
                 abort |-> FALSE, complete |-> FALSE, failed |-> FALSE]
    /\ server = [phase |-> "none", file |-> None, out |-> <<>>, retained |-> None]
-----------------------------------------------------------------------------
(* TransferService's methods: each maps a world to a world.  ok says whether  *)
(* the socket accepts what the callback sends.                               *)

World == [worker |-> worker, reader |-> reader, events |-> queue.events]

Install(w) ==
    /\ worker' = w.worker
    /\ reader' = w.reader
    /\ queue' = [queue EXCEPT !.events = w.events]

PushLink(w, link) == [w EXCEPT !.events.link = link]
PushSession(w, session) == [w EXCEPT !.events.session = session]
PushClaim(w, available) == [w EXCEPT !.events.claim = available]

SocketUsable(w) == w.worker.socket \in {"connecting", "open"}

CloseSocket(w) ==
    IF SocketUsable(w) THEN [w EXCEPT !.worker.socket = "closing"] ELSE w

Send(w, message) == [w EXCEPT !.worker.writes = Append(@, message)]

ResetFramer(w, expecting) == [w EXCEPT !.worker.expecting = expecting, !.worker.part = 0]

DrainRing(w) == [w EXCEPT !.reader.ring = 0]

AbortUpload(w) ==
    LET stopped == [w EXCEPT !.reader.abort = TRUE, !.worker.uploading = FALSE]
    IN  PushSession(CloseSocket(DrainRing(stopped)), "Idle")

HasClaim(w) == w.worker.claim # None

\* Faulty variant: the UI is told, the claim stays.
DropResultClaimForUi(w) == PushClaim(w, FALSE)

DropResultClaim(w) ==
    PushClaim([w EXCEPT !.worker.claim = None, !.worker.received = 0], FALSE)

FailSession(w) ==
    LET halted == IF w.worker.uploading
                  THEN DrainRing([w EXCEPT !.reader.abort = TRUE, !.worker.uploading = FALSE])
                  ELSE w
        kept == IF HasClaim(w)
                THEN [halted EXCEPT !.worker.received = Len(w.worker.csv)]
                ELSE [halted EXCEPT !.worker.csv = <<>>]
    IN  PushSession(CloseSocket([kept EXCEPT !.worker.expecting = "Nothing"]), "Idle")

FinishUpload(w, ok) ==
    IF ~ok THEN AbortUpload(w)
    ELSE LET ended == [Send(w, [kind |-> "trailer"]) EXCEPT !.worker.uploading = FALSE]
         IN  ResetFramer(PushSession(ended, "WaitAck"), "Ack")

\* The chunks the in-flight limit leaves room for, then the trailer if all is sent.
PumpUpload(w, ok) ==
    LET room == kMaxInFlightWrites - w.worker.inFlight
        n == IF w.reader.ring < room THEN w.reader.ring ELSE room
        pumped == [w EXCEPT !.worker.inFlight = @ + n, !.worker.sent = @ + n,
                            !.worker.writes = @ \o [k \in 1 .. n |-> [kind |-> "chunk"]],
                            !.reader.ring = @ - n]
    IN  CASE ~w.worker.uploading \/ ~SocketUsable(w) -> w
          [] w.worker.uploading /\ SocketUsable(w) /\ (w.reader.failed \/ (n > 0 /\ ~ok)) ->
                AbortUpload(w)
          [] OTHER ->
                IF /\ w.reader.complete /\ pumped.reader.ring = 0
                   /\ pumped.worker.sent >= Chunks[w.worker.file]
                THEN FinishUpload(pumped, ok)
                ELSE pumped

\* Faulty variant: the result of the session before is kept.
HandleStartUploadKeepsResult(w, file, opened, ok) ==
    LET drained == DrainRing(w)
        begun == [drained EXCEPT
                    !.reader = [@ EXCEPT !.busy = TRUE, !.remaining = Chunks[file],
                                         !.abort = FALSE, !.complete = FALSE, !.failed = FALSE],
                    !.worker = [@ EXCEPT !.uploading = TRUE, !.file = file, !.sent = 0,
                                         !.inFlight = 0, !.expecting = "Nothing",
                                         !.csv = <<>>, !.csvCrc = None,
                                         !.overlap = (w.worker.expecting = "Ack")]]
        header == Send(DropResultClaim(begun), [kind |-> "header", file |-> file])
    IN  CASE w.worker.uploading \/ ~SocketUsable(w) -> w
          [] ~w.worker.uploading /\ SocketUsable(w) /\ (w.reader.busy \/ ~opened) -> drained
          [] OTHER -> IF ok THEN PumpUpload(PushSession(header, "Streaming"), ok)
                      ELSE AbortUpload(DropResultClaim(begun))

\* beginUpload() refuses while the reader is busy; opened: the file could be opened.
\* overlap is history: the upload was begun while the Ack of the one before was due, which
\* a Send pressed on an old view of the worker can do.
HandleStartUpload(w, file, opened, ok) ==
    LET drained == DrainRing(w)
        begun == [drained EXCEPT
                    !.reader = [@ EXCEPT !.busy = TRUE, !.remaining = Chunks[file],
                                         !.abort = FALSE, !.complete = FALSE, !.failed = FALSE],
                    !.worker = [@ EXCEPT !.uploading = TRUE, !.file = file, !.sent = 0,
                                         !.inFlight = 0, !.expecting = "Nothing",
                                         !.csv = <<>>, !.csvCrc = None, !.result = <<>>,
                                         !.overlap = (w.worker.expecting = "Ack")]]
        header == Send(DropResultClaim(begun), [kind |-> "header", file |-> file])
    IN  CASE w.worker.uploading \/ ~SocketUsable(w) -> w
          [] ~w.worker.uploading /\ SocketUsable(w) /\ (w.reader.busy \/ ~opened) -> drained
          [] OTHER -> IF ok THEN PumpUpload(PushSession(header, "Streaming"), ok)
                      ELSE AbortUpload(DropResultClaim(begun))

HandleConnect(w, ok) ==
    CASE w.worker.socket # "none" -> w
      [] w.worker.socket = "none" /\ ok ->
            PushLink([w EXCEPT !.worker.socket = "connecting", !.worker.timer = TRUE],
                     "Reconnecting")
      [] OTHER -> PushLink(w, "Disconnected")

HandleDisconnect(w) ==
    LET untimed == [w EXCEPT !.worker.timer = FALSE]
    IN  CASE w.worker.socket = "none" -> PushLink(untimed, "Disconnected")
          [] w.worker.socket # "none" /\ w.worker.uploading -> AbortUpload(untimed)
          [] w.worker.socket # "none" /\ ~w.worker.uploading
                 /\ w.worker.expecting # "Nothing" -> FailSession(untimed)
          [] OTHER -> CloseSocket(untimed)

HandleCancel(w) == IF w.worker.uploading THEN AbortUpload(w) ELSE w

\* A closing socket refuses the send.
HandleRequestResult(w, ok) ==
    LET request == [kind |-> "request", file |-> w.worker.claim, offset |-> w.worker.received]
    IN  CASE ~HasClaim(w) \/ w.worker.socket = "none" -> w
          [] HasClaim(w) /\ w.worker.socket # "none" /\ ~(ok /\ SocketUsable(w)) -> FailSession(w)
          [] OTHER -> PushSession(ResetFramer(Send(w, request), "ResumeReply"),
                                  "RequestingResult")

\* Faulty variant: uv_walk() is left out, the async handle keeps the loop alive.
HandleQuitKeepsAsync(w) ==
    CloseSocket([w EXCEPT !.reader.abort = TRUE, !.worker.uploading = FALSE,
                          !.worker.timer = FALSE])

\* The async handle is closed as well: the loop ends once the socket is closed.
HandleQuit(w) ==
    CloseSocket([w EXCEPT !.reader.abort = TRUE, !.worker.uploading = FALSE,
                          !.worker.timer = FALSE, !.worker.quit = TRUE])

Handle(w, command, opened, ok) ==
    CASE command.kind = "Connect" -> HandleConnect(w, ok)
      [] command.kind = "Disconnect" -> HandleDisconnect(w)
      [] command.kind = "StartUpload" -> HandleStartUpload(w, command.file, opened, ok)
      [] command.kind = "CancelUpload" -> HandleCancel(w)
      [] command.kind = "RequestResult" -> HandleRequestResult(w, ok)
      [] command.kind = "Quit" -> HandleQuit(w)
-----------------------------------------------------------------------------
(* The receiving side: one turn of onBytes() takes one unit. *)

FinishDownload(w, ok) ==
    LET taken == [w EXCEPT !.worker.result = w.worker.csv, !.worker.csv = <<>>,
                           !.worker.expecting = "Nothing"]
        done == Send(DropResultClaim(taken), [kind |-> "done"])
    IN  CASE w.worker.csv # Whole(w.worker.csvCrc) ->
                FailSession([w EXCEPT !.worker.csv = <<>>, !.worker.received = 0])
          [] w.worker.csv = Whole(w.worker.csvCrc) /\ ok -> PushSession(done, "Done")
          [] OTHER -> FailSession(DropResultClaim(taken))

\* Sizes above kMaxCsvSize come as a malformed header.
BeginCsvReceive(w, csv, resuming, ok) ==
    LET kept == IF resuming THEN w.worker.csv ELSE <<>>
        begun == PushSession([w EXCEPT !.worker.csvCrc = csv, !.worker.csv = kept,
                                       !.worker.expecting = "CsvPayload"], "ReceivingResult")
    IN  CASE resuming /\ Len(w.worker.csv) > CsvSize[csv.version] -> FailSession(w)
          [] Len(kept) = CsvSize[csv.version] -> FinishDownload(begun, ok)
          [] OTHER -> begun

HandleCsvByte(w, unit, ok) ==
    LET grown == [w EXCEPT !.worker.csv = Append(@, unit)]
        noted == IF HasClaim(w) THEN [grown EXCEPT !.worker.received = Len(grown.worker.csv)]
                 ELSE grown
    IN  IF Len(grown.worker.csv) = CsvSize[w.worker.csvCrc.version]
        THEN FinishDownload(noted, ok) ELSE noted

HandleAck(w, unit) ==
    IF unit.status # "Ok" THEN FailSession(w)
    ELSE PushSession(ResetFramer(PushClaim([w EXCEPT !.worker.claim = w.worker.file,
                                                     !.worker.received = 0], TRUE),
                                 "ResultHeader"), "WaitResult")

\* A refusal ends the claim.
HandleResumeReply(w, unit, ok) ==
    IF unit.kind = "Ack"
    THEN FailSession([DropResultClaim(w) EXCEPT !.worker.csv = <<>>])
    ELSE BeginCsvReceive(w, unit.csv, TRUE, ok)

HandleMessage(w, unit, ok) ==
    CASE w.worker.expecting = "Ack" -> HandleAck(w, unit)
      [] w.worker.expecting = "ResultHeader" -> BeginCsvReceive(w, unit.csv, FALSE, ok)
      [] w.worker.expecting = "ResumeReply" -> HandleResumeReply(w, unit, ok)

Accepted(expecting) ==
    CASE expecting = "Ack" -> {"Ack"}
      [] expecting = "ResultHeader" -> {"ResultHeader"}
      [] expecting = "ResumeReply" -> {"Ack", "ResultHeader"}
      [] OTHER -> {}

OnBytes(w, unit, ok) ==
    CASE w.worker.expecting = "CsvPayload" -> HandleCsvByte(w, unit, ok)
      [] w.worker.expecting # "CsvPayload" ->
            IF unit.kind \notin Accepted(w.worker.expecting) \/ unit.part # w.worker.part + 1
            THEN FailSession(w)
            ELSE IF unit.part = 1 THEN [w EXCEPT !.worker.part = 1]
            ELSE HandleMessage(w, unit, ok)
-----------------------------------------------------------------------------
(* The server, external. *)

ServerReply(s, request) ==
    IF /\ s.retained # None /\ s.retained.file = request.file
       /\ request.offset <= CsvSize[s.retained.version]
    THEN [s EXCEPT !.phase = "sent",
             !.out = @ \o Message("ResultHeader", None, s.retained)
                       \o SubSeq(Whole(s.retained), request.offset + 1,
                                 CsvSize[s.retained.version])]
    ELSE [s EXCEPT !.phase = "eof", !.out = @ \o Message("Ack", "NoSuchResult", None)]

\* A message out of turn makes the server close.
ServerGets(s, message) ==
    CASE s.phase = "header" /\ message.kind = "header" ->
            [s EXCEPT !.phase = "upload", !.file = message.file]
      [] s.phase = "header" /\ message.kind = "request" -> ServerReply(s, message)
      [] s.phase = "upload" /\ message.kind = "chunk" -> s
      [] s.phase = "upload" /\ message.kind = "trailer" -> [s EXCEPT !.phase = "verify"]
      [] s.phase \in {"none", "reset"} -> s
      [] OTHER -> [s EXCEPT !.phase = "eof"]

ServerAcks ==
    /\ server.phase = "verify"
    /\ \E status \in {"Ok", "CrcMismatch"} :
          server' = [server EXCEPT !.out = @ \o Message("Ack", status, None),
                                   !.phase = IF status = "Ok" THEN "analyzing" ELSE "eof"]
    /\ UNCHANGED <<ui, queue, worker, reader>>

ServerAnalyzes ==
    /\ server.phase = "analyzing"
    /\ \E v \in Version :
          LET csv == [file |-> server.file, version |-> v]
          IN  server' = [server EXCEPT !.phase = "sent", !.retained = csv,
                            !.out = @ \o Message("ResultHeader", None, csv) \o Whole(csv)]
    /\ UNCHANGED <<ui, queue, worker, reader>>

\* A timeout, a crash, a lost network: the connection ends in order or is reset.
ServerCloses ==
    /\ server.phase \notin {"none", "eof", "reset"}
    /\ server' \in {[server EXCEPT !.phase = "eof"],
                    [server EXCEPT !.phase = "reset", !.out = <<>>]}
    /\ UNCHANGED <<ui, queue, worker, reader>>

\* Another peer than expected: something that is not a message, or an absurd header.
ServerBabbles ==
    /\ server.phase \in {"header", "verify"}
    /\ server' = [server EXCEPT !.out = @ \o Message("Bad", None, None), !.phase = "eof"]
    /\ UNCHANGED <<ui, queue, worker, reader>>

\* Between this client's sessions the server forgets its result or serves another
\* client, which may have sent the same file.
ServerServesOther ==
    /\ server.phase = "none"
    /\ server.retained # None
    /\ \E other \in Csv \cup {None} : server' = [server EXCEPT !.retained = other]
    /\ UNCHANGED <<ui, queue, worker, reader>>
-----------------------------------------------------------------------------
(* The reader thread as the worker sees it: mid means a slot is being filled. *)

ReaderAcquires ==
    /\ reader.busy /\ ~reader.abort /\ ~reader.mid
    /\ ~reader.complete /\ ~reader.failed
    /\ reader.ring < SlotCount
    /\ \/ /\ reader.remaining > 0
          /\ reader' = [reader EXCEPT !.mid = TRUE]
          /\ UNCHANGED queue
       \/ /\ reader.remaining = 0
          /\ reader' = [reader EXCEPT !.complete = TRUE]
          /\ queue' = [queue EXCEPT !.async = TRUE]
    /\ UNCHANGED <<ui, worker, server>>

\* The chunk is committed, or the file turns out to be shorter than it was.
ReaderFills ==
    /\ reader.mid
    /\ reader' \in {[reader EXCEPT !.mid = FALSE, !.ring = @ + 1, !.remaining = @ - 1],
                    [reader EXCEPT !.mid = FALSE, !.failed = TRUE]}
    /\ queue' = [queue EXCEPT !.async = TRUE]
    /\ UNCHANGED <<ui, worker, server>>

ReaderCloses ==
    /\ reader.busy /\ ~reader.mid
    /\ reader.abort \/ reader.complete \/ reader.failed
    /\ reader' = [reader EXCEPT !.busy = FALSE]
    /\ UNCHANGED <<ui, queue, worker, server>>
-----------------------------------------------------------------------------
(* The worker loop's callbacks. *)

InPoll == worker.pc = "poll"

OnAsync ==
    /\ InPoll /\ queue.async /\ ~worker.quit
    /\ queue' = [queue EXCEPT !.async = FALSE]
    /\ worker' = [worker EXCEPT !.pc = "drain"]
    /\ UNCHANGED <<ui, reader, server>>

DrainCommand ==
    /\ worker.pc = "drain"
    /\ queue.commands # <<>>
    /\ \E opened, ok \in BOOLEAN :
          LET w == Handle(World, Head(queue.commands), opened, ok)
          IN  /\ worker' = w.worker
              /\ reader' = w.reader
              /\ queue' = [queue EXCEPT !.commands = Tail(@), !.events = w.events]
    /\ UNCHANGED <<ui, server>>

\* Faulty variant: one callback handles one command, though signals coalesce.
DrainEndEarly ==
    /\ worker.pc = "drain"
    /\ \E ok \in BOOLEAN : Install([PumpUpload(World, ok) EXCEPT !.worker.pc = "poll"])
    /\ UNCHANGED <<ui, server>>

DrainEnd ==
    /\ worker.pc = "drain"
    /\ queue.commands = <<>>
    /\ \E ok \in BOOLEAN : Install([PumpUpload(World, ok) EXCEPT !.worker.pc = "poll"])
    /\ UNCHANGED <<ui, server>>

\* readable: startRead() succeeded.
OnConnect ==
    /\ InPoll /\ worker.socket = "connecting"
    /\ LET untimed == [World EXCEPT !.worker.timer = FALSE]
           connected == PushLink([untimed EXCEPT !.worker.socket = "open"], "Connected")
       IN  \/ /\ Install(CloseSocket(PushLink(untimed, "Disconnected")))
              /\ UNCHANGED server
           \/ /\ \E readable \in BOOLEAN :
                    Install(IF readable THEN connected ELSE CloseSocket(connected))
              /\ server' = [server EXCEPT !.phase = "header", !.out = <<>>]
    /\ UNCHANGED ui

OnConnectTimeout ==
    /\ InPoll /\ worker.timer
    /\ LET fired == [World EXCEPT !.worker.timer = FALSE]
       IN  Install(IF SocketUsable(fired)
                   THEN PushSession(CloseSocket(PushLink(fired, "Disconnected")), "Idle")
                   ELSE fired)
    /\ UNCHANGED <<ui, server>>

\* Faulty variant: a connection lost while an answer is awaited only closes the socket.
OnErrorUploadsOnly(w) ==
    LET ended == IF w.worker.uploading THEN AbortUpload(w) ELSE w
    IN  CloseSocket(PushLink(ended, "Disconnected"))

OnError(w) ==
    LET ended == CASE w.worker.uploading -> AbortUpload(w)
                   [] ~w.worker.uploading /\ w.worker.expecting # "Nothing" -> FailSession(w)
                   [] OTHER -> w
    IN  CloseSocket(PushLink(ended, "Disconnected"))

\* The header's, the trailer's and the request's completions count off a chunk, if any.
WriteEnds(w, n) ==
    [w EXCEPT !.worker.writes = SubSeq(@, n + 1, Len(@)),
              !.worker.inFlight = IF @ > n THEN @ - n ELSE 0]

OnSendComplete ==
    /\ InPoll /\ worker.socket = "open"
    /\ worker.writes # <<>>
    /\ \/ /\ \E ok \in BOOLEAN : Install(PumpUpload(WriteEnds(World, 1), ok))
          /\ server' = ServerGets(server, Head(worker.writes))
       \/ /\ Install(OnError(WriteEnds(World, 1)))
          /\ UNCHANGED server
    /\ UNCHANGED ui

\* The next unit of what has arrived: a read of several is several in a row, and after a
\* failure, which closes the socket, onBytes() drops the rest.
OnRead ==
    /\ InPoll /\ worker.socket = "open"
    /\ server.out # <<>>
    /\ \E ok \in BOOLEAN : Install(OnBytes(World, Head(server.out), ok))
    /\ server' = [server EXCEPT !.out = Tail(@)]
    /\ UNCHANGED ui

OnReadError ==
    /\ InPoll /\ worker.socket = "open"
    /\ server.phase = "reset" \/ (server.phase = "eof" /\ server.out = <<>>)
    /\ Install(OnError(World))
    /\ UNCHANGED <<ui, server>>

\* Writes still pending are cancelled first, each through onSendComplete() and onError().
OnClosed ==
    /\ InPoll /\ worker.socket = "closing"
    /\ LET cancelled == IF worker.writes = <<>> THEN World
                        ELSE OnError(WriteEnds(World, Len(worker.writes)))
       IN  Install(PushLink([cancelled EXCEPT !.worker.socket = "none"], "Disconnected"))
    /\ server' = [server EXCEPT !.phase = "none", !.file = None, !.out = <<>>]
    /\ UNCHANGED ui

\* uv_run() returns when the last handle is closed.
LoopEnds ==
    /\ InPoll /\ worker.quit /\ worker.socket = "none"
    /\ worker' = [worker EXCEPT !.pc = "ended"]
    /\ UNCHANGED <<ui, queue, reader, server>>

LoopStep ==
    \/ OnAsync \/ DrainCommand \/ DrainEnd \/ OnConnect \/ OnConnectTimeout
    \/ OnSendComplete \/ OnRead \/ OnReadError \/ OnClosed \/ LoopEnds
-----------------------------------------------------------------------------
(* The UI thread. *)

IsBusy(session) == session \in {"Connecting", "SendingHeader", "Streaming", "WaitAck",
                                "WaitResult", "ReceivingResult"}

CanConnect == ui.link = "Disconnected" /\ ~IsBusy(ui.session)
CanDisconnect == ui.link # "Disconnected"
CanSend == ui.link = "Connected" /\ ~IsBusy(ui.session)
CanCancelUpload == ui.session \in {"SendingHeader", "Streaming"}
CanRequestResult == ui.claim /\ ui.link = "Connected" /\ ~IsBusy(ui.session)

\* A button's callback posts its command.
Click(kind, file, session) ==
    /\ ~ui.quit /\ ui.clicks < MaxClicks
    /\ ui' = [ui EXCEPT !.clicks = @ + 1, !.session = session]
    /\ queue' = [queue EXCEPT !.commands = Append(@, [kind |-> kind, file |-> file]),
                              !.async = TRUE]
    /\ UNCHANGED <<worker, reader, server>>

ClickConnect == CanConnect /\ Click("Connect", None, ui.session)
ClickDisconnect == CanDisconnect /\ Click("Disconnect", None, "Idle")
ClickSend == CanSend /\ \E f \in File : Click("StartUpload", f, ui.session)
ClickCancel == CanCancelUpload /\ Click("CancelUpload", None, ui.session)
ClickRequestResult == CanRequestResult /\ Click("RequestResult", None, ui.session)

\* Application's shutdown: TransferService::stop() posts the last command.
CloseWindow ==
    /\ ~ui.quit
    /\ ui' = [ui EXCEPT !.quit = TRUE]
    /\ queue' = [queue EXCEPT !.commands = Append(@, [kind |-> "Quit", file |-> None]),
                              !.async = TRUE]
    /\ UNCHANGED <<worker, reader, server>>

PumpWorkerEvents ==
    LET seen(old, event) == IF event = None THEN old ELSE event
    IN  /\ ~ui.quit
        /\ queue.events # NoEvents
        /\ ui' = [ui EXCEPT !.link = seen(@, queue.events.link),
                            !.session = seen(@, queue.events.session),
                            !.claim = seen(@, queue.events.claim)]
        /\ queue' = [queue EXCEPT !.events = NoEvents]
        /\ UNCHANGED <<worker, reader, server>>

UiStep == ClickConnect \/ ClickDisconnect \/ ClickSend \/ ClickCancel
          \/ ClickRequestResult \/ CloseWindow \/ PumpWorkerEvents
ReaderStep == ReaderAcquires \/ ReaderFills \/ ReaderCloses
ServerStep == ServerAcks \/ ServerAnalyzes \/ ServerCloses \/ ServerBabbles
              \/ ServerServesOther

Ended == worker.pc = "ended" /\ UNCHANGED vars

Next == UiStep \/ LoopStep \/ ReaderStep \/ ServerStep \/ Ended

Spec == Init /\ [][Next]_vars

\* The loop delivers asyncs, handles its queue and finishes closing what was closed.
FairSpec ==
    /\ Spec
    /\ WF_vars(OnAsync) /\ WF_vars(DrainCommand) /\ WF_vars(DrainEnd)
    /\ WF_vars(OnClosed) /\ WF_vars(LoopEnds)
-----------------------------------------------------------------------------
(* Properties. *)

\* The UI has seen everything and the worker has nothing to do for it.
Settled ==
    /\ queue.commands = <<>> /\ queue.events = NoEvents /\ InPoll
    /\ worker.socket \in {"none", "open"}

\* Once the events are taken the buttons are those of the phase the worker is in.  In
\* particular a lost connection never leaves the window locked (TransferService::onError
\* and the Disconnect command say how it could), and the window is locked while a file is
\* sent or its result is due.  Whether it is locked while the reply to a repeated request is
\* due is left open: isBusy() says no, its comment yes.
ButtonsFollowWorker ==
    Settled =>
      /\ worker.uploading \/ worker.expecting \in {"Ack", "ResultHeader", "CsvPayload"}
            => IsBusy(ui.session)
      /\ IsBusy(ui.session) => worker.uploading \/ worker.expecting # "Nothing"
      /\ ui.link = "Connected" <=> worker.socket = "open"
      /\ ui.claim <=> worker.claim # None

\* A result offered for saving is one whole result, never a mixture of two results the
\* server kept at different times (finishDownload), and a result of the file last sent
\* unless that was begun while another's Ack was due; what has been received so far has no
\* gap and no repetition, however often the download was broken off and resumed from the
\* claim's offset.
ResultIsWhole ==
    /\ \A k \in 1 .. Len(worker.csv) : worker.csv[k].part = k
    /\ worker.result # <<>> =>
          \E csv \in Csv :
             /\ worker.result = Whole(csv)
             /\ worker.overlap \/ csv.file = worker.file

\* A claim is for the file last sent, and held only while nothing is being sent and its
\* result has not arrived whole (dropResultClaim and handleAckBytes).
ClaimIsHonest ==
    worker.claim # None =>
      worker.claim = worker.file /\ ~worker.uploading /\ worker.result = <<>>

\* Every posted command is handled although signals coalesce (drainCommands).
CommandsHandled == queue.commands # <<>> ~> queue.commands = <<>>

\* Closing the window ends the worker in whatever phase it is (QuitCommand).
QuitEnds == ui.quit ~> worker.pc = "ended"
=============================================================================
