------------------------ MODULE TransferClient_lemmas ------------------------
(***************************************************************************)
(* The inductive invariant of TransferClient, for every set of files, every *)
(* size of a result, every ring and limit on writes, and any number of      *)
(* clicks, and what the worker's commands and its receiving side do to it.  *)
(*                                                                         *)
(* The invariant says of the worker alone what it holds and what it waits   *)
(* for (Held, Waits), of the worker and the connection which answer is on   *)
(* its way (Line, Rest, Answer), and what the window shows once it has      *)
(* taken the pending events (Shown, Session).  The worker's methods map a   *)
(* good world to a good one.  TransferClient_proofs uses these facts for    *)
(* the callbacks and the other actions.                                     *)
(***************************************************************************)
EXTENDS TransferClient, TLAPS

(* Types.  A message is what the worker sends, a unit what it receives. *)
MessageSet == [kind : {"header"}, file : File] \cup [kind : {"chunk", "trailer", "done"}]
              \cup [kind : {"request"}, file : File, offset : Nat]
Unit == [kind : {"Ack", "ResultHeader", "Csv", "Bad"}, part : Nat,
         status : {None, "Ok", "CrcMismatch", "NoSuchResult"}, csv : Csv \cup {None}]
Command == [kind : {"StartUpload"}, file : File]
           \cup [kind : {"Connect", "Disconnect", "CancelUpload", "RequestResult", "Quit"},
                 file : {None}]

IsWorker(k) ==
    /\ DOMAIN k = {"pc", "socket", "timer", "writes", "uploading", "file", "sent", "inFlight",
                   "expecting", "part", "csv", "csvCrc", "claim", "received", "result",
                   "overlap", "quit"}
    /\ k.socket \in {"none", "connecting", "open", "closing"}
    /\ k.writes \in Seq(MessageSet)
    /\ k.timer \in BOOLEAN /\ k.uploading \in BOOLEAN /\ k.quit \in BOOLEAN /\ k.overlap \in BOOLEAN
    /\ k.file \in File \cup {None} /\ k.claim \in File \cup {None}
    /\ k.expecting \in {"Nothing", "Ack", "ResultHeader", "ResumeReply", "CsvPayload"}
    /\ k.sent \in Nat /\ k.inFlight \in 0 .. kMaxInFlightWrites
    /\ k.part \in {0, 1} /\ k.received \in Nat
    /\ k.csv \in Seq(Unit)

IsReader(r) ==
    /\ DOMAIN r = {"busy", "mid", "remaining", "ring", "abort", "complete", "failed"}
    /\ r.ring \in Nat

IsEvents(e) ==
    /\ DOMAIN e = {"link", "session", "claim"}
    /\ e.link \in LinkState \cup {None} /\ e.session \in SessionState \cup {None}
    /\ e.claim \in BOOLEAN \cup {None}

IsWorld(w) ==
    /\ DOMAIN w = {"worker", "reader", "events"}
    /\ IsWorker(w.worker) /\ IsReader(w.reader) /\ IsEvents(w.events)

IsServer(s) ==
    /\ DOMAIN s = {"phase", "file", "out", "retained"}
    /\ s.phase \in {"none", "header", "upload", "verify", "analyzing", "sent", "eof", "reset"}
    /\ s.file \in File \cup {None}
    /\ s.out \in Seq(Unit)
    /\ s.retained \in Csv \cup {None}
    /\ s.phase \in {"upload", "verify", "analyzing"} => s.file \in File

IsUi(u) ==
    /\ DOMAIN u = {"link", "session", "claim", "clicks", "quit"}
    /\ u.link \in LinkState /\ u.session \in SessionState /\ u.claim \in BOOLEAN
    /\ u.quit \in BOOLEAN

IsQueue(q) ==
    /\ DOMAIN q = {"commands", "events", "async"}
    /\ q.commands \in Seq(Command)
    /\ IsEvents(q.events)
-----------------------------------------------------------------------------
Idle(k) == ~k.uploading /\ k.expecting = "Nothing"

(* An Ack is, or will be, due. *)
Sending(k) == k.uploading \/ k.expecting = "Ack"

(* The session as the buttons tell it. *)
Busy(k) == k.uploading \/ k.expecting \notin {"Nothing", "ResumeReply"}

(* The file f is the one last sent, as far as the worker can know. *)
Own(k, f) == k.overlap \/ f = k.file

(* What is held: a claim is for the file last sent and only while its result  *)
(* is not there, what was received has no gap, a result is whole.             *)
Held(k) ==
    /\ k.claim # None => k.claim = k.file /\ k.result = <<>>
    /\ \A i \in 1 .. Len(k.csv) : k.csv[i].part = i
    /\ k.result # <<>> => \E csv \in Csv : k.result = Whole(csv) /\ Own(k, csv.file)

(* What is awaited. *)
Waits(k) ==
    /\ Sending(k) => k.claim = None /\ k.result = <<>> /\ k.file \in File
    /\ k.uploading => k.expecting = "Nothing"
    /\ k.expecting \in {"ResultHeader", "ResumeReply", "CsvPayload"} => k.claim # None
    /\ k.claim # None => k.received = Len(k.csv)
    /\ k.claim = None \/ k.expecting = "ResultHeader" => k.csv = <<>>
    /\ k.expecting = "CsvPayload" => k.csvCrc \in Csv /\ Own(k, k.csvCrc.file)

(* The socket and the connection. *)
Line(k, s) ==
    /\ k.socket \in {"none", "connecting"} => s.phase = "none"
    /\ k.socket = "open" => s.phase # "none" /\ ~k.timer
    /\ k.socket = "none" => k.writes = <<>>
    /\ k.quit => k.socket \in {"none", "closing"}
    /\ s.phase \in {"none", "header", "upload", "verify", "reset"} => s.out = <<>>

(* Without a connection nothing is under way but what a pending write will end. *)
Rest(k) == k.socket # "open" /\ k.writes = <<>> => k.quit \/ Idle(k)

(* The answer to an upload: the Ack is units -3 and -2, the header of the     *)
(* result -1 and 0, and the bytes of c from the b-th on follow.               *)
At(c, b, n) ==
    IF n > 0 THEN [kind |-> "Csv", part |-> b + n, status |-> None, csv |-> c]
    ELSE IF n > -2 THEN [kind |-> "ResultHeader", part |-> n + 2, status |-> None, csv |-> c]
    ELSE [kind |-> "Ack", part |-> n + 4, status |-> "Ok", csv |-> None]

(* out is a stretch of that answer which begins behind unit -h. *)
Stretch(out, c, b, h) == \A i \in 1 .. Len(out) : out[i] = At(c, b, i - h)

(* What the worker must be waiting for when unit n is the next. *)
Awaits(k, c, b, n) ==
    /\ n < -1 => Sending(k) /\ b = 0 /\ Own(k, c.file)
    /\ n \in {-1, 0} /\ k.claim # None =>
          k.expecting # "CsvPayload" /\ b = Len(k.csv) /\ Own(k, c.file)
    /\ n > 0 /\ k.expecting = "CsvPayload" => b + n = Len(k.csv) + 1

Refused(out) ==
    \A i \in 1 .. Len(out) : out[i].kind = "Bad" \/ (out[i].kind = "Ack" /\ out[i].status # "Ok")

Replied(k, out) ==
    \/ out = <<>>
    \/ Refused(out) /\ k.expecting # "CsvPayload"
    \/ \E c \in Csv, b \in Nat, h \in Int :
          h <= 4 /\ Stretch(out, c, b, h) /\ Awaits(k, c, b, 1 - h)

(* The Ack is sent, in whole or in part it may have been read. *)
Acked(k, s) ==
    /\ s.file \in File
    /\ \E h \in {2, 3, 4} :
          /\ Len(s.out) = h - 2
          /\ \A i \in 1 .. Len(s.out) : s.out[i] = At(None, 0, i - h)
          /\ h > 2 => Sending(k) /\ Own(k, s.file)
          /\ h = 2 /\ k.claim # None =>
                k.expecting # "CsvPayload" /\ k.csv = <<>> /\ Own(k, s.file)

(* What the worker has sent on this connection, none of it delivered yet. *)
Unsent(k) ==
    /\ k.writes = <<>> => Idle(k)
    /\ k.writes # <<>> =>
          \/ Head(k.writes).kind = "header" /\ Sending(k) /\ Own(k, Head(k.writes).file)
          \/ /\ Head(k.writes).kind = "request"
             /\ k.claim # None => /\ k.expecting = "ResumeReply"
                                  /\ Head(k.writes).file = k.claim
                                  /\ Head(k.writes).offset = Len(k.csv)

Answer(k, s) ==
    k.socket \in {"connecting", "open"} =>
      /\ s.phase \in {"none", "header"} => Unsent(k)
      /\ s.phase \in {"upload", "verify"} => Sending(k) /\ s.file \in File /\ Own(k, s.file)
      /\ s.phase = "analyzing" => Acked(k, s)
      /\ s.phase \in {"sent", "eof"} => Replied(k, s.out)

(* What the window shows once it has taken the events. *)
Seen(old, event) == IF event = None THEN old ELSE event

Shown(k, e, u) ==
    /\ k.socket = "open" => Seen(u.link, e.link) = "Connected"
    /\ k.socket \in {"none", "connecting"} => Seen(u.link, e.link) # "Connected"
    /\ Seen(u.claim, e.claim) <=> k.claim # None

(* leaving: a Disconnect, which set the window to Idle, has not been handled. *)
Session(k, e, u, leaving) ==
    LET session == Seen(u.session, e.session)
    IN  /\ ~k.quit /\ IsBusy(session) => Busy(k)
        /\ ~k.quit /\ Busy(k) => IsBusy(session) \/ k.socket = "closing" \/ leaving
        /\ k.quit /\ k.socket = "none" => e # NoEvents \/ (IsBusy(session) <=> Busy(k))

Base(w, s, u) ==
    IsWorld(w) /\ Held(w.worker) /\ Line(w.worker, s) /\ Shown(w.worker, w.events, u)

Good(w, s, u, leaving) ==
    /\ Base(w, s, u)
    /\ Waits(w.worker) /\ Rest(w.worker) /\ Answer(w.worker, s)
    /\ Session(w.worker, w.events, u, leaving)

Leaving(cs) == \E i \in 1 .. Len(cs) : cs[i].kind = "Disconnect"

(* Nothing is posted after Quit. *)
Posted(k, u, cs) ==
    /\ \A i \in 1 .. Len(cs) : cs[i].kind = "Quit" => i = Len(cs) /\ u.quit
    /\ k.quit => cs = <<>> /\ u.quit

IInv ==
    /\ Good(World, server, ui, Leaving(queue.commands))
    /\ IsServer(server) /\ IsUi(ui) /\ IsQueue(queue)
    /\ Posted(worker, ui, queue.commands)

-----------------------------------------------------------------------------
(* Fields that a method leaves alone. *)
SameHeld(k, l) ==
    /\ l.file = k.file /\ l.overlap = k.overlap /\ l.claim = k.claim /\ l.received = k.received
    /\ l.csv = k.csv /\ l.csvCrc = k.csvCrc /\ l.result = k.result
SameStage(k, l) == l.uploading = k.uploading /\ l.expecting = k.expecting
SameLine(k, l) ==
    l.socket = k.socket /\ l.writes = k.writes /\ l.quit = k.quit /\ l.timer = k.timer
Alike(k, l) == SameHeld(k, l) /\ SameStage(k, l) /\ SameLine(k, l)

(* A sequence with one more at its end. *)
LEMMA AppendFacts ==
    ASSUME NEW S, NEW q \in Seq(S), NEW m \in S
    PROVE  /\ Append(q, m) \in Seq(S) /\ Append(q, m) # <<>>
           /\ q # <<>> => Head(Append(q, m)) = Head(q)
           /\ q = <<>> => Head(Append(q, m)) = m
<1>1. Append(q, m) \in Seq(S) /\ Len(Append(q, m)) = Len(q) + 1 /\ Len(q) \in Nat
  OBVIOUS
<1>2. Append(q, m) # <<>>
  BY <1>1
<1>3. q # <<>> => Head(Append(q, m)) = Head(q)
  OBVIOUS
<1>4. q = <<>> => Head(Append(q, m)) = m
  OBVIOUS
<1> QED BY <1>1, <1>2, <1>3, <1>4

(* The predicates read no other field. *)
LEMMA HeldOfAlike ==
    ASSUME NEW k, NEW l, SameHeld(k, l), Held(k)
    PROVE  Held(l)
BY DEF SameHeld, Held, Own

(* What is awaited depends on the fields of Alike only. *)
LEMMA WaitsOfAlike ==
    ASSUME NEW k, NEW l, SameHeld(k, l), SameStage(k, l), Waits(k)
    PROVE  Waits(l)
BY DEF SameHeld, SameStage, Waits, Own, Sending

(* So does the answer that is due. *)
LEMMA AnswerOfAlike ==
    ASSUME NEW k, NEW l, NEW s, Alike(k, l), Answer(k, s)
    PROVE  Answer(l, s)
<1>1. Sending(l) <=> Sending(k)
  BY DEF Alike, SameStage, Sending
<1>2. Idle(l) <=> Idle(k)
  BY DEF Alike, SameStage, Idle
<1>3. \A f : Own(l, f) <=> Own(k, f)
  BY DEF Alike, SameHeld, Own
<1>4. Unsent(k) => Unsent(l)
  BY <1>1, <1>2, <1>3 DEF Unsent, Alike, SameHeld, SameStage, SameLine
<1>5. Acked(k, s) => Acked(l, s)
  BY <1>1, <1>3, Zenon DEF Acked, Alike, SameHeld, SameStage
<1>6. \A c, b, n : Awaits(k, c, b, n) => Awaits(l, c, b, n)
  BY <1>1, <1>3 DEF Awaits, Alike, SameHeld, SameStage
<1>7. Replied(k, s.out) => Replied(l, s.out)
  BY <1>6 DEF Replied, Alike, SameStage
<1> QED
  BY <1>1, <1>3, <1>4, <1>5, <1>7 DEF Answer, Alike, SameLine

(* A world like a good one, with the same events, is good. *)
LEMMA GoodOfAlike ==
    ASSUME NEW w, NEW v, NEW s, NEW u, NEW leaving, Good(w, s, u, leaving),
           IsWorld(v), v.events = w.events, Alike(w.worker, v.worker)
    PROVE  Good(v, s, u, leaving)
<1> DEFINE k == w.worker
           l == v.worker
<1>1. Held(l) /\ Waits(l) /\ Answer(l, s)
  BY HeldOfAlike, WaitsOfAlike, AnswerOfAlike DEF Good, Base, Alike
<1>2. Line(l, s) /\ Shown(l, v.events, u)
  BY Zenon DEF Good, Base, Alike, Line, Shown, SameHeld, SameLine
<1>3. Rest(l)
  BY DEF Good, Rest, Idle, Alike, SameStage, SameLine
<1>4. Session(l, v.events, u, leaving)
  BY DEF Good, Session, Busy, Alike, SameStage, SameLine
<1> QED BY <1>1, <1>2, <1>3, <1>4 DEF Good, Base

(* A session that is over, with its socket closed or closing. *)
LEMMA EndedIsGood ==
    ASSUME NEW v, NEW s, NEW u, NEW leaving, Base(v, s, u), Waits(v.worker), Idle(v.worker),
           v.worker.socket \in {"none", "closing"}, v.events.session = "Idle"
    PROVE  Good(v, s, u, leaving)
<1>1. Rest(v.worker) /\ Answer(v.worker, s)
  BY DEF Rest, Answer
<1>2. v.events # NoEvents
  BY ClientAssumption DEF NoEvents, SessionState
<1>3. Session(v.worker, v.events, u, leaving)
  <2>1. Seen(u.session, v.events.session) = "Idle"
    BY ClientAssumption DEF Seen, SessionState
  <2> QED BY <1>2, <2>1 DEF Session, IsBusy, Idle, Busy
<1> QED BY <1>1, <1>3 DEF Good
-----------------------------------------------------------------------------
(* What the small methods change. *)

\* The socket after closeSocket().
Closed(x) == IF x \in {"connecting", "open"} THEN "closing" ELSE x

(* close() on the socket: what it leaves of the worker. *)
LEMMA CloseResult ==
    ASSUME NEW w, IsWorld(w)
    PROVE  LET v == CloseSocket(w)
           IN  /\ IsWorld(v) /\ v.events = w.events /\ v.reader = w.reader
               /\ SameHeld(w.worker, v.worker) /\ SameStage(w.worker, v.worker)
               /\ v.worker.writes = w.worker.writes /\ v.worker.quit = w.worker.quit
               /\ v.worker.timer = w.worker.timer
               /\ v.worker.socket = Closed(w.worker.socket)
<1>1. CASE SocketUsable(w)
  <2> DEFINE k == w.worker
             l == [w.worker EXCEPT !.socket = "closing"]
             v == [w EXCEPT !.worker = l]
  <2>1. CloseSocket(w) = v
    BY <1>1 DEF CloseSocket
  <2>2. IsWorker(l) /\ SameHeld(k, l) /\ SameStage(k, l) /\ l.writes = k.writes
        /\ l.quit = k.quit /\ l.timer = k.timer /\ l.socket = "closing"
    BY DEF IsWorld, IsWorker, SameHeld, SameStage
  <2> HIDE DEF l
  <2>3. IsWorld(v) /\ v.worker = l /\ v.events = w.events /\ v.reader = w.reader
    BY <2>2 DEF IsWorld
  <2> HIDE DEF v
  <2> QED BY <1>1, <2>1, <2>2, <2>3 DEF SocketUsable, Closed
<1>2. CASE ~SocketUsable(w)
  BY <1>2 DEF CloseSocket, SocketUsable, Closed, SameHeld, SameStage
<1> QED BY <1>1, <1>2

(* pushSessionState(): only the event of the session changes. *)
LEMMA PushSessionResult ==
    ASSUME NEW w, IsWorld(w), NEW session \in SessionState
    PROVE  LET v == PushSession(w, session)
           IN  /\ IsWorld(v) /\ v.worker = w.worker /\ v.reader = w.reader
               /\ v.events.session = session
               /\ v.events.link = w.events.link /\ v.events.claim = w.events.claim
BY DEF PushSession, IsWorld, IsEvents

(* pushLinkState(): only the event of the link changes. *)
LEMMA PushLinkResult ==
    ASSUME NEW w, IsWorld(w), NEW link \in LinkState
    PROVE  LET v == PushLink(w, link)
           IN  /\ IsWorld(v) /\ v.worker = w.worker /\ v.reader = w.reader
               /\ v.events.link = link
               /\ v.events.session = w.events.session /\ v.events.claim = w.events.claim
BY DEF PushLink, IsWorld, IsEvents

(* PushClaim: only the event of the claim changes. *)
LEMMA PushClaimResult ==
    ASSUME NEW w, IsWorld(w), NEW available \in BOOLEAN
    PROVE  LET v == PushClaim(w, available)
           IN  /\ IsWorld(v) /\ v.worker = w.worker /\ v.reader = w.reader
               /\ v.events.claim = available
               /\ v.events.session = w.events.session /\ v.events.link = w.events.link
BY DEF PushClaim, IsWorld, IsEvents

-----------------------------------------------------------------------------
(* The ends of a session. *)

(* drainRing(): only the ring changes. *)
LEMMA DrainResult ==
    ASSUME NEW w, IsWorld(w)
    PROVE  LET v == DrainRing(w)
           IN  IsWorld(v) /\ v.worker = w.worker /\ v.events = w.events
BY DEF DrainRing, IsWorld, IsReader

\* abort set for the reader, the upload ended for the worker.
LEMMA StopResult ==
    ASSUME NEW w, IsWorld(w)
    PROVE  LET v == [w EXCEPT !.reader.abort = TRUE, !.worker.uploading = FALSE]
           IN  /\ IsWorld(v) /\ v.events = w.events
               /\ SameHeld(w.worker, v.worker) /\ SameLine(w.worker, v.worker)
               /\ ~v.worker.uploading /\ v.worker.expecting = w.worker.expecting
<1> DEFINE r == [w.reader EXCEPT !.abort = TRUE]
           l == [w.worker EXCEPT !.uploading = FALSE]
           v == [w EXCEPT !.reader = r, !.worker = l]
<1>1. IsReader(r)
  BY DEF IsWorld, IsReader
<1>2. IsWorker(l) /\ SameHeld(w.worker, l) /\ SameLine(w.worker, l) /\ ~l.uploading
      /\ l.expecting = w.worker.expecting
  BY DEF IsWorld, IsWorker, SameHeld, SameLine
<1>3. [w EXCEPT !.reader.abort = TRUE, !.worker.uploading = FALSE] = v
  BY DEF IsWorld
<1> HIDE DEF r, l
<1>4. IsWorld(v) /\ v.events = w.events /\ v.worker = l
  BY <1>1, <1>2 DEF IsWorld
<1> HIDE DEF v
<1> QED BY <1>2, <1>3, <1>4, Zenon

(* A world whose socket is closed and whose window is told Idle. *)
LEMMA ClosedIsGood ==
    ASSUME NEW w, NEW s, NEW u, NEW leaving, Base(w, s, u),
           Waits(w.worker), Idle(w.worker)
    PROVE  LET v == PushSession(CloseSocket(w), "Idle")
           IN  /\ Good(v, s, u, leaving) /\ Idle(v.worker)
               /\ SameHeld(w.worker, v.worker)
               /\ v.worker.writes = w.worker.writes /\ v.worker.quit = w.worker.quit
               /\ v.worker.socket = Closed(w.worker.socket)
<1> DEFINE x == CloseSocket(w)
           v == PushSession(x, "Idle")
<1>1. /\ IsWorld(x) /\ x.events = w.events
      /\ SameHeld(w.worker, x.worker) /\ SameStage(w.worker, x.worker)
      /\ x.worker.writes = w.worker.writes /\ x.worker.quit = w.worker.quit
      /\ x.worker.timer = w.worker.timer
      /\ x.worker.socket = Closed(w.worker.socket)
  BY CloseResult DEF Base
<1> HIDE DEF x
<1>2. /\ IsWorld(v) /\ v.worker = x.worker /\ v.events.session = "Idle"
      /\ v.events.link = x.events.link /\ v.events.claim = x.events.claim
  BY <1>1, PushSessionResult DEF SessionState
<1> HIDE DEF v
<1>3. v.worker.socket \in {"none", "closing"}
  BY <1>1, <1>2, Zenon DEF Closed, Base, IsWorld, IsWorker
<1>4. Held(v.worker) /\ Waits(v.worker)
  BY <1>1, <1>2, HeldOfAlike, WaitsOfAlike DEF Base
<1>5. Line(v.worker, s)
  BY <1>1, <1>2, <1>3, Zenon DEF Base, Line, Closed
<1>6. Shown(v.worker, v.events, u)
  BY <1>1, <1>2, <1>3 DEF Base, Shown, Closed, SameHeld
<1>7. Idle(v.worker)
  BY <1>1, <1>2 DEF Idle, SameStage
<1>8. Good(v, s, u, leaving)
  BY <1>2, <1>3, <1>4, <1>5, <1>6, <1>7, EndedIsGood DEF Base
<1> QED BY <1>1, <1>2, <1>7, <1>8, Zenon DEF x, v

(* abortUpload() ends an upload and leaves a good, idle world. *)
LEMMA AbortIsGood ==
    ASSUME NEW w, NEW s, NEW u, NEW leaving, Base(w, s, u),
           Waits(w.worker), w.worker.expecting = "Nothing"
    PROVE  LET v == AbortUpload(w)
           IN  /\ Good(v, s, u, leaving) /\ Idle(v.worker)
               /\ v.worker.writes = w.worker.writes /\ v.worker.quit = w.worker.quit
               /\ v.worker.socket = Closed(w.worker.socket)
<1> DEFINE x == [w EXCEPT !.reader.abort = TRUE, !.worker.uploading = FALSE]
           y == DrainRing(x)
<1>1. /\ IsWorld(x) /\ x.events = w.events
      /\ SameHeld(w.worker, x.worker) /\ SameLine(w.worker, x.worker)
      /\ ~x.worker.uploading /\ x.worker.expecting = w.worker.expecting
  BY StopResult, Zenon DEF Base
<1> HIDE DEF x
<1>2. IsWorld(y) /\ y.worker = x.worker /\ y.events = w.events
  BY <1>1, DrainResult, Zenon
<1>3. AbortUpload(w) = PushSession(CloseSocket(y), "Idle")
  BY DEF AbortUpload, x, y
<1> HIDE DEF y
<1>4. Idle(y.worker)
  BY <1>1, <1>2 DEF Idle
<1>5. Waits(y.worker)
  BY <1>1, <1>2, Zenon DEF Waits, Sending, SameHeld, Own
<1>6. Base(y, s, u)
  BY <1>1, <1>2, HeldOfAlike DEF Base, Line, Shown, SameHeld, SameLine
<1> QED BY <1>1, <1>2, <1>3, <1>4, <1>5, <1>6, ClosedIsGood DEF SameLine

(* failSession() ends whatever was under way and leaves a good, idle world. *)
LEMMA FailIsGood ==
    ASSUME NEW w, NEW s, NEW u, NEW leaving, Base(w, s, u)
    PROVE  LET v == FailSession(w)
           IN  /\ Good(v, s, u, leaving) /\ Idle(v.worker)
               /\ v.worker.writes = w.worker.writes /\ v.worker.quit = w.worker.quit
               /\ v.worker.socket = Closed(w.worker.socket)
<1> DEFINE x == [w EXCEPT !.reader.abort = TRUE, !.worker.uploading = FALSE]
           halted == IF w.worker.uploading THEN DrainRing(x) ELSE w
           kept == IF HasClaim(w) THEN [halted EXCEPT !.worker.received = Len(w.worker.csv)]
                   ELSE [halted EXCEPT !.worker.csv = <<>>]
           y == [kept EXCEPT !.worker.expecting = "Nothing"]
<1>1. /\ IsWorld(halted) /\ halted.events = w.events
      /\ SameHeld(w.worker, halted.worker) /\ SameLine(w.worker, halted.worker)
      /\ ~halted.worker.uploading
  <2>1. CASE w.worker.uploading
    <3>1. /\ IsWorld(x) /\ x.events = w.events
          /\ SameHeld(w.worker, x.worker) /\ SameLine(w.worker, x.worker)
          /\ ~x.worker.uploading
      BY StopResult, Zenon DEF Base
    <3> HIDE DEF x
    <3> QED BY <2>1, <3>1, DrainResult
  <2>2. CASE ~w.worker.uploading
    BY <2>2 DEF Base, SameHeld, SameLine
  <2> QED BY <2>1, <2>2
<1>2. FailSession(w) = PushSession(CloseSocket(y), "Idle")
  BY DEF FailSession
<1> HIDE DEF halted
<1>3. /\ IsWorld(y) /\ y.events = w.events /\ Idle(y.worker)
      /\ SameLine(w.worker, y.worker)
      /\ y.worker.file = w.worker.file /\ y.worker.overlap = w.worker.overlap
      /\ y.worker.claim = w.worker.claim /\ y.worker.result = w.worker.result
      /\ y.worker.csv = IF HasClaim(w) THEN w.worker.csv ELSE <<>>
      /\ HasClaim(w) => y.worker.received = Len(w.worker.csv)
  <2> DEFINE k == halted.worker
             l == IF HasClaim(w) THEN [k EXCEPT !.received = Len(w.worker.csv),
                                                !.expecting = "Nothing"]
                  ELSE [k EXCEPT !.csv = <<>>, !.expecting = "Nothing"]
             z == [halted EXCEPT !.worker = l]
  <2>1. y = z
    BY <1>1, Zenon DEF IsWorld
  <2>2. Len(w.worker.csv) \in Nat
    BY DEF Base, IsWorld, IsWorker
  <2>3. IsWorker(l) /\ l.expecting = "Nothing" /\ l.uploading = k.uploading /\ SameLine(k, l)
        /\ l.file = k.file /\ l.overlap = k.overlap /\ l.claim = k.claim
        /\ l.result = k.result /\ l.csv = (IF HasClaim(w) THEN k.csv ELSE <<>>)
        /\ (HasClaim(w) => l.received = Len(w.worker.csv))
    BY <1>1, <2>2 DEF IsWorld, IsWorker, SameLine
  <2> HIDE DEF l
  <2>4. IsWorld(z) /\ z.worker = l /\ z.events = halted.events
    BY <1>1, <2>3 DEF IsWorld
  <2> HIDE DEF z, y
  <2> QED BY <1>1, <2>1, <2>3, <2>4, Zenon DEF Idle, SameHeld, SameLine
<1> HIDE DEF y
<1>4. Waits(y.worker)
  BY <1>3, Zenon DEF Waits, Sending, Idle, HasClaim
<1>5. Held(y.worker)
  BY <1>3 DEF Base, Held, Own
<1>6. Base(y, s, u)
  BY <1>3, <1>5, Zenon DEF Base, Line, Shown, SameLine
<1> QED BY <1>2, <1>3, <1>4, <1>6, ClosedIsGood DEF SameLine

-----------------------------------------------------------------------------
(* The upload. *)

\* More written, or the trailer sent: the answer is still that of an upload.
LEMMA AnswerOfUpload ==
    ASSUME NEW k, NEW l, NEW s, IsWorker(k), Waits(k), Answer(k, s), Sending(k), Sending(l),
           l.socket = k.socket, l.file = k.file, l.overlap = k.overlap, l.claim = None,
           l.expecting # "CsvPayload",
           NEW q \in Seq(MessageSet), l.writes = k.writes \o q
    PROVE  Answer(l, s)
<1>1. \A f : Own(l, f) <=> Own(k, f)
  BY DEF Own
<1>2. Unsent(k) => Unsent(l)
  <2> SUFFICES ASSUME Unsent(k) PROVE Unsent(l)
    OBVIOUS
  <2>1. k.writes # <<>> /\ k.writes \in Seq(MessageSet)
    BY Zenon DEF Unsent, Idle, Sending, IsWorker
  <2>2. l.writes # <<>> /\ Head(l.writes) = Head(k.writes)
    BY <2>1
  <2> QED BY <1>1, <2>1, <2>2, Zenon DEF Unsent
<1>3. Acked(k, s) => Acked(l, s)
  BY <1>1, Zenon DEF Acked
<1>4. \A c, b, n : Awaits(k, c, b, n) => Awaits(l, c, b, n)
  BY <1>1 DEF Awaits
<1>5. Replied(k, s.out) => Replied(l, s.out)
  BY <1>4, Zenon DEF Replied
<1> QED BY <1>1, <1>2, <1>3, <1>5 DEF Answer

\* During an upload the writes grow.
LEMMA MoreIsGood ==
    ASSUME NEW w, NEW s, NEW u, NEW leaving, Good(w, s, u, leaving), w.worker.uploading,
           SocketUsable(w), NEW v, IsWorld(v), v.events = w.events,
           SameHeld(w.worker, v.worker), SameStage(w.worker, v.worker),
           v.worker.socket = w.worker.socket, v.worker.quit = w.worker.quit,
           v.worker.timer = w.worker.timer,
           NEW q \in Seq(MessageSet), v.worker.writes = w.worker.writes \o q
    PROVE  Good(v, s, u, leaving)
<1> DEFINE k == w.worker
           l == v.worker
<1>1. IsWorker(k) /\ IsWorker(l) /\ Waits(k) /\ Answer(k, s)
  BY Zenon DEF Good, Base, IsWorld
<1>2. Sending(k) /\ Sending(l) /\ l.claim = None /\ l.expecting # "CsvPayload"
  BY <1>1, Zenon DEF Sending, SameHeld, SameStage, Waits
<1>3. Answer(l, s)
  BY <1>1, <1>2, AnswerOfUpload, Zenon DEF SameHeld
<1>4. Held(l) /\ Waits(l)
  BY HeldOfAlike, WaitsOfAlike, Zenon DEF Good, Base
<1>5. Line(l, s) /\ Shown(l, v.events, u)
  BY Zenon DEF Good, Base, Line, Shown, SameHeld, SocketUsable
<1>6. Rest(l)
  <2>1. k.socket # "open" => k.writes # <<>>
    <3>1. ~k.quit
      BY Zenon DEF Good, Base, Line, SocketUsable
    <3> QED BY <3>1, Zenon DEF Good, Rest, Idle
  <2>2. k.writes # <<>> => l.writes # <<>>
    BY <1>1, SMTT(30) DEF IsWorker
  <2> QED BY <2>1, <2>2, Zenon DEF Rest
<1>7. Session(l, v.events, u, leaving)
  BY Zenon DEF Good, Session, Busy, SameStage
<1> QED BY <1>3, <1>4, <1>5, <1>6, <1>7, Zenon DEF Good, Base

\* The trailer, and the Ack awaited.
LEMMA FinishIsGood ==
    ASSUME NEW w, NEW s, NEW u, NEW leaving, Good(w, s, u, leaving), w.worker.uploading,
           SocketUsable(w), NEW ok \in BOOLEAN
    PROVE  LET v == FinishUpload(w, ok)
           IN  Good(v, s, u, leaving) /\ v.worker.quit = w.worker.quit
<1>1. Base(w, s, u) /\ Waits(w.worker) /\ w.worker.expecting = "Nothing" /\ IsWorld(w)
  BY Zenon DEF Good, Base, Waits
<1>2. CASE ~ok
  BY <1>1, <1>2, AbortIsGood DEF FinishUpload
<1>3. CASE ok
  <2> DEFINE k == w.worker
             m == [kind |-> "trailer"]
             l == [k EXCEPT !.writes = Append(@, m), !.uploading = FALSE,
                            !.expecting = "Ack", !.part = 0]
             x == [Send(w, m) EXCEPT !.worker.uploading = FALSE]
             y == PushSession(x, "WaitAck")
             v == [w EXCEPT !.worker = l, !.events.session = "WaitAck"]
  <2>1. FinishUpload(w, ok) = ResetFramer(y, "Ack")
    BY <1>3 DEF FinishUpload
  <2>2. ResetFramer(y, "Ack") = v
    BY <1>1, Zenon DEF ResetFramer, PushSession, Send, IsWorld
  <2>3. m \in MessageSet
    BY Zenon DEF MessageSet
  <2>4. /\ IsWorker(l) /\ SameHeld(k, l) /\ ~l.uploading /\ l.expecting = "Ack"
        /\ l.socket = k.socket /\ l.quit = k.quit /\ l.timer = k.timer
        /\ l.writes = Append(k.writes, m)
    BY <1>1, <2>3 DEF IsWorld, IsWorker, SameHeld
  <2> HIDE DEF l, m
  <2>5. /\ IsWorld(v) /\ v.worker = l /\ v.events.session = "WaitAck"
        /\ v.events.link = w.events.link /\ v.events.claim = w.events.claim
    BY <1>1, <2>4 DEF IsWorld, IsEvents, SessionState
  <2> HIDE DEF v
  <2>6. Answer(l, s)
    <3>1. Sending(k) /\ Sending(l) /\ l.claim = None
      BY <1>1, <2>4, Zenon DEF Sending, SameHeld, Waits
    <3>2. <<m>> \in Seq(MessageSet) /\ l.writes = k.writes \o <<m>>
      <4>1. k.writes \in Seq(MessageSet)
        BY <1>1, Zenon DEF IsWorld, IsWorker
      <4> HIDE DEF k
      <4>2. <<m>> \in Seq(MessageSet) /\ Append(k.writes, m) = k.writes \o <<m>>
        BY <2>3, <4>1
      <4> QED BY <2>4, <4>2, Zenon
    <3>3. IsWorker(k) /\ Answer(k, s)
      BY <1>1, Zenon DEF Good, IsWorld
    <3> QED BY <1>1, <2>4, <3>1, <3>2, <3>3, AnswerOfUpload, Zenon DEF SameHeld
  <2>7. Held(l)
    BY <1>1, <2>4, HeldOfAlike, Zenon DEF Base
  <2>8. Waits(l)
    BY <1>1, <2>4, Zenon DEF Waits, Sending, SameHeld
  <2>9. Line(l, s) /\ Shown(l, v.events, u)
    BY <1>1, <2>4, <2>5, Zenon DEF Base, Line, Shown, SameHeld, SocketUsable
  <2>10. Rest(l)
    <3>1. k.writes \in Seq(MessageSet)
      BY <1>1 DEF IsWorld, IsWorker
    <3>2. Append(k.writes, m) # <<>>
      BY <2>3, <3>1, AppendFacts
    <3> QED BY <2>4, <3>2, Zenon DEF Rest
  <2>11. Session(l, v.events, u, leaving)
    <3>1. IsBusy(Seen(u.session, v.events.session)) /\ Busy(l)
      BY <2>4, <2>5, ClientAssumption, Zenon DEF Seen, SessionState, IsBusy, Busy
    <3>2. l.socket # "none"
      BY <2>4, Zenon DEF SocketUsable
    <3> QED BY <3>1, <3>2 DEF Session
  <2> QED
    BY <2>1, <2>2, <2>4, <2>5, <2>6, <2>7, <2>8, <2>9, <2>10, <2>11 DEF Good, Base
<1> QED BY <1>2, <1>3

(* pumpUpload() leaves a good world good, whatever it could send. *)
LEMMA PumpIsGood ==
    ASSUME NEW w, NEW s, NEW u, NEW leaving, Good(w, s, u, leaving), NEW ok \in BOOLEAN
    PROVE  LET v == PumpUpload(w, ok)
           IN  Good(v, s, u, leaving) /\ v.worker.quit = w.worker.quit
<1> DEFINE room == kMaxInFlightWrites - w.worker.inFlight
           n == IF w.reader.ring < room THEN w.reader.ring ELSE room
           q == [j \in 1 .. n |-> [kind |-> "chunk"]]
           pumped == [w EXCEPT !.worker.inFlight = @ + n, !.worker.sent = @ + n,
                               !.worker.writes = @ \o q, !.reader.ring = @ - n]
<1>1. IsWorld(w) /\ Base(w, s, u) /\ Waits(w.worker)
  BY DEF Good, Base
<1>2. CASE ~w.worker.uploading \/ ~SocketUsable(w)
  BY <1>2, Zenon DEF PumpUpload
<1>3. CASE w.worker.uploading /\ SocketUsable(w) /\ (w.reader.failed \/ (n > 0 /\ ~ok))
  <2>1. PumpUpload(w, ok) = AbortUpload(w)
    BY <1>3, Zenon DEF PumpUpload
  <2>2. w.worker.expecting = "Nothing"
    BY <1>1, <1>3, Zenon DEF Waits
  <2> QED BY <1>1, <2>1, <2>2, AbortIsGood, Zenon
<1>4. CASE w.worker.uploading /\ SocketUsable(w) /\ ~(w.reader.failed \/ (n > 0 /\ ~ok))
  <2>1. \/ PumpUpload(w, ok) = pumped
        \/ PumpUpload(w, ok) = FinishUpload(pumped, ok)
    BY <1>4, Zenon DEF PumpUpload
  <2>2. n \in Nat /\ n <= room /\ n <= w.reader.ring /\ room \in Nat
    BY <1>1, ClientAssumption, SMTT(30) DEF IsWorld, IsWorker, IsReader
  <2>3. q \in Seq(MessageSet)
    BY <2>2 DEF MessageSet
  <2> HIDE DEF q
  <2> DEFINE k == w.worker
             l == [k EXCEPT !.inFlight = @ + n, !.sent = @ + n, !.writes = @ \o q]
             r == [w.reader EXCEPT !.ring = @ - n]
             z == [w EXCEPT !.worker = l, !.reader = r]
  <2>4. pumped = z
    BY <1>1, Zenon DEF IsWorld
  <2>5. /\ IsWorker(l) /\ SameHeld(k, l) /\ SameStage(k, l) /\ l.socket = k.socket
        /\ l.quit = k.quit /\ l.timer = k.timer /\ l.writes = k.writes \o q
    <3>1. k.writes \o q \in Seq(MessageSet)
      BY <1>1, <2>3 DEF IsWorld, IsWorker
    <3>2. k.inFlight + n \in 0 .. kMaxInFlightWrites /\ k.sent + n \in Nat
      <4>1. k.inFlight \in 0 .. kMaxInFlightWrites /\ k.sent \in Nat
        BY <1>1, Zenon DEF IsWorld, IsWorker
      <4>2. kMaxInFlightWrites \in Nat
        BY ClientAssumption
      <4> HIDE DEF n
      <4> QED BY <2>2, <4>1, <4>2
    <3> HIDE DEF n
    <3> QED BY <1>1, <3>1, <3>2, Zenon DEF IsWorld, IsWorker, SameHeld, SameStage
  <2>6. IsReader(r)
    BY <1>1, <2>2 DEF IsWorld, IsReader
  <2> HIDE DEF l, r
  <2>7. IsWorld(z) /\ z.worker = l /\ z.events = w.events
    BY <1>1, <2>5, <2>6 DEF IsWorld
  <2> HIDE DEF z, pumped, n
  <2>8. Good(z, s, u, leaving)
    BY <1>4, <2>3, <2>5, <2>7, MoreIsGood, Zenon
  <2>9. z.worker.uploading /\ SocketUsable(z)
    BY <1>4, <2>5, <2>7, Zenon DEF SameStage, SocketUsable
  <2> QED BY <2>1, <2>4, <2>5, <2>7, <2>8, <2>9, FinishIsGood
<1> QED BY <1>2, <1>3, <1>4, Zenon

-----------------------------------------------------------------------------
(* The commands. *)

(* dropResultClaim(): the claim, its count and its event change, the bytes received stay. *)
LEMMA DropResult ==
    ASSUME NEW w, IsWorld(w)
    PROVE  LET v == DropResultClaim(w)
           IN  /\ IsWorld(v) /\ v.reader = w.reader
               /\ v.events.claim = FALSE
               /\ v.events.session = w.events.session /\ v.events.link = w.events.link
               /\ v.worker.claim = None
               /\ SameStage(w.worker, v.worker) /\ SameLine(w.worker, v.worker)
               /\ v.worker.file = w.worker.file /\ v.worker.overlap = w.worker.overlap
               /\ v.worker.csv = w.worker.csv /\ v.worker.csvCrc = w.worker.csvCrc
               /\ v.worker.result = w.worker.result
<1> DEFINE l == [w.worker EXCEPT !.claim = None, !.received = 0]
           x == [w EXCEPT !.worker = l]
<1>1. DropResultClaim(w) = PushClaim(x, FALSE)
  BY Zenon DEF DropResultClaim, IsWorld
<1>2. /\ IsWorker(l) /\ l.claim = None /\ SameStage(w.worker, l) /\ SameLine(w.worker, l)
      /\ l.file = w.worker.file /\ l.overlap = w.worker.overlap /\ l.csv = w.worker.csv
      /\ l.csvCrc = w.worker.csvCrc /\ l.result = w.worker.result
  BY DEF IsWorld, IsWorker, SameStage, SameLine
<1> HIDE DEF l
<1>3. IsWorld(x) /\ x.worker = l /\ x.reader = w.reader /\ x.events = w.events
  BY <1>2 DEF IsWorld
<1> HIDE DEF x
<1>4. LET v == PushClaim(x, FALSE)
      IN  /\ IsWorld(v) /\ v.worker = l /\ v.reader = w.reader /\ v.events.claim = FALSE
          /\ v.events.session = w.events.session /\ v.events.link = w.events.link
  BY <1>3, Zenon DEF PushClaim, IsWorld, IsEvents
<1> QED BY <1>1, <1>2, <1>4, Zenon

\* An upload begun while an Ack was due is marked; any other finds no Ack on its way.
LEMMA AnswerOfStart ==
    ASSUME NEW k, NEW l, NEW s, NEW f \in File, IsWorker(k), Answer(k, s), ~k.uploading,
           l.uploading, l.expecting = "Nothing", l.claim = None, l.file = f,
           l.overlap = (k.expecting = "Ack"), l.socket = k.socket,
           l.writes = Append(k.writes, [kind |-> "header", file |-> f])
    PROVE  Answer(l, s)
<1>1. Sending(l)
  BY Zenon DEF Sending
<1>2. Sending(k) => \A g : Own(l, g)
  BY Zenon DEF Sending, Own
<1>3. k.socket \in {"connecting", "open"} /\ s.phase \in {"none", "header"} => Unsent(l)
  <2> SUFFICES ASSUME k.socket \in {"connecting", "open"}, s.phase \in {"none", "header"}
               PROVE  Unsent(l)
    OBVIOUS
  <2> DEFINE m == [kind |-> "header", file |-> f]
  <2>1. k.writes \in Seq(MessageSet) /\ m \in MessageSet
    BY Zenon DEF IsWorker, MessageSet
  <2>2. m.kind = "header" /\ m.file = f
    BY Zenon
  <2> HIDE DEF m
  <2>3. /\ l.writes # <<>>
        /\ k.writes # <<>> => Head(l.writes) = Head(k.writes)
        /\ k.writes = <<>> => Head(l.writes) = m
    BY <2>1, AppendFacts DEF m
  <2>4. CASE k.writes = <<>>
    BY <1>1, <2>2, <2>3, <2>4, Zenon DEF Unsent, Own
  <2>5. CASE k.writes # <<>>
    BY <1>1, <1>2, <2>3, <2>5, Zenon DEF Answer, Unsent
  <2> QED BY <2>4, <2>5, Zenon
<1>4. Acked(k, s) => Acked(l, s)
  BY <1>1, <1>2, Zenon DEF Acked
<1>5. \A c, b, n : Awaits(k, c, b, n) => Awaits(l, c, b, n)
  BY <1>1, <1>2, Zenon DEF Awaits
<1>6. Replied(k, s.out) => Replied(l, s.out)
  BY <1>5, Zenon DEF Replied
<1> QED BY <1>1, <1>2, <1>3, <1>4, <1>6, Zenon DEF Answer


(* One write more, at the end of those that are pending. *)
LEMMA SendResult ==
    ASSUME NEW w, IsWorld(w), NEW m \in MessageSet
    PROVE  LET v == Send(w, m)
           IN  /\ IsWorld(v) /\ v.events = w.events /\ v.reader = w.reader
               /\ SameHeld(w.worker, v.worker) /\ SameStage(w.worker, v.worker)
               /\ v.worker.socket = w.worker.socket /\ v.worker.quit = w.worker.quit
               /\ v.worker.timer = w.worker.timer
               /\ v.worker.writes = Append(w.worker.writes, m)
<1> DEFINE k == w.worker
           l == [k EXCEPT !.writes = Append(@, m)]
           v == [w EXCEPT !.worker = l]
<1>1. Send(w, m) = v
  BY DEF Send
<1>2. Append(k.writes, m) \in Seq(MessageSet)
  BY AppendFacts, Zenon DEF IsWorld, IsWorker
<1>3. /\ IsWorker(l) /\ SameHeld(k, l) /\ SameStage(k, l) /\ l.socket = k.socket
      /\ l.quit = k.quit /\ l.timer = k.timer /\ l.writes = Append(k.writes, m)
  BY <1>2, Zenon DEF IsWorld, IsWorker, SameHeld, SameStage
<1> HIDE DEF l
<1>4. IsWorld(v) /\ v.worker = l /\ v.events = w.events /\ v.reader = w.reader
  BY <1>3 DEF IsWorld
<1> QED BY <1>1, <1>3, <1>4

(* StartUpload: what was held is dropped, and the Ack of the new file is due. *)
LEMMA StartIsGood ==
    ASSUME NEW w, NEW s, NEW u, NEW leaving, Good(w, s, u, leaving), NEW file \in File,
           NEW opened \in BOOLEAN, NEW ok \in BOOLEAN
    PROVE  LET v == HandleStartUpload(w, file, opened, ok)
           IN  Good(v, s, u, leaving) /\ v.worker.quit = w.worker.quit
<1> DEFINE k == w.worker
           drained == DrainRing(w)
           l == [k EXCEPT !.uploading = TRUE, !.file = file, !.sent = 0, !.inFlight = 0,
                          !.expecting = "Nothing", !.csv = <<>>, !.csvCrc = None,
                          !.result = <<>>, !.overlap = (k.expecting = "Ack")]
           begun == [drained EXCEPT
                       !.reader = [@ EXCEPT !.busy = TRUE, !.remaining = Chunks[file],
                                            !.abort = FALSE, !.complete = FALSE, !.failed = FALSE],
                       !.worker = [@ EXCEPT !.uploading = TRUE, !.file = file, !.sent = 0,
                                            !.inFlight = 0, !.expecting = "Nothing",
                                            !.csv = <<>>, !.csvCrc = None, !.result = <<>>,
                                            !.overlap = (w.worker.expecting = "Ack")]]
           x == DropResultClaim(begun)
           m == [kind |-> "header", file |-> file]
           y == Send(x, m)
           z == PushSession(y, "Streaming")
<1>1. IsWorld(w) /\ Base(w, s, u) /\ IsWorker(k)
  BY DEF Good, Base, IsWorld
<1>2. IsWorld(drained) /\ drained.worker = k /\ drained.events = w.events
  BY <1>1, DrainResult
<1>3. \/ HandleStartUpload(w, file, opened, ok) \in {w, drained}
      \/ /\ ~k.uploading /\ SocketUsable(w)
         /\ HandleStartUpload(w, file, opened, ok) =
               IF ok THEN PumpUpload(z, ok) ELSE AbortUpload(x)
  BY DEF HandleStartUpload
<1>4. Good(drained, s, u, leaving)
  BY <1>2, GoodOfAlike, Zenon DEF Alike, SameHeld, SameStage, SameLine
<1>5. /\ IsWorker(l) /\ SameLine(k, l)
      /\ l.uploading /\ l.expecting = "Nothing" /\ l.file = file
      /\ l.csv = <<>> /\ l.result = <<>> /\ l.overlap = (k.expecting = "Ack")
  <2> DEFINE o == k.expecting = "Ack"
             n == [k EXCEPT !.uploading = TRUE, !.file = file, !.sent = 0, !.inFlight = 0,
                            !.expecting = "Nothing", !.csv = <<>>, !.csvCrc = None,
                            !.result = <<>>, !.overlap = o]
  <2>1. l = n /\ o \in BOOLEAN
    OBVIOUS
  <2> HIDE DEF o, l
  <2>2. IsWorker(n)
    <3>1. <<>> \in Seq(Unit) /\ 0 \in 0 .. kMaxInFlightWrites /\ file \in File \cup {None}
      BY ClientAssumption
    <3>2. n.overlap \in BOOLEAN /\ n.uploading \in BOOLEAN
      BY <1>1, <2>1 DEF IsWorker
    <3> QED BY <1>1, <3>1, <3>2, Zenon DEF IsWorker
  <2>3. SameLine(k, n)
    BY <1>1 DEF IsWorker, SameLine
  <2>4. n.uploading /\ n.expecting = "Nothing" /\ n.file = file /\ n.csv = <<>>
        /\ n.result = <<>> /\ n.overlap = o
    BY <1>1 DEF IsWorker
  <2> QED BY <2>1, <2>2, <2>3, <2>4 DEF o
<1>6. IsWorld(begun) /\ begun.worker = l /\ begun.events = w.events
  <2> DEFINE r == [drained.reader EXCEPT !.busy = TRUE, !.remaining = Chunks[file],
                            !.abort = FALSE, !.complete = FALSE, !.failed = FALSE]
  <2>1. IsReader(r)
    BY <1>2 DEF IsWorld, IsReader
  <2>2. begun = [drained EXCEPT !.reader = r, !.worker = l]
    BY <1>2 DEF IsWorld
  <2> HIDE DEF begun, drained, l, r
  <2> QED BY <1>2, <1>5, <2>1, <2>2 DEF IsWorld
<1> HIDE DEF drained, begun, l
<1>7. /\ IsWorld(x) /\ x.events.claim = FALSE
      /\ x.events.session = w.events.session /\ x.events.link = w.events.link
      /\ x.worker.claim = None
      /\ SameStage(l, x.worker) /\ SameLine(k, x.worker)
      /\ x.worker.file = file /\ x.worker.overlap = l.overlap
      /\ x.worker.csv = <<>> /\ x.worker.result = <<>>
  BY <1>5, <1>6, DropResult, ZenonT(60) DEF SameLine
<1> HIDE DEF x
<1>8. Waits(x.worker) /\ x.worker.expecting = "Nothing" /\ x.worker.uploading
  BY <1>5, <1>7, Zenon DEF Waits, SameStage
<1>9. Base(x, s, u)
  <2>1. Held(x.worker)
    BY <1>7 DEF Held
  <2>2. Line(x.worker, s)
    BY <1>1, <1>7, Zenon DEF Base, Line, SameLine
  <2>3. Shown(x.worker, x.events, u)
    BY <1>1, <1>7, ClientAssumption, Zenon DEF Base, Shown, SameLine, Seen
  <2> QED BY <1>7, <2>1, <2>2, <2>3, Zenon DEF Base
<1>10. ASSUME ~k.uploading, SocketUsable(w)
       PROVE  Good(z, s, u, leaving) /\ z.worker.quit = k.quit
  <2>1. m \in MessageSet
    BY Zenon DEF MessageSet
  <2> HIDE DEF m
  <2>2. /\ IsWorld(y) /\ y.events = x.events
        /\ SameHeld(x.worker, y.worker) /\ SameStage(x.worker, y.worker)
        /\ y.worker.socket = k.socket /\ y.worker.quit = k.quit
        /\ y.worker.timer = k.timer /\ y.worker.writes = Append(k.writes, m)
    BY <1>7, <2>1, SendResult, ZenonT(60) DEF SameLine
  <2> HIDE DEF y
  <2>3. /\ IsWorld(z) /\ z.worker = y.worker /\ z.events.session = "Streaming"
        /\ z.events.link = y.events.link /\ z.events.claim = y.events.claim
    BY <2>2, PushSessionResult, Zenon DEF SessionState
  <2> HIDE DEF z
  <2>4. Held(z.worker) /\ Waits(z.worker)
    BY <1>8, <1>9, <2>2, <2>3, HeldOfAlike, WaitsOfAlike, Zenon DEF Base
  <2>5. Line(z.worker, s)
    BY <1>1, <1>10, <2>2, <2>3, Zenon DEF Base, Line, SocketUsable
  <2>6. Shown(z.worker, z.events, u)
    BY <1>7, <1>9, <2>2, <2>3, Zenon DEF Base, Shown, SameHeld, SameLine
  <2>7. z.worker.writes # <<>>
    BY <1>1, <2>1, <2>2, <2>3, AppendFacts, SMTT(30) DEF IsWorker
  <2>8. Rest(z.worker)
    BY <2>7 DEF Rest
  <2>9. Answer(z.worker, s)
    <3>1. z.worker.uploading /\ z.worker.expecting = "Nothing" /\ z.worker.claim = None
          /\ z.worker.file = file /\ z.worker.overlap = (k.expecting = "Ack")
          /\ z.worker.socket = k.socket /\ z.worker.writes = Append(k.writes, m)
      BY <1>5, <1>7, <1>8, <2>2, <2>3, ZenonT(60) DEF SameHeld, SameStage
    <3>2. Answer(k, s)
      BY DEF Good
    <3> QED BY <1>1, <1>10, <3>1, <3>2, AnswerOfStart, ZenonT(60) DEF m
  <2>10. Session(z.worker, z.events, u, leaving)
    <3>1. IsBusy(Seen(u.session, z.events.session)) /\ Busy(z.worker)
      BY <1>8, <2>2, <2>3, ClientAssumption, Zenon DEF Seen, SessionState, IsBusy, Busy, SameStage
    <3>2. z.worker.socket # "none"
      BY <1>10, <2>2, <2>3, Zenon DEF SocketUsable
    <3> QED BY <3>1, <3>2, Zenon DEF Session
  <2> QED BY <2>2, <2>3, <2>4, <2>5, <2>6, <2>8, <2>9, <2>10, Zenon DEF Good, Base
<1> HIDE DEF z
<1>11. Good(AbortUpload(x), s, u, leaving) /\ AbortUpload(x).worker.quit = k.quit
  BY <1>7, <1>8, <1>9, AbortIsGood, Zenon DEF SameLine
<1> QED BY <1>2, <1>3, <1>4, <1>10, <1>11, PumpIsGood, Zenon


\* Replacing fields of the worker leaves a world.
LEMMA WorkerResult ==
    ASSUME NEW w, IsWorld(w), NEW l, IsWorker(l)
    PROVE  LET v == [w EXCEPT !.worker = l]
           IN  IsWorld(v) /\ v.worker = l /\ v.events = w.events /\ v.reader = w.reader
BY DEF IsWorld

(* Connect leaves a good world good. *)
LEMMA ConnectIsGood ==
    ASSUME NEW w, NEW s, NEW u, NEW leaving, Good(w, s, u, leaving), ~w.worker.quit,
           NEW ok \in BOOLEAN
    PROVE  LET v == HandleConnect(w, ok)
           IN  Good(v, s, u, leaving) /\ v.worker.quit = w.worker.quit
<1> DEFINE k == w.worker
           l == [k EXCEPT !.socket = "connecting", !.timer = TRUE]
           x == [w EXCEPT !.worker = l]
           y == PushLink(x, "Reconnecting")
           z == PushLink(w, "Disconnected")
<1>1. IsWorld(w) /\ Base(w, s, u) /\ IsWorker(k)
  BY Zenon DEF Good, Base, IsWorld
<1>2. \/ HandleConnect(w, ok) = w
      \/ k.socket = "none" /\ HandleConnect(w, ok) \in {y, z}
  <2>1. [w EXCEPT !.worker.socket = "connecting", !.worker.timer = TRUE] = x
    BY <1>1, Zenon DEF IsWorld
  <2> QED BY <2>1 DEF HandleConnect
<1> SUFFICES ASSUME k.socket = "none"
             PROVE  Good(y, s, u, leaving) /\ Good(z, s, u, leaving)
                    /\ y.worker.quit = k.quit /\ z.worker.quit = k.quit
  BY <1>2
<1>3. Idle(k) /\ k.writes = <<>> /\ s.phase = "none" /\ s.out = <<>>
  BY Zenon DEF Good, Base, Line, Rest
<1>4. Good(z, s, u, leaving) /\ z.worker.quit = k.quit
  <2>1. /\ IsWorld(z) /\ z.worker = k /\ z.events.link = "Disconnected"
        /\ z.events.session = w.events.session /\ z.events.claim = w.events.claim
    BY <1>1, PushLinkResult, Zenon DEF LinkState
  <2> HIDE DEF z
  <2>2. Shown(k, z.events, u)
    BY <1>1, <2>1, ClientAssumption, Zenon DEF Base, Shown, Seen, LinkState
  <2>3. Session(k, z.events, u, leaving)
    BY <2>1, Zenon DEF Good, Session
  <2> QED BY <2>1, <2>2, <2>3, Zenon DEF Good, Base
<1>5. Good(y, s, u, leaving) /\ y.worker.quit = k.quit
  <2>1. /\ IsWorker(l) /\ SameHeld(k, l) /\ SameStage(k, l) /\ l.socket = "connecting"
        /\ l.writes = k.writes /\ l.quit = k.quit
    BY <1>1 DEF IsWorker, SameHeld, SameStage
  <2> HIDE DEF l
  <2>2. IsWorld(x) /\ x.worker = l /\ x.events = w.events
    BY <1>1, <2>1, WorkerResult
  <2> HIDE DEF x
  <2>3. /\ IsWorld(y) /\ y.worker = l /\ y.events.link = "Reconnecting"
        /\ y.events.session = w.events.session /\ y.events.claim = w.events.claim
    BY <2>2, PushLinkResult, SMTT(30) DEF LinkState
  <2> HIDE DEF y
  <2>4. Held(l) /\ Waits(l)
    BY <1>1, <2>1, HeldOfAlike, WaitsOfAlike, Zenon DEF Good, Base
  <2>5. Line(l, s)
    BY <1>3, <2>1, Zenon DEF Line
  <2>6. Shown(l, y.events, u)
    BY <1>1, <2>1, <2>3, ClientAssumption, Zenon DEF Base, Shown, Seen, LinkState, SameHeld
  <2>7. Rest(l) /\ Answer(l, s)
    BY <1>3, <2>1, Zenon DEF Rest, Answer, Unsent, Idle, SameStage
  <2>8. Session(l, y.events, u, leaving)
    BY <1>3, <2>1, <2>3, Zenon DEF Good, Session, Busy, Idle, SameStage
  <2> QED BY <2>1, <2>3, <2>4, <2>5, <2>6, <2>7, <2>8, Zenon DEF Good, Base
<1> QED BY <1>4, <1>5

\* A Disconnect is over once it is handled.
LEMMA DisconnectIsGood ==
    ASSUME NEW w, NEW s, NEW u, NEW leaving, Good(w, s, u, leaving), ~w.worker.quit
    PROVE  LET v == HandleDisconnect(w)
           IN  Good(v, s, u, FALSE) /\ v.worker.quit = w.worker.quit
<1> DEFINE k == w.worker
           l == [k EXCEPT !.timer = FALSE]
           x == [w EXCEPT !.worker = l]
           y == PushLink(x, "Disconnected")
           z == CloseSocket(x)
<1>1. IsWorld(w) /\ Base(w, s, u) /\ IsWorker(k) /\ Waits(k)
  BY Zenon DEF Good, Base, IsWorld
<1>2. /\ IsWorker(l) /\ SameHeld(k, l) /\ SameStage(k, l) /\ l.socket = k.socket
      /\ l.writes = k.writes /\ l.quit = k.quit /\ ~l.timer
  BY <1>1 DEF IsWorker, SameHeld, SameStage
<1>3. [w EXCEPT !.worker.timer = FALSE] = x
  BY <1>1 DEF IsWorld
<1> HIDE DEF l
<1>4. IsWorld(x) /\ x.worker = l /\ x.events = w.events
  BY <1>1, <1>2, WorkerResult
<1> HIDE DEF x
<1>5. \/ k.socket = "none" /\ HandleDisconnect(w) = y
      \/ k.uploading /\ HandleDisconnect(w) = AbortUpload(x)
      \/ HandleDisconnect(w) = FailSession(x)
      \/ k.socket # "none" /\ Idle(k) /\ HandleDisconnect(w) = z
  BY <1>3, Zenon DEF HandleDisconnect, Idle
<1>6. Held(l) /\ Waits(l)
  BY <1>1, <1>2, HeldOfAlike, WaitsOfAlike DEF Base
<1>7. Line(l, s) /\ Shown(l, w.events, u)
  BY <1>1, <1>2, Zenon DEF Base, Line, Shown, SameHeld
<1>8. Base(x, s, u)
  BY <1>4, <1>6, <1>7, Zenon DEF Base
<1>9. CASE k.socket = "none" /\ HandleDisconnect(w) = y
  <2>1. /\ IsWorld(y) /\ y.worker = l /\ y.events.link = "Disconnected"
        /\ y.events.session = w.events.session /\ y.events.claim = w.events.claim
    BY <1>4, PushLinkResult DEF LinkState
  <2> HIDE DEF y
  <2>2. Idle(k)
    BY <1>1, <1>9, Zenon DEF Good, Base, Line, Rest
  <2>3. Shown(l, y.events, u)
    BY <1>2, <1>7, <1>9, <2>1, ClientAssumption, Zenon DEF Shown, Seen, LinkState
  <2>4. Rest(l) /\ Answer(l, s)
    BY <1>2, <1>9, <2>2, Zenon DEF Rest, Answer, Idle, SameStage
  <2>5. Session(l, y.events, u, FALSE)
    BY <1>2, <2>1, <2>2, Zenon DEF Good, Session, Busy, Idle, SameStage
  <2> QED BY <1>2, <1>6, <1>7, <1>9, <2>1, <2>3, <2>4, <2>5, Zenon DEF Good, Base
<1>10. CASE k.uploading /\ HandleDisconnect(w) = AbortUpload(x)
  <2>1. x.worker.expecting = "Nothing"
    BY <1>1, <1>2, <1>4, <1>10, Zenon DEF Waits, SameStage
  <2> QED BY <1>2, <1>4, <1>6, <1>8, <1>10, <2>1, AbortIsGood, Zenon
<1>11. CASE HandleDisconnect(w) = FailSession(x)
  BY <1>2, <1>4, <1>8, <1>11, FailIsGood, Zenon
<1>12. CASE k.socket # "none" /\ Idle(k) /\ HandleDisconnect(w) = z
  <2>1. /\ IsWorld(z) /\ z.events = w.events
        /\ SameHeld(l, z.worker) /\ SameStage(l, z.worker)
        /\ z.worker.writes = l.writes /\ z.worker.quit = l.quit
        /\ z.worker.timer = l.timer /\ z.worker.socket = Closed(l.socket)
    BY <1>4, CloseResult, Zenon
  <2> HIDE DEF z
  <2>2. z.worker.socket = "closing" /\ Idle(z.worker)
    BY <1>1, <1>2, <1>12, <2>1, Zenon DEF Closed, IsWorker, Idle, SameStage
  <2>3. Held(z.worker) /\ Waits(z.worker)
    BY <1>6, <2>1, HeldOfAlike, WaitsOfAlike, Zenon
  <2>4. Line(z.worker, s) /\ Shown(z.worker, z.events, u)
    BY <1>7, <2>1, <2>2, Zenon DEF Line, Shown, SameHeld
  <2>5. Rest(z.worker) /\ Answer(z.worker, s)
    BY <2>2, Zenon DEF Rest, Answer
  <2>6. Session(z.worker, z.events, u, FALSE)
    BY <1>2, <1>12, <2>1, <2>2, Zenon DEF Good, Session, Busy, Idle
  <2> QED BY <1>2, <1>12, <2>1, <2>3, <2>4, <2>5, <2>6, Zenon DEF Good, Base
<1> QED BY <1>5, <1>9, <1>10, <1>11, <1>12, Zenon

(* CancelUpload leaves a good world good. *)
LEMMA CancelIsGood ==
    ASSUME NEW w, NEW s, NEW u, NEW leaving, Good(w, s, u, leaving)
    PROVE  LET v == HandleCancel(w)
           IN  Good(v, s, u, leaving) /\ v.worker.quit = w.worker.quit
<1>1. CASE w.worker.uploading
  <2>1. Base(w, s, u) /\ Waits(w.worker) /\ w.worker.expecting = "Nothing"
    BY <1>1, Zenon DEF Good, Waits
  <2> QED BY <1>1, <2>1, AbortIsGood, Zenon DEF HandleCancel
<1>2. CASE ~w.worker.uploading
  BY <1>2 DEF HandleCancel
<1> QED BY <1>1, <1>2


(* RequestResult: the request names the claim and the bytes received. *)
LEMMA RequestIsGood ==
    ASSUME NEW w, NEW s, NEW u, NEW leaving, Good(w, s, u, leaving), NEW ok \in BOOLEAN
    PROVE  LET v == HandleRequestResult(w, ok)
           IN  Good(v, s, u, leaving) /\ v.worker.quit = w.worker.quit
<1> DEFINE k == w.worker
           m == [kind |-> "request", file |-> k.claim, offset |-> k.received]
           x == Send(w, m)
           l == [x.worker EXCEPT !.expecting = "ResumeReply", !.part = 0]
           y == [x EXCEPT !.worker = l]
           z == PushSession(y, "RequestingResult")
<1>1. IsWorld(w) /\ Base(w, s, u) /\ IsWorker(k) /\ Waits(k) /\ Held(k)
  BY Zenon DEF Good, Base, IsWorld
<1>2. \/ HandleRequestResult(w, ok) \in {w, FailSession(w)}
      \/ /\ k.claim # None /\ k.socket \in {"connecting", "open"}
         /\ HandleRequestResult(w, ok) = PushSession(ResetFramer(x, "ResumeReply"), "RequestingResult")
  BY DEF HandleRequestResult, HasClaim, SocketUsable
<1>3. CASE HandleRequestResult(w, ok) \in {w, FailSession(w)}
  BY <1>1, <1>3, FailIsGood, Zenon
<1>4. ASSUME k.claim # None, k.socket \in {"connecting", "open"},
             HandleRequestResult(w, ok) = PushSession(ResetFramer(x, "ResumeReply"), "RequestingResult")
      PROVE  Good(HandleRequestResult(w, ok), s, u, leaving)
             /\ HandleRequestResult(w, ok).worker.quit = k.quit
  <2>1. m \in MessageSet /\ m.kind = "request" /\ m.file = k.claim /\ m.offset = Len(k.csv)
    BY <1>1, <1>4, Zenon DEF MessageSet, IsWorker, Waits
  <2>2. k.writes \in Seq(MessageSet)
    BY <1>1, Zenon DEF IsWorker
  <2>3. Append(k.writes, m) # <<>> /\ (k.writes = <<>> => Head(Append(k.writes, m)) = m)
        /\ (k.writes # <<>> => Head(Append(k.writes, m)) = Head(k.writes))
    BY <2>1, <2>2, AppendFacts, ZenonT(60)
  <2> HIDE DEF m
  <2>4. /\ IsWorld(x) /\ x.events = w.events
        /\ SameHeld(k, x.worker) /\ SameStage(k, x.worker)
        /\ x.worker.socket = k.socket /\ x.worker.quit = k.quit /\ x.worker.timer = k.timer
        /\ x.worker.writes = Append(k.writes, m)
    BY <1>1, <2>1, SendResult, Zenon
  <2> HIDE DEF x
  <2>5. ResetFramer(x, "ResumeReply") = y
    BY <2>4, Zenon DEF ResetFramer, IsWorld
  <2>6. /\ IsWorker(l) /\ SameHeld(k, l) /\ l.expecting = "ResumeReply"
        /\ l.uploading = k.uploading /\ l.socket = k.socket /\ l.quit = k.quit
        /\ l.timer = k.timer /\ l.writes = Append(k.writes, m)
    <3>1. IsWorker(x.worker)
      BY <2>4, Zenon DEF IsWorld
    <3> QED BY <2>4, <3>1, Zenon DEF IsWorker, SameHeld, SameStage
  <2> HIDE DEF l
  <2>7. IsWorld(y) /\ y.worker = l /\ y.events = w.events
    BY <2>4, <2>6, WorkerResult
  <2> HIDE DEF y
  <2>8. /\ IsWorld(z) /\ z.worker = l /\ z.events.session = "RequestingResult"
        /\ z.events.link = w.events.link /\ z.events.claim = w.events.claim
    BY <2>7, PushSessionResult DEF SessionState
  <2> HIDE DEF z
  <2>9. ~Sending(k) /\ ~k.uploading
    BY <1>1, <1>4, Zenon DEF Waits, Sending
  <2>10. Held(l)
    BY <1>1, <2>6, HeldOfAlike, Zenon
  <2>11. Waits(l)
    BY <1>1, <1>4, <2>6, <2>9, Zenon DEF Waits, Sending, Own, SameHeld
  <2>12. Line(l, s) /\ Shown(l, z.events, u)
    BY <1>1, <1>4, <2>6, <2>8, Zenon DEF Base, Line, Shown, SameHeld
  <2>13. Rest(l)
    BY <2>3, <2>6, Zenon DEF Rest
  <2>14. l.claim = k.claim /\ l.csv = k.csv /\ (\A f : Own(l, f) <=> Own(k, f))
    BY <2>6, Zenon DEF SameHeld, Own
  <2>15. Answer(l, s)
    <3>1. ASSUME s.phase \in {"none", "header"}
          PROVE  Unsent(l)
      <4>1. Unsent(k)
        BY <1>4, <3>1, Zenon DEF Good, Answer
      <4> QED BY <1>4, <2>1, <2>3, <2>6, <2>9, <2>14, <4>1, Zenon DEF Unsent, Idle
    <3>2. s.phase \notin {"upload", "verify"}
      BY <1>4, <2>9, Zenon DEF Good, Answer
    <3>3. ASSUME s.phase = "analyzing"
          PROVE  Acked(l, s)
      <4>1. Acked(k, s)
        BY <1>4, <3>3, Zenon DEF Good, Answer
      <4> QED BY <2>6, <2>9, <2>14, <4>1, ZenonT(30) DEF Acked
    <3>4. ASSUME s.phase \in {"sent", "eof"}
          PROVE  Replied(l, s.out)
      <4>1. Replied(k, s.out)
        BY <1>4, <3>4, Zenon DEF Good, Answer
      <4>2. ASSUME NEW c, NEW b, NEW n, Awaits(k, c, b, n)
            PROVE  Awaits(l, c, b, n)
        BY <2>6, <2>9, <2>14, <4>2, Zenon DEF Awaits
      <4> QED BY <2>6, <4>1, <4>2, Zenon DEF Replied
    <3> QED BY <3>1, <3>2, <3>3, <3>4, Zenon DEF Answer
  <2>16. Session(l, z.events, u, leaving)
    <3>1. Seen(u.session, z.events.session) = "RequestingResult"
      BY <2>8, ClientAssumption, Zenon DEF Seen, SessionState
    <3> QED BY <1>4, <2>6, <2>9, <3>1, Zenon DEF Session, Busy, IsBusy
  <2> QED BY <1>4, <2>5, <2>6, <2>8, <2>10, <2>11, <2>12, <2>13, <2>15, <2>16, Zenon DEF Good, Base, z
<1> QED BY <1>2, <1>3, <1>4, Zenon

(* Quit closes the socket; nothing more is promised of the session. *)
LEMMA QuitIsGood ==
    ASSUME NEW w, NEW s, NEW u, NEW leaving, Good(w, s, u, leaving), ~w.worker.quit
    PROVE  Good(HandleQuit(w), s, u, FALSE)
<1> DEFINE k == w.worker
           r == [w.reader EXCEPT !.abort = TRUE]
           l == [k EXCEPT !.uploading = FALSE, !.timer = FALSE, !.quit = TRUE]
           x == [w EXCEPT !.reader = r, !.worker = l]
           v == CloseSocket(x)
<1>1. IsWorld(w) /\ Base(w, s, u) /\ IsWorker(k) /\ Waits(k) /\ Held(k)
  BY Zenon DEF Good, Base, IsWorld
<1>2. HandleQuit(w) = v
  BY <1>1, Zenon DEF HandleQuit, IsWorld
<1>3. IsReader(r)
  BY <1>1 DEF IsWorld, IsReader
<1>4. /\ IsWorker(l) /\ SameHeld(k, l) /\ l.expecting = k.expecting /\ ~l.uploading
      /\ l.socket = k.socket /\ l.quit /\ ~l.timer /\ l.writes = k.writes
  BY <1>1 DEF IsWorker, SameHeld
<1> HIDE DEF r, l
<1>5. IsWorld(x) /\ x.worker = l /\ x.events = w.events
  BY <1>1, <1>3, <1>4 DEF IsWorld
<1> HIDE DEF x
<1>6. /\ IsWorld(v) /\ v.events = w.events
      /\ SameHeld(l, v.worker) /\ SameStage(l, v.worker)
      /\ v.worker.writes = k.writes /\ v.worker.quit
      /\ ~v.worker.timer /\ v.worker.socket = Closed(k.socket)
  BY <1>4, <1>5, CloseResult, Zenon
<1> HIDE DEF v
<1>7. v.worker.socket \in {"none", "closing"} /\ (v.worker.socket = "none" <=> k.socket = "none")
  BY <1>1, <1>6, Zenon DEF Closed, IsWorker
<1>8. Held(l) /\ Held(v.worker)
  BY <1>1, <1>4, <1>6, HeldOfAlike, Zenon
<1>9. Waits(v.worker)
  <2>1. Waits(l)
    BY <1>1, <1>4, Zenon DEF Waits, Sending, Own, SameHeld
  <2> QED BY <1>6, <2>1, WaitsOfAlike, Zenon
<1>10. Line(v.worker, s) /\ Shown(v.worker, v.events, u)
  BY <1>1, <1>4, <1>6, <1>7, Zenon DEF Base, Line, Shown, SameHeld
<1>11. Rest(v.worker) /\ Answer(v.worker, s)
  BY <1>6, <1>7, Zenon DEF Rest, Answer
<1>12. Session(v.worker, v.events, u, FALSE)
  <2> SUFFICES ASSUME v.worker.socket = "none"
               PROVE  ~IsBusy(Seen(u.session, v.events.session)) /\ ~Busy(v.worker)
    BY <1>6, Zenon DEF Session
  <2>1. Idle(k)
    BY <1>1, <1>7, Zenon DEF Good, Base, Line, Rest
  <2>2. ~Busy(k)
    BY <2>1 DEF Busy, Idle
  <2>3. ~Busy(v.worker)
    BY <1>4, <1>6, <2>1, Zenon DEF Busy, Idle, SameStage
  <2> QED BY <1>6, <2>2, <2>3, Zenon DEF Good, Session
<1> QED BY <1>2, <1>6, <1>8, <1>9, <1>10, <1>11, <1>12, Zenon DEF Good, Base

\* Every command the worker takes from its queue.
LEMMA HandleIsGood ==
    ASSUME NEW w, NEW s, NEW u, NEW leaving, Good(w, s, u, leaving), ~w.worker.quit,
           NEW c \in Command, NEW opened \in BOOLEAN, NEW ok \in BOOLEAN
    PROVE  LET v == Handle(w, c, opened, ok)
           IN  /\ c.kind \notin {"Disconnect", "Quit"} => Good(v, s, u, leaving)
               /\ c.kind \in {"Disconnect", "Quit"} => Good(v, s, u, FALSE)
               /\ c.kind # "Quit" => ~v.worker.quit
<1>1. CASE c.kind = "Connect"
  BY <1>1, ConnectIsGood DEF Handle
<1>2. CASE c.kind = "Disconnect"
  BY <1>2, DisconnectIsGood, Zenon DEF Handle
<1>3. CASE c.kind = "StartUpload"
  <2>1. c.file \in File
    BY <1>3, Zenon DEF Command
  <2> QED BY <1>3, <2>1, StartIsGood DEF Handle
<1>4. CASE c.kind = "CancelUpload"
  BY <1>4, CancelIsGood DEF Handle
<1>5. CASE c.kind = "RequestResult"
  BY <1>5, RequestIsGood DEF Handle
<1>6. CASE c.kind = "Quit"
  BY <1>6, QuitIsGood, Zenon DEF Handle
<1> QED BY <1>1, <1>2, <1>3, <1>4, <1>5, <1>6, Zenon DEF Command

-----------------------------------------------------------------------------
(* Receiving. *)

\* finishDownload(): the answer is over whatever was compared.
LEMMA FinishDownloadIsGood ==
    ASSUME NEW w, NEW s, NEW u, NEW leaving, Base(w, s, u), Waits(w.worker),
           w.worker.expecting = "CsvPayload", w.worker.socket = "open",
           \A l : l.claim = None /\ l.expecting = "Nothing" => Answer(l, s),
           NEW ok \in BOOLEAN
    PROVE  LET v == FinishDownload(w, ok)
           IN  Good(v, s, u, leaving) /\ v.worker.quit = w.worker.quit
<1> DEFINE k == w.worker
           l == [k EXCEPT !.csv = <<>>, !.received = 0]
           x == [w EXCEPT !.worker = l]
           t == [k EXCEPT !.result = k.csv, !.csv = <<>>, !.expecting = "Nothing"]
           taken == [w EXCEPT !.worker = t]
           y == DropResultClaim(taken)
           m == [kind |-> "done"]
           z == Send(y, m)
           v == PushSession(z, "Done")
<1>1. IsWorld(w) /\ IsWorker(k) /\ Held(k) /\ Line(k, s) /\ Shown(k, w.events, u)
  BY Zenon DEF Base, IsWorld
<1>2. [w EXCEPT !.worker.csv = <<>>, !.worker.received = 0] = x
      /\ [w EXCEPT !.worker.result = w.worker.csv, !.worker.csv = <<>>,
                   !.worker.expecting = "Nothing"] = taken
  BY <1>1, Zenon DEF IsWorld
<1>3. \/ FinishDownload(w, ok) = FailSession(x)
      \/ k.csv = Whole(k.csvCrc) /\ FinishDownload(w, ok) \in {v, FailSession(y)}
  BY <1>2 DEF FinishDownload
<1>4. CASE FinishDownload(w, ok) = FailSession(x)
  <2>1. /\ IsWorker(l) /\ l.csv = <<>> /\ l.claim = k.claim /\ l.result = k.result
        /\ l.file = k.file /\ l.overlap = k.overlap /\ SameLine(k, l)
    <3>1. <<>> \in Seq(Unit)
      OBVIOUS
    <3> QED BY <1>1, <3>1 DEF IsWorker, SameLine
  <2> HIDE DEF l
  <2>2. IsWorld(x) /\ x.worker = l /\ x.events = w.events
    BY <1>1, <2>1, WorkerResult
  <2> HIDE DEF x
  <2>3. Held(l)
    BY <1>1, <2>1, SMTT(30) DEF Held, Own
  <2>4. Line(l, s) /\ Shown(l, w.events, u)
    BY <1>1, <2>1, Zenon DEF Line, Shown, SameLine
  <2>5. Base(x, s, u)
    BY <2>2, <2>3, <2>4, Zenon DEF Base
  <2>6. x.worker.quit = k.quit
    BY <2>1, <2>2, Zenon DEF SameLine
  <2> QED BY <1>4, <2>5, <2>6, FailIsGood, Zenon
<1>5. ASSUME k.csv = Whole(k.csvCrc), FinishDownload(w, ok) \in {v, FailSession(y)}
      PROVE  Good(FinishDownload(w, ok), s, u, leaving) /\ FinishDownload(w, ok).worker.quit = k.quit
  <2>1. /\ IsWorker(t) /\ t.csv = <<>> /\ t.result = k.csv /\ t.expecting = "Nothing"
        /\ t.uploading = k.uploading
        /\ t.file = k.file /\ t.overlap = k.overlap /\ SameLine(k, t)
    <3>1. <<>> \in Seq(Unit)
      OBVIOUS
    <3> QED BY <1>1, <3>1 DEF IsWorker, SameLine
  <2> HIDE DEF t
  <2>2. IsWorld(taken) /\ taken.worker = t /\ taken.events = w.events
    BY <1>1, <2>1, WorkerResult
  <2> HIDE DEF taken
  <2>3. /\ IsWorld(y) /\ y.events.claim = FALSE
        /\ y.events.session = w.events.session /\ y.events.link = w.events.link
        /\ y.worker.claim = None
        /\ SameStage(t, y.worker) /\ SameLine(t, y.worker)
        /\ y.worker.file = t.file /\ y.worker.overlap = t.overlap
        /\ y.worker.csv = t.csv /\ y.worker.result = t.result
    BY <2>2, DropResult, ZenonT(60)
  <2> HIDE DEF y
  <2>4. Held(y.worker)
    BY <1>5, <2>1, <2>3, SMTT(60) DEF Waits, Held, Own
  <2>5. Line(y.worker, s)
    BY <1>1, <2>1, <2>3, Zenon DEF Line, SameLine
  <2>6. Shown(y.worker, y.events, u)
    BY <1>1, <2>1, <2>3, ClientAssumption, Zenon DEF Shown, Seen, SameLine
  <2>7. Base(y, s, u) /\ y.worker.quit = k.quit
    BY <2>1, <2>3, <2>4, <2>5, <2>6, Zenon DEF Base, SameLine
  <2>8. ~k.uploading
    BY Zenon DEF Waits
  <2>9. Idle(y.worker)
    BY <2>1, <2>3, <2>8, Zenon DEF Idle, SameStage
  <2>10. m \in MessageSet
    BY Zenon DEF MessageSet
  <2> HIDE DEF m
  <2>11. /\ IsWorld(z) /\ z.events = y.events
         /\ SameHeld(y.worker, z.worker) /\ SameStage(y.worker, z.worker)
         /\ z.worker.socket = y.worker.socket /\ z.worker.quit = y.worker.quit
         /\ z.worker.timer = y.worker.timer
    BY <2>3, <2>10, SendResult, Zenon
  <2> HIDE DEF z
  <2>12. /\ IsWorld(v) /\ v.worker = z.worker /\ v.events.session = "Done"
         /\ v.events.link = y.events.link /\ v.events.claim = y.events.claim
    <3>1. "Done" \in SessionState
      BY DEF SessionState
    <3> QED BY <2>11, <3>1, PushSessionResult, SMTT(60)
  <2> HIDE DEF v
  <2> DEFINE j == z.worker
  <2>13. j.socket = "open" /\ j.quit = k.quit /\ Idle(j)
    BY <2>1, <2>3, <2>9, <2>11, Zenon DEF SameLine, Idle, SameStage
  <2>14. Held(j)
    BY <2>4, <2>11, HeldOfAlike, Zenon
  <2>15. j.claim = None /\ j.csv = <<>>
    BY <2>1, <2>3, <2>11, Zenon DEF SameHeld
  <2>16. Waits(j)
    BY <2>13, <2>15, Zenon DEF Waits, Sending, Idle
  <2>17. Line(j, s) /\ Shown(j, v.events, u)
    BY <2>5, <2>6, <2>11, <2>12, <2>13, Zenon DEF Line, Shown, SameHeld
  <2>18. Rest(j) /\ Answer(j, s)
    BY <2>13, <2>15, Zenon DEF Rest, Idle
  <2>19. Session(j, v.events, u, leaving)
    <3>1. Seen(u.session, v.events.session) = "Done"
      BY <2>12, ClientAssumption, Zenon DEF Seen, SessionState
    <3> QED BY <2>13, <3>1, Zenon DEF Session, Busy, Idle, IsBusy
  <2>20. Good(v, s, u, leaving) /\ v.worker.quit = k.quit
    BY <2>12, <2>13, <2>14, <2>16, <2>17, <2>18, <2>19, Zenon DEF Good, Base
  <2> QED BY <1>5, <2>7, <2>20, FailIsGood, Zenon
<1> QED BY <1>3, <1>4, <1>5


\* A worker that waits for unit n is right to.
Follows(s, c, b, n) ==
    \A l : (l.claim # None => l.csv \in Seq(Unit)) /\ Awaits(l, c, b, n) => Answer(l, s)

Rejects(unit) == unit.kind = "Bad" \/ (unit.kind = "Ack" /\ unit.status # "Ok")

\* What is left of a sequence.
LEMMA TailFacts ==
    ASSUME NEW S, NEW q \in Seq(S), q # <<>>
    PROVE  /\ Tail(q) \in Seq(S) /\ Len(Tail(q)) = Len(q) - 1 /\ Len(q) \in Nat /\ Len(q) > 0
           /\ Head(q) = q[1] /\ Head(q) \in S
           /\ \A i \in 1 .. Len(Tail(q)) : Tail(q)[i] = q[i + 1] /\ i + 1 \in 1 .. Len(q)
<1>1. Len(q) \in Nat /\ Len(q) > 0
  OBVIOUS
<1>2. Tail(q) \in Seq(S) /\ Len(Tail(q)) = Len(q) - 1
  BY <1>1
<1>3. \A i \in 1 .. Len(Tail(q)) : Tail(q)[i] = q[i + 1] /\ i + 1 \in 1 .. Len(q)
  BY <1>1, <1>2
<1> QED BY <1>1, <1>2, <1>3

\* The next unit is a refusal, or the one of the answer that the worker waits for.
LEMMA NextUnit ==
    ASSUME NEW k, NEW s, IsServer(s), Answer(k, s), Line(k, s), k.socket = "open", s.out # <<>>
    PROVE  LET r == [s EXCEPT !.out = Tail(@)]
           IN  \/ /\ Rejects(Head(s.out)) /\ k.expecting # "CsvPayload"
                  /\ \A l : l.expecting # "CsvPayload" => Answer(l, r)
               \/ \E c \in Csv, b \in Nat, n \in Int :
                     n >= -3 /\ Head(s.out) = At(c, b, n) /\ Awaits(k, c, b, n)
                     /\ Follows(r, c, b, n + 1)
<1> DEFINE out == s.out
           r == [s EXCEPT !.out = Tail(@)]
<1>1. s.phase \in {"analyzing", "sent", "eof"}
  BY Zenon DEF Line, IsServer
<1>2. /\ Len(out) \in Nat /\ Len(out) > 0 /\ Len(Tail(out)) = Len(out) - 1
      /\ Head(out) = out[1] /\ 1 \in 1 .. Len(out)
      /\ \A i \in 1 .. Len(Tail(out)) : Tail(out)[i] = out[i + 1] /\ i + 1 \in 1 .. Len(out)
  <2>1. out \in Seq(Unit)
    BY Zenon DEF IsServer
  <2>2. /\ Len(out) \in Nat /\ Len(out) > 0 /\ Len(Tail(out)) = Len(out) - 1
        /\ Head(out) = out[1]
        /\ \A i \in 1 .. Len(Tail(out)) : Tail(out)[i] = out[i + 1] /\ i + 1 \in 1 .. Len(out)
    BY <2>1, TailFacts, Zenon
  <2> QED BY <2>2
<1>3. r.phase = s.phase /\ r.file = s.file /\ r.out = Tail(out)
  BY DEF IsServer
<1> HIDE DEF r
<1>4. ASSUME s.phase = "analyzing"
      PROVE  \E c \in Csv, b \in Nat, n \in Int :
                n >= -3 /\ Head(out) = At(c, b, n) /\ Awaits(k, c, b, n) /\ Follows(r, c, b, n + 1)
  <2>1. Acked(k, s)
    BY <1>4, Zenon DEF Answer
  <2>2. PICK h \in {2, 3, 4} :
          /\ Len(out) = h - 2
          /\ \A i \in 1 .. Len(out) : out[i] = At(None, 0, i - h)
          /\ h > 2 => Sending(k) /\ Own(k, s.file)
    BY <2>1, Zenon DEF Acked
  <2>3. h \in {3, 4} /\ s.file \in File
    BY <1>2, <2>1, <2>2, SMTT(30) DEF Acked
  <2> DEFINE c == [file |-> s.file, version |-> 1]
             n == 1 - h
  <2>4. c \in Csv /\ c.file = s.file
    <3>1. 1 \in Version
      BY ClientAssumption DEF Version
    <3> QED BY <2>3, <3>1, Zenon DEF Csv
  <2>5. \A i \in Int : i < -1 => At(c, 0, i) = At(None, 0, i)
    BY SMTT(30) DEF At
  <2> HIDE DEF c
  <2>6. n \in Int /\ n >= -3 /\ n < -1
    BY <2>3
  <2>7. Head(out) = At(c, 0, n)
    BY <1>2, <2>2, <2>5, <2>6, Zenon
  <2>8. Awaits(k, c, 0, n)
    BY <2>2, <2>3, <2>4, <2>6, SMTT(30) DEF Awaits
  <2>9. Follows(r, c, 0, n + 1)
    <3> SUFFICES ASSUME NEW l, l.claim # None => l.csv \in Seq(Unit), Awaits(l, c, 0, n + 1)
                 PROVE  Answer(l, r)
      BY Zenon DEF Follows
    <3>1. Len(r.out) = (h - 1) - 2
      BY <1>2, <1>3, <2>2, <2>3, SMTT(30)
    <3>2. \A i \in 1 .. Len(r.out) : r.out[i] = At(None, 0, i - (h - 1))
      <4> SUFFICES ASSUME NEW i \in 1 .. Len(r.out)
                   PROVE  r.out[i] = At(None, 0, i - (h - 1))
        BY Zenon
      <4>1. r.out[i] = out[i + 1] /\ i + 1 \in 1 .. Len(out)
        BY <1>2, <1>3, Zenon
      <4>2. (i + 1) - h = i - (h - 1)
        BY <1>2, <1>3, <2>3
      <4> QED BY <2>2, <4>1, <4>2, Zenon
    <3>3. h - 1 > 2 => Sending(l) /\ Own(l, r.file)
      BY <1>3, <2>3, <2>4 DEF Awaits
    <3>4. h - 1 = 2 /\ l.claim # None =>
             l.expecting # "CsvPayload" /\ l.csv = <<>> /\ Own(l, r.file)
      <4>1. h - 1 = 2 /\ l.claim # None =>
              l.expecting # "CsvPayload" /\ 0 = Len(l.csv) /\ Own(l, r.file)
        BY <1>3, <2>3, <2>4 DEF Awaits
      <4>2. l.csv \in Seq(Unit) /\ 0 = Len(l.csv) => l.csv = <<>>
        OBVIOUS
      <4> QED BY <4>1, <4>2, Zenon
    <3>5. h - 1 \in {2, 3, 4}
      BY <2>3
    <3> HIDE DEF n
    <3>6. Acked(l, r)
      BY <1>3, <2>3, <3>1, <3>2, <3>3, <3>4, <3>5, Zenon DEF Acked
    <3> QED BY <1>3, <1>4, <3>6, Zenon DEF Answer
  <2> HIDE DEF n
  <2>10. 0 \in Nat
    BY Zenon
  <2> QED BY <2>4, <2>6, <2>7, <2>8, <2>9, <2>10, Zenon
<1>5. ASSUME s.phase \in {"sent", "eof"}, Refused(out), k.expecting # "CsvPayload"
      PROVE  Rejects(Head(out)) /\ \A l : l.expecting # "CsvPayload" => Answer(l, r)
  <2>1. Rejects(Head(out))
    BY <1>2, <1>5, Zenon DEF Refused, Rejects
  <2>2. Refused(r.out)
    BY <1>2, <1>3, <1>5 DEF Refused
  <2> QED BY <1>3, <1>5, <2>1, <2>2, Zenon DEF Answer, Replied
<1>6. ASSUME s.phase \in {"sent", "eof"}, NEW c \in Csv, NEW b \in Nat, NEW h \in Int,
             h <= 4, Stretch(out, c, b, h), Awaits(k, c, b, 1 - h)
      PROVE  \E n \in Int :
                n >= -3 /\ Head(out) = At(c, b, n) /\ Awaits(k, c, b, n) /\ Follows(r, c, b, n + 1)
  <2>1. 1 - h \in Int /\ 1 - h >= -3
    BY <1>6
  <2>2. Head(out) = At(c, b, 1 - h)
    BY <1>2, <1>6, Zenon DEF Stretch
  <2>3. h - 1 \in Int /\ h - 1 <= 4 /\ 1 - (h - 1) = (1 - h) + 1
    BY <1>6
  <2>4. Stretch(r.out, c, b, h - 1)
    <3> SUFFICES ASSUME NEW i \in 1 .. Len(r.out)
                 PROVE  r.out[i] = At(c, b, i - (h - 1))
      BY Zenon DEF Stretch
    <3>1. r.out[i] = out[i + 1] /\ i + 1 \in 1 .. Len(out)
      BY <1>2, <1>3, Zenon
    <3>2. (i + 1) - h = i - (h - 1)
      BY <1>2, <1>3, <1>6
    <3> QED BY <1>6, <3>1, <3>2, Zenon DEF Stretch
  <2>5. Follows(r, c, b, (1 - h) + 1)
    <3> SUFFICES ASSUME NEW l, Awaits(l, c, b, (1 - h) + 1)
                 PROVE  Answer(l, r)
      BY Zenon DEF Follows
    <3>1. Replied(l, r.out)
      BY <2>3, <2>4, Zenon DEF Replied
    <3> QED BY <1>3, <1>6, <3>1, Zenon DEF Answer
  <2> QED BY <1>6, <2>1, <2>2, <2>5, Zenon
<1>7. s.phase \in {"sent", "eof"} => Replied(k, out)
  BY Zenon DEF Answer
<1> QED BY <1>1, <1>4, <1>5, <1>6, <1>7, Zenon DEF Replied, r


\* The part of an answer that carries the result: whatever the worker makes of it, it
\* does not wait for more than comes.
LEMMA LoadingIsGood ==
    ASSUME NEW v, NEW s, NEW u, NEW leaving, Base(v, s, u), Waits(v.worker),
           v.worker.expecting = "CsvPayload", v.worker.socket = "open",
           Session(v.worker, v.events, u, leaving),
           NEW c \in Csv, NEW b \in Nat, NEW n \in Nat, n > 0, Follows(s, c, b, n),
           b + n = Len(v.worker.csv) + 1, NEW ok \in BOOLEAN
    PROVE  /\ Good(v, s, u, leaving)
           /\ LET x == FinishDownload(v, ok)
              IN  Good(x, s, u, leaving) /\ x.worker.quit = v.worker.quit
<1>1. Answer(v.worker, s)
  <2>1. Awaits(v.worker, c, b, n)
    BY SMTT(30) DEF Awaits
  <2>2. v.worker.csv \in Seq(Unit)
    BY Zenon DEF Base, IsWorld, IsWorker
  <2> QED BY <2>1, <2>2, Zenon DEF Follows
<1>2. Rest(v.worker)
  BY Zenon DEF Rest
<1>3. ASSUME NEW l, l.claim = None, l.expecting = "Nothing"
      PROVE  Answer(l, s)
  <2>1. Awaits(l, c, b, n)
    BY <1>3, SMTT(30) DEF Awaits
  <2> QED BY <1>3, <2>1, Zenon DEF Follows
<1>4. Good(v, s, u, leaving)
  BY <1>1, <1>2, Zenon DEF Good
<1> QED BY <1>3, <1>4, FinishDownloadIsGood, Zenon

(* The header of a result: what follows it is for the file that is claimed. *)
LEMMA BeginIsGood ==
    ASSUME NEW w, NEW s, NEW u, NEW leaving, Base(w, s, u), Waits(w.worker),
           w.worker.claim # None, w.worker.socket = "open",
           NEW c \in Csv, Own(w.worker, c.file),
           NEW b \in Nat, b = Len(w.worker.csv), Follows(s, c, b, 1),
           NEW ok \in BOOLEAN
    PROVE  LET v == BeginCsvReceive(w, c, TRUE, ok)
               x == BeginCsvReceive(w, c, FALSE, ok)
           IN  /\ Good(v, s, u, leaving) /\ v.worker.quit = w.worker.quit
               /\ w.worker.csv = <<>> =>
                     Good(x, s, u, leaving) /\ x.worker.quit = w.worker.quit
<1> DEFINE k == w.worker
           l == [k EXCEPT !.csvCrc = c, !.csv = k.csv, !.expecting = "CsvPayload"]
           x == [w EXCEPT !.worker = l]
           y == PushSession(x, "ReceivingResult")
<1>1. IsWorld(w) /\ IsWorker(k) /\ Held(k) /\ Line(k, s) /\ Shown(k, w.events, u)
  BY Zenon DEF Base, IsWorld
<1>3. [w EXCEPT !.worker.csvCrc = c, !.worker.csv = k.csv, !.worker.expecting = "CsvPayload"] = x
  BY <1>1, Zenon DEF IsWorld
<1>4. /\ BeginCsvReceive(w, c, TRUE, ok) \in {FailSession(w), FinishDownload(y, ok), y}
      /\ k.csv = <<>> =>
            BeginCsvReceive(w, c, FALSE, ok) \in {FailSession(w), FinishDownload(y, ok), y}
  BY <1>3, Zenon DEF BeginCsvReceive
<1>5. /\ IsWorker(l) /\ l.csvCrc = c /\ l.expecting = "CsvPayload" /\ SameLine(k, l)
      /\ l.file = k.file /\ l.overlap = k.overlap /\ l.claim = k.claim
      /\ l.received = k.received /\ l.csv = k.csv /\ l.result = k.result
      /\ l.uploading = k.uploading
  BY <1>1 DEF IsWorker, SameLine
<1> HIDE DEF l
<1>6. IsWorld(x) /\ x.worker = l /\ x.events = w.events
  BY <1>1, <1>5, WorkerResult
<1> HIDE DEF x
<1>7. /\ IsWorld(y) /\ y.worker = l /\ y.events.session = "ReceivingResult"
      /\ y.events.link = w.events.link /\ y.events.claim = w.events.claim
  BY <1>6, PushSessionResult, SMTT(30) DEF SessionState
<1> HIDE DEF y
<1>8. Held(l)
  BY <1>1, <1>5, Zenon DEF Held, Own
<1>9. ~k.uploading
  BY Zenon DEF Waits, Sending
<1>10. Waits(l)
  BY <1>5, <1>9, Zenon DEF Waits, Sending, Own
<1>11. Line(l, s) /\ Shown(l, y.events, u)
  BY <1>1, <1>5, <1>7, Zenon DEF Line, Shown, SameLine
<1>12. l.socket = "open" /\ l.quit = k.quit
  BY <1>5, Zenon DEF SameLine
<1>13. Session(l, y.events, u, leaving)
  <2>1. Seen(u.session, y.events.session) = "ReceivingResult"
    BY <1>7, ClientAssumption, Zenon DEF Seen, SessionState
  <2> QED BY <1>5, <1>12, <2>1, Zenon DEF Session, Busy, IsBusy
<1>14. Base(y, s, u)
  BY <1>7, <1>8, <1>11, Zenon DEF Base
<1>15. 1 \in Nat /\ 1 > 0 /\ b + 1 = Len(l.csv) + 1
  BY <1>5, SMTT(30)
<1>16. /\ Good(y, s, u, leaving)
       /\ Good(FinishDownload(y, ok), s, u, leaving)
       /\ FinishDownload(y, ok).worker.quit = y.worker.quit
  BY <1>5, <1>7, <1>10, <1>12, <1>13, <1>14, <1>15, LoadingIsGood, Zenon
<1> QED BY <1>4, <1>7, <1>12, <1>16, FailIsGood, Zenon

(* One byte of the result, the one behind those received. *)
LEMMA CsvByteIsGood ==
    ASSUME NEW w, NEW s, NEW u, NEW leaving, Base(w, s, u), Waits(w.worker),
           w.worker.expecting = "CsvPayload", w.worker.socket = "open",
           Session(w.worker, w.events, u, leaving),
           NEW c \in Csv, NEW b \in Nat, NEW n \in Nat, n > 0, Follows(s, c, b, n + 1),
           b + n = Len(w.worker.csv) + 1, NEW ok \in BOOLEAN
    PROVE  LET v == HandleCsvByte(w, At(c, b, n), ok)
           IN  Good(v, s, u, leaving) /\ v.worker.quit = w.worker.quit
<1> DEFINE k == w.worker
           unit == At(c, b, n)
           q == Append(k.csv, unit)
           l == [k EXCEPT !.csv = q, !.received = Len(q)]
           x == [w EXCEPT !.worker = l]
<1>1. IsWorld(w) /\ IsWorker(k) /\ Held(k) /\ Line(k, s) /\ Shown(k, w.events, u)
  BY Zenon DEF Base, IsWorld
<1>2. k.claim # None /\ ~k.uploading
  BY Zenon DEF Waits
<1>3. HandleCsvByte(w, unit, ok) \in {x, FinishDownload(x, ok)}
  BY <1>1, <1>2, Zenon DEF HandleCsvByte, HasClaim, IsWorld, IsWorker
<1>4. unit = [kind |-> "Csv", part |-> b + n, status |-> None, csv |-> c]
  BY Zenon DEF At
<1>5. unit \in Unit /\ unit.part = b + n
  BY <1>4, SMTT(30) DEF Unit
<1> HIDE DEF unit
<1>6. k.csv \in Seq(Unit)
  BY <1>1, Zenon DEF IsWorker
<1>7. /\ q \in Seq(Unit) /\ Len(q) = Len(k.csv) + 1 /\ Len(q) \in Nat
      /\ \A i \in 1 .. Len(q) : q[i] = IF i = Len(q) THEN unit ELSE k.csv[i]
  BY <1>5, <1>6, SMTT(30)
<1> HIDE DEF q
<1>8. /\ IsWorker(l) /\ l.csv = q /\ l.received = Len(q)
      /\ l.file = k.file /\ l.overlap = k.overlap /\ l.claim = k.claim
      /\ l.csvCrc = k.csvCrc /\ l.result = k.result
      /\ SameStage(k, l) /\ SameLine(k, l)
  BY <1>1, <1>7, Zenon DEF IsWorker, SameLine, SameStage
<1> HIDE DEF l
<1>9. IsWorld(x) /\ x.worker = l /\ x.events = w.events
  BY <1>1, <1>8, WorkerResult
<1> HIDE DEF x
<1>10. \A i \in 1 .. Len(q) : q[i].part = i
  <2> SUFFICES ASSUME NEW i \in 1 .. Len(q)
               PROVE  q[i].part = i
    BY Zenon
  <2>1. CASE i = Len(q)
    BY <1>5, <1>7, <2>1, Zenon
  <2>2. CASE i # Len(q)
    <3>1. Len(k.csv) \in Nat
      BY <1>6, SMTT(30)
    <3>2. i \in 1 .. Len(k.csv) /\ q[i] = k.csv[i]
      BY <1>7, <2>2, <3>1, SMTT(30)
    <3> QED BY <1>1, <3>2, Zenon DEF Held
  <2> QED BY <2>1, <2>2, Zenon
<1>11. Held(l)
  BY <1>1, <1>8, <1>10, Zenon DEF Held, Own
<1>12. Waits(l)
  BY <1>2, <1>8, Zenon DEF Waits, Sending, Own, SameStage
<1>13. Line(l, s) /\ Shown(l, x.events, u)
  BY <1>1, <1>8, <1>9, Zenon DEF Line, Shown, SameLine
<1>14. Session(l, x.events, u, leaving)
  BY <1>8, <1>9, Zenon DEF Session, Busy, SameStage, SameLine
<1>15. l.socket = "open" /\ l.quit = k.quit /\ l.expecting = "CsvPayload"
  BY <1>8, Zenon DEF SameLine, SameStage
<1>16. Base(x, s, u)
  BY <1>9, <1>11, <1>13, Zenon DEF Base
<1>17. n + 1 \in Nat /\ n + 1 > 0 /\ b + (n + 1) = Len(l.csv) + 1
  <2>1. Len(k.csv) \in Nat
    BY <1>6, SMTT(30)
  <2>2. Len(l.csv) = Len(k.csv) + 1
    BY <1>7, <1>8, Zenon
  <2>3. b + n = Len(k.csv) + 1
    BY Zenon
  <2> HIDE DEF k
  <2> QED BY <2>1, <2>2, <2>3, SMTT(30)
<1>18. /\ Good(x, s, u, leaving)
       /\ Good(FinishDownload(x, ok), s, u, leaving)
       /\ FinishDownload(x, ok).worker.quit = x.worker.quit
  BY <1>9, <1>12, <1>14, <1>15, <1>16, <1>17, LoadingIsGood, Zenon
<1> QED BY <1>3, <1>9, <1>15, <1>18, Zenon DEF unit


(* An Ack of status Ok: the claim is made and the header of the result is due. *)
LEMMA AckIsGood ==
    ASSUME NEW w, NEW s, NEW u, NEW leaving, Base(w, s, u), Waits(w.worker),
           w.worker.expecting = "Ack", w.worker.socket = "open",
           NEW c \in Csv, Own(w.worker, c.file), Follows(s, c, 0, -1),
           NEW unit, unit.status = "Ok"
    PROVE  LET v == HandleAck(w, unit)
           IN  Good(v, s, u, leaving) /\ v.worker.quit = w.worker.quit
<1> DEFINE k == w.worker
           l == [k EXCEPT !.claim = k.file, !.received = 0]
           x == [w EXCEPT !.worker = l]
           y == PushClaim(x, TRUE)
           j == [l EXCEPT !.expecting = "ResultHeader", !.part = 0]
           z == [y EXCEPT !.worker = j]
           v == PushSession(z, "WaitResult")
<1>1. IsWorld(w) /\ IsWorker(k) /\ Held(k) /\ Line(k, s) /\ Shown(k, w.events, u)
  BY Zenon DEF Base, IsWorld
<1>2. /\ k.file \in File /\ k.file # None /\ k.result = <<>> /\ ~k.uploading
      /\ k.csv = <<>>
  BY ClientAssumption, Zenon DEF Waits, Sending
<1>3. [w EXCEPT !.worker.claim = k.file, !.worker.received = 0] = x
  BY <1>1, Zenon DEF IsWorld
<1>4. IsWorker(l)
  BY <1>1, <1>2, Zenon DEF IsWorker
<1>5. /\ IsWorker(j) /\ j.expecting = "ResultHeader" /\ j.claim = k.file /\ j.received = 0
      /\ j.uploading = k.uploading /\ SameLine(k, j)
      /\ j.file = k.file /\ j.overlap = k.overlap /\ j.csv = k.csv /\ j.result = k.result
  BY <1>1, <1>2, Zenon DEF IsWorker, SameLine
<1>6. IsWorld(x) /\ x.worker = l /\ x.events = w.events
  BY <1>1, <1>4, WorkerResult
<1> HIDE DEF x
<1>7. /\ IsWorld(y) /\ y.worker = l /\ y.events.claim = TRUE
      /\ y.events.link = w.events.link /\ y.events.session = w.events.session
  BY <1>6, Zenon DEF PushClaim, IsWorld, IsEvents
<1> HIDE DEF y
<1>8. ResetFramer(y, "ResultHeader") = z
  BY <1>7, Zenon DEF ResetFramer, IsWorld
<1>9. HandleAck(w, unit) = v
  BY <1>3, <1>8, Zenon DEF HandleAck, y
<1> HIDE DEF l, j
<1>10. IsWorld(z) /\ z.worker = j /\ z.events = y.events
  BY <1>5, <1>7, WorkerResult
<1> HIDE DEF z
<1>11. /\ IsWorld(v) /\ v.worker = j /\ v.events.session = "WaitResult"
       /\ v.events.link = w.events.link /\ v.events.claim = TRUE
  BY <1>7, <1>10, PushSessionResult, SMTT(30) DEF SessionState
<1> HIDE DEF v
<1>12. Held(j)
  BY <1>1, <1>2, <1>5, Zenon DEF Held, Own
<1>13. Waits(j)
  BY <1>2, <1>5, SMTT(30) DEF Waits, Sending
<1>14. Line(j, s)
  BY <1>1, <1>5, Zenon DEF Line, SameLine
<1>15. Shown(j, v.events, u)
  BY <1>1, <1>2, <1>5, <1>11, ClientAssumption, Zenon DEF Shown, Seen, SameLine
<1>16. j.socket = "open" /\ j.quit = k.quit
  BY <1>5, Zenon DEF SameLine
<1>17. Rest(j)
  BY <1>16, Zenon DEF Rest
<1>18. Answer(j, s)
  <2>1. Awaits(j, c, 0, -1)
    BY <1>2, <1>5, SMTT(30) DEF Awaits, Own
  <2>2. j.csv \in Seq(Unit)
    BY <1>5, Zenon DEF IsWorker
  <2> QED BY <2>1, <2>2, Zenon DEF Follows
<1>19. Session(j, v.events, u, leaving)
  <2>1. Seen(u.session, v.events.session) = "WaitResult"
    BY <1>11, ClientAssumption, Zenon DEF Seen, SessionState
  <2> QED BY <1>5, <1>16, <2>1, Zenon DEF Session, Busy, IsBusy
<1> QED BY <1>9, <1>11, <1>12, <1>13, <1>14, <1>15, <1>16, <1>17, <1>18, <1>19, Zenon DEF Good, Base

\* A refused claim is dropped with what it had received.
LEMMA RefusalIsGood ==
    ASSUME NEW w, NEW s, NEW u, NEW leaving, Base(w, s, u)
    PROVE  LET v == FailSession([DropResultClaim(w) EXCEPT !.worker.csv = <<>>])
           IN  Good(v, s, u, leaving) /\ v.worker.quit = w.worker.quit
<1> DEFINE k == w.worker
           x == DropResultClaim(w)
           l == [x.worker EXCEPT !.csv = <<>>]
           y == [x EXCEPT !.worker = l]
<1>1. IsWorld(w) /\ IsWorker(k) /\ Held(k) /\ Line(k, s) /\ Shown(k, w.events, u)
  BY Zenon DEF Base, IsWorld
<1>2. /\ IsWorld(x) /\ x.events.claim = FALSE
      /\ x.events.session = w.events.session /\ x.events.link = w.events.link
      /\ x.worker.claim = None /\ SameLine(k, x.worker)
      /\ x.worker.file = k.file /\ x.worker.overlap = k.overlap /\ x.worker.result = k.result
  BY <1>1, DropResult, Zenon
<1> HIDE DEF x
<1>3. [x EXCEPT !.worker.csv = <<>>] = y
  BY <1>2 DEF IsWorld
<1>4. IsWorker(l) /\ l.csv = <<>> /\ l.claim = None /\ SameLine(k, l)
      /\ l.file = k.file /\ l.overlap = k.overlap /\ l.result = k.result
  <2>1. IsWorker(x.worker)
    BY <1>2, Zenon DEF IsWorld
  <2>2. <<>> \in Seq(Unit)
    OBVIOUS
  <2> QED BY <1>2, <2>1, <2>2, Zenon DEF IsWorker, SameLine
<1> HIDE DEF l
<1>5. IsWorld(y) /\ y.worker = l /\ y.events = x.events
  BY <1>2, <1>4, WorkerResult
<1> HIDE DEF y
<1>6. Held(l)
  BY <1>1, <1>4, SMTT(30) DEF Held, Own
<1>7. Line(l, s)
  BY <1>1, <1>4, Zenon DEF Line, SameLine
<1>8. Shown(l, x.events, u)
  BY <1>1, <1>2, <1>4, ClientAssumption, Zenon DEF Shown, Seen, SameLine
<1>9. Base(y, s, u) /\ y.worker.quit = k.quit
  BY <1>4, <1>5, <1>6, <1>7, <1>8, Zenon DEF Base, SameLine
<1> QED BY <1>3, <1>9, FailIsGood, Zenon DEF x

\* onBytes(): one unit.
LEMMA BytesIsGood ==
    ASSUME NEW w, NEW s, NEW u, NEW leaving, Good(w, s, u, leaving), IsServer(s),
           w.worker.socket = "open", s.out # <<>>, NEW ok \in BOOLEAN
    PROVE  LET r == [s EXCEPT !.out = Tail(@)]
               v == OnBytes(w, Head(s.out), ok)
           IN  Good(v, r, u, leaving) /\ v.worker.quit = w.worker.quit
<1> DEFINE k == w.worker
           unit == Head(s.out)
           r == [s EXCEPT !.out = Tail(@)]
           v == OnBytes(w, unit, ok)
           l == [k EXCEPT !.part = 1]
           x == [w EXCEPT !.worker = l]
<1>1. /\ IsWorld(w) /\ IsWorker(k) /\ Held(k) /\ Line(k, s) /\ Shown(k, w.events, u)
      /\ Waits(k) /\ Session(k, w.events, u, leaving) /\ Answer(k, s)
  BY Zenon DEF Good, Base, IsWorld
<1>2. Line(k, r)
  BY <1>1, Zenon DEF Line, IsServer
<1>3. Base(w, r, u)
  BY <1>1, <1>2 DEF Base
<1>4. [w EXCEPT !.worker.part = 1] = x
  BY <1>1 DEF IsWorld
<1>5. IsWorker(l) /\ Alike(k, l)
  BY <1>1 DEF IsWorker, Alike, SameHeld, SameStage, SameLine
<1>6. ASSUME Answer(l, r)
      PROVE  Good(x, r, u, leaving) /\ x.worker.quit = k.quit
  <2> HIDE DEF l, r
  <2>1. IsWorld(x) /\ x.worker = l /\ x.events = w.events
    BY <1>1, <1>5, WorkerResult
  <2> HIDE DEF x
  <2>2. Held(l) /\ Waits(l)
    BY <1>1, <1>5, HeldOfAlike, WaitsOfAlike, Zenon DEF Alike
  <2>3. Line(l, r) /\ Shown(l, w.events, u)
    BY <1>1, <1>2, <1>5, Zenon DEF Line, Shown, Alike, SameHeld, SameLine
  <2>4. Session(l, w.events, u, leaving) /\ Rest(l)
    BY <1>1, <1>5, Zenon DEF Session, Rest, Busy, Alike, SameStage, SameLine
  <2>5. l.quit = k.quit
    BY <1>5, Zenon DEF Alike, SameLine
  <2> QED BY <1>6, <2>1, <2>2, <2>3, <2>4, <2>5, Zenon DEF Good, Base
<1> HIDE DEF l, x
<1>7. \/ /\ Rejects(unit) /\ k.expecting # "CsvPayload"
         /\ \A i : i.expecting # "CsvPayload" => Answer(i, r)
      \/ \E c \in Csv, b \in Nat, n \in Int :
            n >= -3 /\ unit = At(c, b, n) /\ Awaits(k, c, b, n) /\ Follows(r, c, b, n + 1)
  BY <1>1, NextUnit, Zenon
<1> HIDE DEF r, unit
<1>8. Good(FailSession(w), r, u, leaving) /\ FailSession(w).worker.quit = k.quit
  BY <1>3, FailIsGood, Zenon
<1>9. k.expecting # "CsvPayload" =>
         \/ v = FailSession(w)
         \/ unit.kind \in Accepted(k.expecting) /\ unit.part = 1 /\ v = x
         \/ unit.kind \in Accepted(k.expecting) /\ unit.part # 1 /\ v = HandleMessage(w, unit, ok)
  BY <1>4 DEF OnBytes
<1>10. ASSUME unit.kind \in Accepted(k.expecting)
       PROVE  /\ k.expecting \in {"Ack", "ResultHeader", "ResumeReply"}
              /\ k.expecting = "Ack" => unit.kind = "Ack"
              /\ k.expecting = "ResultHeader" => unit.kind = "ResultHeader"
              /\ k.expecting = "ResumeReply" => unit.kind \in {"Ack", "ResultHeader"}
  BY <1>1, <1>10, Zenon DEF Accepted, IsWorker
<1>11. ASSUME Rejects(unit), k.expecting # "CsvPayload",
              \A i : i.expecting # "CsvPayload" => Answer(i, r)
       PROVE  Good(v, r, u, leaving) /\ v.worker.quit = k.quit
  <2>1. l.expecting # "CsvPayload"
    BY <1>5, <1>11, Zenon DEF Alike, SameStage
  <2>2. Good(x, r, u, leaving) /\ x.worker.quit = k.quit
    BY <1>6, <1>11, <2>1, Zenon
  <2>3. ASSUME unit.kind \in Accepted(k.expecting)
        PROVE  HandleMessage(w, unit, ok) \in
                  {FailSession(w), FailSession([DropResultClaim(w) EXCEPT !.worker.csv = <<>>])}
    BY <1>10, <1>11, <2>3, Zenon DEF HandleMessage, HandleAck, HandleResumeReply, Rejects
  <2> QED BY <1>3, <1>8, <1>9, <1>11, <2>2, <2>3, RefusalIsGood, Zenon
<1>12. ASSUME NEW c \in Csv, NEW b \in Nat, NEW n \in Int, n >= -3, unit = At(c, b, n),
              Awaits(k, c, b, n), Follows(r, c, b, n + 1)
       PROVE  Good(v, r, u, leaving) /\ v.worker.quit = k.quit
  <2>1. CASE k.expecting = "CsvPayload"
    <3>1. n > 0
      <4>1. k.claim # None /\ ~Sending(k)
        BY <1>1, <2>1, Zenon DEF Waits, Sending
      <4>2. ~(n < -1) /\ n \notin {-1, 0}
        BY <1>12, <2>1, <4>1, Zenon DEF Awaits
      <4> QED BY <1>12, <4>2
    <3>2. n \in Nat /\ b + n = Len(k.csv) + 1
      BY <1>12, <2>1, <3>1, SMTT(60) DEF Awaits
    <3>3. v = HandleCsvByte(w, At(c, b, n), ok)
      BY <1>12, <2>1 DEF OnBytes
    <3>4. /\ Waits(w.worker) /\ Session(w.worker, w.events, u, leaving)
          /\ w.worker.expecting = "CsvPayload" /\ b + n = Len(w.worker.csv) + 1
          /\ Follows(r, c, b, n + 1)
      BY <1>1, <1>12, <2>1, <3>2, Zenon
    <3> HIDE DEF v, k
    <3>5. LET z == HandleCsvByte(w, At(c, b, n), ok)
          IN  Good(z, r, u, leaving) /\ z.worker.quit = w.worker.quit
      BY <1>3, <3>1, <3>2, <3>4, CsvByteIsGood, ZenonT(60)
    <3> QED BY <3>3, <3>5, Zenon DEF k
  <2>2. ASSUME k.expecting # "CsvPayload", unit.kind \in Accepted(k.expecting), unit.part = 1
        PROVE  Good(x, r, u, leaving) /\ x.worker.quit = k.quit
    <3>1. n \in {-3, -1}
      BY <1>10, <1>12, <2>2, SMTT(30) DEF At
    <3>2. /\ l.expecting = k.expecting /\ l.csv = k.csv /\ l.claim = k.claim
          /\ (Sending(l) <=> Sending(k)) /\ \A f : Own(l, f) <=> Own(k, f)
      BY <1>5, Zenon DEF Alike, SameHeld, SameStage, Sending, Own
    <3>3. Awaits(l, c, b, n + 1)
      BY <1>12, <3>1, <3>2, SMTT(30) DEF Awaits
    <3>4. l.csv \in Seq(Unit)
      BY <1>5, Zenon DEF IsWorker
    <3>5. Answer(l, r)
      BY <1>12, <3>3, <3>4, Zenon DEF Follows
    <3> QED BY <1>6, <3>5, Zenon
  <2>3. ASSUME k.expecting # "CsvPayload", unit.kind \in Accepted(k.expecting), unit.part # 1,
               v = HandleMessage(w, unit, ok)
        PROVE  Good(v, r, u, leaving) /\ v.worker.quit = k.quit
    <3>1. CASE k.expecting = "Ack"
      <4>1. n = -2 /\ unit.status = "Ok"
        BY <1>10, <1>12, <2>3, <3>1, SMTT(30) DEF At
      <4>2. b = 0 /\ Own(k, c.file) /\ n + 1 = -1
        BY <1>12, <4>1, SMTT(30) DEF Awaits
      <4>3. v = HandleAck(w, unit)
        BY <2>3, <3>1 DEF HandleMessage
      <4> HIDE DEF v
      <4>4. Follows(r, c, 0, -1)
        BY <1>12, <4>2, Zenon
      <4>5. LET z == HandleAck(w, unit)
            IN  Good(z, r, u, leaving) /\ z.worker.quit = w.worker.quit
        BY <1>1, <1>3, <1>12, <3>1, <4>1, <4>2, <4>4, AckIsGood, Zenon
      <4> QED BY <4>3, <4>5, Zenon
    <3>2. ASSUME unit.kind = "ResultHeader", k.expecting \in {"ResultHeader", "ResumeReply"}
          PROVE  /\ unit.csv = c /\ k.claim # None /\ b = Len(k.csv) /\ Own(k, c.file)
                 /\ Follows(r, c, b, 1)
      <4>1. n = 0 /\ unit.csv = c
        BY <1>12, <2>3, <3>2, SMTT(30) DEF At
      <4>2. k.claim # None
        BY <1>1, <3>2, Zenon DEF Waits
      <4> QED BY <1>12, <4>1, <4>2, SMTT(30) DEF Awaits
    <3>3. CASE k.expecting = "ResultHeader"
      <4>1. unit.kind = "ResultHeader" /\ v = BeginCsvReceive(w, unit.csv, FALSE, ok)
        BY <1>10, <2>3, <3>3 DEF HandleMessage
      <4>2. k.csv = <<>>
        BY <1>1, <3>3, Zenon DEF Waits
      <4> HIDE DEF v
      <4>3. LET z == BeginCsvReceive(w, c, FALSE, ok)
            IN  Good(z, r, u, leaving) /\ z.worker.quit = w.worker.quit
        BY <1>1, <1>3, <1>12, <3>2, <3>3, <4>1, <4>2, BeginIsGood, Zenon
      <4> QED BY <3>2, <3>3, <4>1, <4>3, Zenon
    <3>4. CASE k.expecting = "ResumeReply" /\ unit.kind = "Ack"
      <4>1. v = FailSession([DropResultClaim(w) EXCEPT !.worker.csv = <<>>])
        BY <2>3, <3>4 DEF HandleMessage, HandleResumeReply
      <4> QED BY <1>3, <4>1, RefusalIsGood
    <3>5. CASE k.expecting = "ResumeReply" /\ unit.kind = "ResultHeader"
      <4>1. v = BeginCsvReceive(w, unit.csv, TRUE, ok)
        BY <2>3, <3>5 DEF HandleMessage, HandleResumeReply
      <4> HIDE DEF v
      <4>2. LET z == BeginCsvReceive(w, c, TRUE, ok)
            IN  Good(z, r, u, leaving) /\ z.worker.quit = w.worker.quit
        BY <1>1, <1>3, <1>12, <3>2, <3>5, BeginIsGood, Zenon
      <4> QED BY <3>2, <3>5, <4>1, <4>2, Zenon
    <3> QED BY <1>10, <2>3, <3>1, <3>3, <3>4, <3>5, Zenon
  <2> QED BY <1>8, <1>9, <2>1, <2>2, <2>3, Zenon
<1> QED BY <1>7, <1>11, <1>12, Zenon DEF r, unit
=============================================================================
