------------------------ MODULE TransferClient_proofs ------------------------
(***************************************************************************)
(* What TransferClient promises: the window follows the worker, a result is *)
(* whole however often its download was resumed, and a claim is for the     *)
(* file last sent.  One lemma for every action.                             *)
(***************************************************************************)
EXTENDS TransferClient_lemmas

-----------------------------------------------------------------------------
(* The loop's callbacks. *)

\* onError(): whatever was under way is over.
LEMMA ErrorIsGood ==
    ASSUME NEW w, NEW s, NEW u, NEW leaving, Base(w, s, u), Waits(w.worker),
           Session(w.worker, w.events, u, leaving)
    PROVE  LET v == OnError(w)
           IN  /\ Good(v, s, u, leaving) /\ Idle(v.worker)
               /\ v.worker.writes = w.worker.writes /\ v.worker.quit = w.worker.quit
               /\ v.worker.socket = Closed(w.worker.socket)
<1> DEFINE k == w.worker
           ended == CASE k.uploading -> AbortUpload(w)
                      [] ~k.uploading /\ k.expecting # "Nothing" -> FailSession(w)
                      [] OTHER -> w
           x == PushLink(ended, "Disconnected")
           v == CloseSocket(x)
<1>1. /\ Base(ended, s, u) /\ Waits(ended.worker) /\ Idle(ended.worker)
      /\ Session(ended.worker, ended.events, u, leaving)
      /\ ended.worker.writes = k.writes /\ ended.worker.quit = k.quit
      /\ ended.worker.socket \in {k.socket, Closed(k.socket)}
  <2>1. CASE k.uploading
    <3>1. k.expecting = "Nothing" /\ ended = AbortUpload(w)
      BY <2>1 DEF Waits
    <3>2. LET z == AbortUpload(w)
          IN  /\ Good(z, s, u, leaving) /\ Idle(z.worker)
              /\ z.worker.writes = w.worker.writes /\ z.worker.quit = w.worker.quit
              /\ z.worker.socket = Closed(w.worker.socket)
      BY <3>1, AbortIsGood
    <3> QED BY <3>1, <3>2 DEF Good
  <2>2. CASE ~k.uploading /\ k.expecting # "Nothing"
    <3>1. ended = FailSession(w)
      BY <2>2
    <3>2. LET z == FailSession(w)
          IN  /\ Good(z, s, u, leaving) /\ Idle(z.worker)
              /\ z.worker.writes = w.worker.writes /\ z.worker.quit = w.worker.quit
              /\ z.worker.socket = Closed(w.worker.socket)
      BY FailIsGood
    <3> QED BY <3>1, <3>2, Zenon DEF Good
  <2>3. CASE ~k.uploading /\ k.expecting = "Nothing"
    BY <2>3 DEF Idle
  <2> QED BY <2>1, <2>2, <2>3, Zenon
<1>2. OnError(w) = v
  BY DEF OnError
<1> HIDE DEF ended
<1>3. IsWorld(ended) /\ IsWorker(ended.worker) /\ IsWorker(k)
  BY <1>1 DEF Base, IsWorld
<1>4. /\ IsWorld(x) /\ x.worker = ended.worker /\ x.events.link = "Disconnected"
      /\ x.events.session = ended.events.session /\ x.events.claim = ended.events.claim
  BY <1>3, PushLinkResult DEF LinkState
<1> HIDE DEF x
<1>5. /\ IsWorld(v) /\ v.events = x.events
      /\ SameHeld(x.worker, v.worker) /\ SameStage(x.worker, v.worker)
      /\ v.worker.writes = x.worker.writes /\ v.worker.quit = x.worker.quit
      /\ v.worker.timer = x.worker.timer /\ v.worker.socket = Closed(x.worker.socket)
  BY <1>4, CloseResult
<1> HIDE DEF v
<1>6. /\ v.worker.socket = Closed(k.socket) /\ v.worker.socket \in {"none", "closing"}
      /\ v.worker.socket = "none" => ended.worker.socket = "none"
  BY <1>1, <1>3, <1>4, <1>5, SMTT(30) DEF Closed, IsWorker
<1>7. Held(v.worker) /\ Waits(v.worker)
  BY <1>1, <1>4, <1>5, HeldOfAlike, WaitsOfAlike, Zenon DEF Base
<1>8. Idle(v.worker)
  BY <1>1, <1>4, <1>5, Zenon DEF Idle, SameStage
<1>9. Line(v.worker, s)
  BY <1>1, <1>4, <1>5, <1>6, Zenon DEF Base, Line
<1>10. Seen(u.link, v.events.link) = "Disconnected" /\ v.events # NoEvents
  BY <1>4, <1>5, ClientAssumption DEF Seen, LinkState, NoEvents
<1>11. Shown(v.worker, v.events, u)
  BY <1>1, <1>4, <1>5, <1>6, <1>10 DEF Base, Shown, SameHeld
<1>12. Rest(v.worker) /\ Answer(v.worker, s)
  BY <1>6, <1>8, Zenon DEF Rest, Answer
<1>13. Session(v.worker, v.events, u, leaving)
  <2>1. ~Busy(v.worker) /\ ~Busy(ended.worker)
    BY <1>1, <1>8 DEF Idle, Busy
  <2> QED BY <1>1, <1>4, <1>5, <1>10, <2>1, Zenon DEF Session
<1> QED BY <1>1, <1>2, <1>4, <1>5, <1>6, <1>7, <1>8, <1>9, <1>11, <1>12, <1>13 DEF Good, Base

\* The second of two replacements counts.
LEMMA WorkerTwice ==
    ASSUME NEW w, DOMAIN w = {"worker", "reader", "events"}, NEW a, NEW b
    PROVE  [[w EXCEPT !.worker = a] EXCEPT !.worker = b] = [w EXCEPT !.worker = b]
BY Zenon

\* Two fields of the worker replaced one by one are replaced together.
LEMMA WritesField ==
    ASSUME NEW w, IsWorld(w), NEW q, NEW m
    PROVE  [w EXCEPT !.worker.writes = q, !.worker.inFlight = m]
           = [w EXCEPT !.worker = [w.worker EXCEPT !.writes = q, !.inFlight = m]]
<1>1. DOMAIN w = {"worker", "reader", "events"}
  BY DEF IsWorld
<1>2. ASSUME NEW a
      PROVE  [w EXCEPT !.worker = a].worker = a
  BY <1>1
<1> QED BY <1>1, <1>2, WorkerTwice, Zenon

\* Completed writes leave the queue.
LEMMA WriteEndsResult ==
    ASSUME NEW w, IsWorld(w), NEW n \in Nat, n <= Len(w.worker.writes)
    PROVE  LET v == WriteEnds(w, n)
           IN  /\ IsWorld(v) /\ v.events = w.events /\ v.reader = w.reader
               /\ SameHeld(w.worker, v.worker) /\ SameStage(w.worker, v.worker)
               /\ v.worker.socket = w.worker.socket /\ v.worker.quit = w.worker.quit
               /\ v.worker.timer = w.worker.timer
               /\ n = Len(w.worker.writes) => v.worker.writes = <<>>
<1> DEFINE k == w.worker
           q == SubSeq(k.writes, n + 1, Len(k.writes))
           m == IF k.inFlight > n THEN k.inFlight - n ELSE 0
           l == [k EXCEPT !.writes = q, !.inFlight = m]
           v == [w EXCEPT !.worker = l]
<1>1. IsWorker(k) /\ k.writes \in Seq(MessageSet) /\ k.inFlight \in 0 .. kMaxInFlightWrites
  BY Zenon DEF IsWorld, IsWorker
<1>2. WriteEnds(w, n) = v
  <2>1. WriteEnds(w, n) = [w EXCEPT !.worker.writes = q, !.worker.inFlight = m]
    BY Zenon DEF WriteEnds
  <2> HIDE DEF q, m
  <2> QED BY <2>1, WritesField, Zenon
<1>3. q \in Seq(MessageSet) /\ (n = Len(k.writes) => q = <<>>)
  BY <1>1
<1>4. m \in 0 .. kMaxInFlightWrites
  BY <1>1, ClientAssumption, SMTT(30)
<1> HIDE DEF q, m
<1>5. /\ IsWorker(l) /\ SameHeld(k, l) /\ SameStage(k, l) /\ l.socket = k.socket
      /\ l.quit = k.quit /\ l.timer = k.timer /\ l.writes = q
  BY <1>1, <1>3, <1>4, Zenon DEF IsWorker, SameHeld, SameStage
<1> HIDE DEF l
<1>6. IsWorld(v) /\ v.worker = l /\ v.events = w.events /\ v.reader = w.reader
  BY <1>5, WorkerResult
<1> QED BY <1>2, <1>3, <1>5, <1>6

\* onClosed(): nothing is left of the connection.
LEMMA ClosedResult ==
    ASSUME NEW w, NEW s, NEW u, NEW leaving, Good(w, s, u, leaving),
           w.worker.socket = "closing", IsServer(s)
    PROVE  LET cancelled == IF w.worker.writes = <<>> THEN w
                            ELSE OnError(WriteEnds(w, Len(w.worker.writes)))
               v == PushLink([cancelled EXCEPT !.worker.socket = "none"], "Disconnected")
               r == [s EXCEPT !.phase = "none", !.file = None, !.out = <<>>]
           IN  Good(v, r, u, leaving) /\ v.worker.quit = w.worker.quit
<1> DEFINE k == w.worker
           x == WriteEnds(w, Len(k.writes))
           cancelled == IF k.writes = <<>> THEN w ELSE OnError(x)
           l == [cancelled.worker EXCEPT !.socket = "none"]
           y == [cancelled EXCEPT !.worker = l]
           v == PushLink(y, "Disconnected")
           r == [s EXCEPT !.phase = "none", !.file = None, !.out = <<>>]
<1>1. /\ IsWorld(w) /\ IsWorker(k) /\ Base(w, s, u) /\ Waits(k) /\ Rest(k)
      /\ Session(k, w.events, u, leaving)
  BY Zenon DEF Good, Base, IsWorld
<1>2. /\ Base(cancelled, s, u) /\ Waits(cancelled.worker)
      /\ cancelled.worker.writes = <<>> /\ cancelled.worker.quit = k.quit
      /\ k.quit \/ Idle(cancelled.worker)
      /\ Session(cancelled.worker, cancelled.events, u, leaving)
  <2>1. CASE k.writes = <<>>
    BY <1>1, <2>1, Zenon DEF Rest
  <2>2. CASE k.writes # <<>>
    <3>1. Len(k.writes) \in Nat /\ Len(k.writes) <= Len(w.worker.writes)
      BY <1>1 DEF IsWorker
    <3>2. /\ IsWorld(x) /\ x.events = w.events
          /\ SameHeld(k, x.worker) /\ SameStage(k, x.worker)
          /\ x.worker.socket = k.socket /\ x.worker.quit = k.quit
          /\ x.worker.timer = k.timer /\ x.worker.writes = <<>>
      BY <1>1, <3>1, WriteEndsResult, Zenon
    <3> HIDE DEF x
    <3>3. Held(x.worker) /\ Waits(x.worker)
      BY <1>1, <3>2, HeldOfAlike, WaitsOfAlike, Zenon DEF Base
    <3>4. Line(x.worker, s) /\ Shown(x.worker, x.events, u)
      BY <1>1, <3>2, Zenon DEF Base, Line, Shown, SameHeld
    <3>5. Session(x.worker, x.events, u, leaving)
      BY <1>1, <3>2, Zenon DEF Session, Busy, SameStage
    <3>6. Base(x, s, u)
      BY <3>2, <3>3, <3>4, Zenon DEF Base
    <3>7. LET z == OnError(x)
          IN  /\ Good(z, s, u, leaving) /\ Idle(z.worker)
              /\ z.worker.writes = x.worker.writes /\ z.worker.quit = x.worker.quit
      BY <3>3, <3>5, <3>6, ErrorIsGood, Zenon
    <3> QED BY <2>2, <3>2, <3>7, Zenon DEF Good
  <2> QED BY <2>1, <2>2, Zenon
<1> HIDE DEF cancelled
<1>3. IsWorld(cancelled) /\ IsWorker(cancelled.worker)
  BY <1>2, Zenon DEF Base, IsWorld
<1>4. [cancelled EXCEPT !.worker.socket = "none"] = y
  BY <1>3 DEF IsWorld
<1>5. /\ IsWorker(l) /\ SameHeld(cancelled.worker, l) /\ SameStage(cancelled.worker, l)
      /\ l.socket = "none" /\ l.writes = <<>> /\ l.quit = k.quit
  <2>1. IsWorker(l) /\ SameHeld(cancelled.worker, l) /\ SameStage(cancelled.worker, l)
    BY <1>3 DEF IsWorker, SameHeld, SameStage
  <2>2. l.socket = "none" /\ l.writes = cancelled.worker.writes /\ l.quit = cancelled.worker.quit
    BY <1>3 DEF IsWorker
  <2> QED BY <1>2, <2>1, <2>2
<1> HIDE DEF l
<1>6. IsWorld(y) /\ y.worker = l /\ y.events = cancelled.events
  BY <1>3, <1>5, WorkerResult
<1> HIDE DEF y
<1>7. /\ IsWorld(v) /\ v.worker = l /\ v.events.link = "Disconnected"
      /\ v.events.session = cancelled.events.session
      /\ v.events.claim = cancelled.events.claim
  BY <1>6, PushLinkResult DEF LinkState
<1>8. r.phase = "none" /\ r.out = <<>>
  BY DEF IsServer
<1> HIDE DEF r
<1>9. Held(l) /\ Waits(l)
  BY <1>2, <1>5, HeldOfAlike, WaitsOfAlike, Zenon DEF Base
<1>10. Line(l, r)
  BY <1>5, <1>8, Zenon DEF Line
<1>11. Seen(u.link, v.events.link) = "Disconnected" /\ v.events # NoEvents
  BY <1>7, ClientAssumption DEF Seen, LinkState, NoEvents
<1> HIDE DEF v
<1>12. Shown(l, v.events, u)
  BY <1>2, <1>5, <1>7, <1>11, Zenon DEF Base, Shown, SameHeld
<1>13. Rest(l) /\ Answer(l, r)
  BY <1>2, <1>5, Zenon DEF Rest, Answer, Idle, SameStage
<1>14. Session(l, v.events, u, leaving)
  BY <1>2, <1>5, <1>7, <1>11, Zenon DEF Session, Busy, Idle, SameStage
<1> QED BY <1>4, <1>5, <1>7, <1>9, <1>10, <1>12, <1>13, <1>14, Zenon DEF Good, Base, v, r, cancelled


\* A connection that does not come about: what was sent on it is lost when it is closed.
LEMMA LostIsGood ==
    ASSUME NEW w, NEW s, NEW u, NEW leaving, Good(w, s, u, leaving),
           w.worker.socket = "connecting",
           NEW v, IsWorld(v), SameHeld(w.worker, v.worker), SameStage(w.worker, v.worker),
           v.worker.writes = w.worker.writes, v.worker.quit = w.worker.quit,
           v.worker.socket = "closing", v.events.claim = w.events.claim,
           v.events.session = w.events.session \/ v.events.session = "Idle",
           NEW r, r.phase \in {"none", "header"}, r.out = <<>>
    PROVE  Good(v, r, u, leaving)
<1> DEFINE k == w.worker
           l == v.worker
<1>1. /\ Held(k) /\ Waits(k) /\ Line(k, s) /\ Shown(k, w.events, u) /\ Answer(k, s)
      /\ Session(k, w.events, u, leaving)
  BY Zenon DEF Good, Base
<1>2. Held(l) /\ Waits(l)
  BY <1>1, HeldOfAlike, WaitsOfAlike, Zenon
<1>3. ~k.quit /\ Unsent(k)
  BY <1>1, Zenon DEF Line, Answer
<1>4. Line(l, r) /\ Shown(l, v.events, u)
  BY <1>1, <1>3, Zenon DEF Line, Shown, SameHeld
<1>5. Rest(l) /\ Answer(l, r)
  BY <1>3, Zenon DEF Rest, Answer, Unsent, Idle, SameStage
<1>6. Session(l, v.events, u, leaving)
  <2>1. CASE v.events.session = w.events.session
    BY <1>1, <1>3, <2>1, Zenon DEF Session, Busy, SameStage
  <2>2. CASE v.events.session = "Idle"
    <3>1. Seen(u.session, v.events.session) = "Idle"
      BY <2>2, ClientAssumption, Zenon DEF Seen, SessionState
    <3> QED BY <1>3, <3>1, Zenon DEF Session, IsBusy
  <2> QED BY <2>1, <2>2, Zenon
<1> QED BY <1>2, <1>4, <1>5, <1>6, Zenon DEF Good, Base

\* The timer stopped.
LEMMA UntimedResult ==
    ASSUME NEW w, IsWorld(w)
    PROVE  LET v == [w EXCEPT !.worker.timer = FALSE]
           IN  /\ IsWorld(v) /\ v.events = w.events /\ v.reader = w.reader
               /\ SameHeld(w.worker, v.worker) /\ SameStage(w.worker, v.worker)
               /\ v.worker.writes = w.worker.writes /\ v.worker.quit = w.worker.quit
               /\ v.worker.socket = w.worker.socket /\ ~v.worker.timer
<1> DEFINE k == w.worker
           l == [k EXCEPT !.timer = FALSE]
           v == [w EXCEPT !.worker = l]
<1>1. IsWorker(k)
  BY DEF IsWorld
<1>2. [w EXCEPT !.worker.timer = FALSE] = v
  BY DEF IsWorld
<1>3. /\ IsWorker(l) /\ SameHeld(k, l) /\ SameStage(k, l) /\ l.writes = k.writes
      /\ l.quit = k.quit /\ l.socket = k.socket /\ ~l.timer
  BY <1>1, Zenon DEF IsWorker, SameHeld, SameStage
<1> HIDE DEF l
<1>4. IsWorld(v) /\ v.worker = l /\ v.events = w.events /\ v.reader = w.reader
  BY <1>3, WorkerResult
<1> QED BY <1>2, <1>3, <1>4, Zenon

\* onConnect(): refused, or connected with or without a read started.
LEMMA ConnectResult ==
    ASSUME NEW w, NEW s, NEW u, NEW leaving, Good(w, s, u, leaving),
           w.worker.socket = "connecting", IsServer(s)
    PROVE  LET untimed == [w EXCEPT !.worker.timer = FALSE]
               connected == PushLink([untimed EXCEPT !.worker.socket = "open"], "Connected")
               refused == CloseSocket(PushLink(untimed, "Disconnected"))
               r == [s EXCEPT !.phase = "header", !.out = <<>>]
           IN  /\ Good(refused, s, u, leaving) /\ refused.worker.quit = w.worker.quit
               /\ Good(connected, r, u, leaving) /\ connected.worker.quit = w.worker.quit
               /\ Good(CloseSocket(connected), r, u, leaving)
               /\ CloseSocket(connected).worker.quit = w.worker.quit
<1> DEFINE k == w.worker
           untimed == [w EXCEPT !.worker.timer = FALSE]
           l == [untimed.worker EXCEPT !.socket = "open"]
           opened == [untimed EXCEPT !.worker = l]
           connected == PushLink(opened, "Connected")
           x == PushLink(untimed, "Disconnected")
           refused == CloseSocket(x)
           closed == CloseSocket(connected)
           r == [s EXCEPT !.phase = "header", !.out = <<>>]
<1>1. /\ IsWorld(w) /\ IsWorker(k) /\ Held(k) /\ Waits(k) /\ Line(k, s)
      /\ Shown(k, w.events, u) /\ Answer(k, s) /\ Session(k, w.events, u, leaving)
  BY Zenon DEF Good, Base, IsWorld
<1>2. /\ IsWorld(untimed) /\ untimed.events = w.events
      /\ SameHeld(k, untimed.worker) /\ SameStage(k, untimed.worker)
      /\ untimed.worker.writes = k.writes /\ untimed.worker.quit = k.quit
      /\ untimed.worker.socket = "connecting" /\ ~untimed.worker.timer
  BY <1>1, UntimedResult, Zenon
<1> HIDE DEF untimed
<1>3. s.phase = "none" /\ s.out = <<>> /\ r.phase = "header" /\ r.out = <<>> /\ ~k.quit /\ Unsent(k)
  BY <1>1 DEF Line, Answer, IsServer
<1> HIDE DEF r
<1>4. Good(refused, s, u, leaving) /\ refused.worker.quit = k.quit
  <2>1. /\ IsWorld(x) /\ x.worker = untimed.worker
        /\ x.events.session = w.events.session /\ x.events.claim = w.events.claim
    BY <1>2, PushLinkResult DEF LinkState
  <2> HIDE DEF x
  <2>2. /\ IsWorld(refused) /\ refused.events = x.events
        /\ SameHeld(x.worker, refused.worker) /\ SameStage(x.worker, refused.worker)
        /\ refused.worker.writes = k.writes /\ refused.worker.quit = k.quit
        /\ refused.worker.socket = Closed("connecting")
    BY <1>2, <2>1, CloseResult
  <2> HIDE DEF refused
  <2>3. SameHeld(k, refused.worker) /\ SameStage(k, refused.worker)
        /\ refused.worker.socket = "closing"
    BY <1>2, <2>1, <2>2 DEF SameHeld, SameStage, Closed
  <2>4. refused.events.claim = w.events.claim /\ refused.events.session = w.events.session
    BY <2>1, <2>2, Zenon
  <2> QED BY <1>3, <2>2, <2>3, <2>4, LostIsGood, SMTT(30)
<1>5. [untimed EXCEPT !.worker.socket = "open"] = opened
  BY <1>2 DEF IsWorld
<1>6. /\ IsWorker(l) /\ SameHeld(k, l) /\ SameStage(k, l) /\ l.writes = k.writes
      /\ l.quit = k.quit /\ l.socket = "open" /\ ~l.timer
  <2>1. IsWorker(untimed.worker)
    BY <1>2, Zenon DEF IsWorld
  <2>2. /\ IsWorker(l) /\ l.socket = "open"
        /\ SameHeld(untimed.worker, l) /\ SameStage(untimed.worker, l)
        /\ l.writes = untimed.worker.writes /\ l.quit = untimed.worker.quit
        /\ l.timer = untimed.worker.timer
    BY <2>1 DEF IsWorker, SameHeld, SameStage
  <2> HIDE DEF l
  <2> QED BY <1>2, <2>2, Zenon DEF SameHeld, SameStage
<1> HIDE DEF l
<1>7. IsWorld(opened) /\ opened.worker = l /\ opened.events = w.events
  BY <1>2, <1>6, WorkerResult
<1> HIDE DEF opened
<1>8. /\ IsWorld(connected) /\ connected.worker = l /\ connected.events.link = "Connected"
      /\ connected.events.session = w.events.session /\ connected.events.claim = w.events.claim
  BY <1>7, PushLinkResult DEF LinkState
<1> HIDE DEF connected
<1>9. Good(connected, r, u, leaving)
  <2>1. Held(l) /\ Waits(l)
    BY <1>1, <1>6, HeldOfAlike, WaitsOfAlike, Zenon
  <2>2. Line(l, r) /\ Rest(l)
    BY <1>3, <1>6, Zenon DEF Line, Rest
  <2>3. Shown(l, connected.events, u)
    BY <1>1, <1>6, <1>8, ClientAssumption, Zenon DEF Shown, Seen, LinkState, SameHeld
  <2>4. Unsent(l)
    BY <1>3, <1>6 DEF Unsent, Idle, Sending, Own, SameHeld, SameStage
  <2>5. Answer(l, r)
    BY <1>3, <2>4, Zenon DEF Answer
  <2>6. Session(l, connected.events, u, leaving)
    BY <1>1, <1>3, <1>6, <1>8, Zenon DEF Session, Busy, SameStage
  <2> QED BY <1>8, <2>1, <2>2, <2>3, <2>5, <2>6, Zenon DEF Good, Base
<1>10. Good(closed, r, u, leaving) /\ closed.worker.quit = k.quit
  <2>1. /\ IsWorld(closed) /\ closed.events = connected.events
        /\ SameHeld(l, closed.worker) /\ SameStage(l, closed.worker)
        /\ closed.worker.writes = k.writes /\ closed.worker.quit = k.quit
        /\ closed.worker.socket = Closed("open")
    BY <1>6, <1>8, CloseResult
  <2> HIDE DEF closed
  <2>2. SameHeld(k, closed.worker) /\ SameStage(k, closed.worker)
        /\ closed.worker.socket = "closing"
    BY <1>6, <2>1, Zenon DEF SameHeld, SameStage, Closed
  <2>3. closed.events.claim = w.events.claim /\ closed.events.session = w.events.session
    BY <1>8, <2>1, Zenon
  <2> QED BY <1>3, <2>1, <2>2, <2>3, LostIsGood, SMTT(30)
<1> QED BY <1>4, <1>5, <1>6, <1>8, <1>9, <1>10, Zenon DEF untimed, connected, r

(* The connect timeout: it closes a socket that is usable and is ignored otherwise. *)
LEMMA TimeoutResult ==
    ASSUME NEW w, NEW s, NEW u, NEW leaving, Good(w, s, u, leaving), w.worker.timer
    PROVE  LET fired == [w EXCEPT !.worker.timer = FALSE]
               v == PushSession(CloseSocket(PushLink(fired, "Disconnected")), "Idle")
           IN  /\ SocketUsable(fired) => Good(v, s, u, leaving) /\ v.worker.quit = w.worker.quit
               /\ ~SocketUsable(fired) =>
                     Good(fired, s, u, leaving) /\ fired.worker.quit = w.worker.quit
<1> DEFINE k == w.worker
           fired == [w EXCEPT !.worker.timer = FALSE]
           x == PushLink(fired, "Disconnected")
           y == CloseSocket(x)
           v == PushSession(y, "Idle")
<1>1. /\ IsWorld(w) /\ Held(k) /\ Waits(k) /\ Line(k, s) /\ Rest(k)
      /\ Shown(k, w.events, u) /\ Session(k, w.events, u, leaving)
  BY Zenon DEF Good, Base
<1>2. /\ IsWorld(fired) /\ fired.events = w.events
      /\ SameHeld(k, fired.worker) /\ SameStage(k, fired.worker)
      /\ fired.worker.writes = k.writes /\ fired.worker.quit = k.quit
      /\ fired.worker.socket = k.socket /\ ~fired.worker.timer
  BY <1>1, UntimedResult, Zenon
<1> HIDE DEF fired
<1>3. ASSUME SocketUsable(fired)
      PROVE  Good(v, s, u, leaving) /\ v.worker.quit = k.quit
  <2>1. k.socket = "connecting" /\ s.phase = "none" /\ s.out = <<>>
    BY <1>1, <1>2, <1>3, Zenon DEF SocketUsable, Line
  <2>2. /\ IsWorld(x) /\ x.worker = fired.worker
        /\ x.events.session = w.events.session /\ x.events.claim = w.events.claim
    BY <1>2, PushLinkResult DEF LinkState
  <2> HIDE DEF x
  <2>3. /\ IsWorld(y) /\ y.events = x.events
        /\ SameHeld(x.worker, y.worker) /\ SameStage(x.worker, y.worker)
        /\ y.worker.writes = k.writes /\ y.worker.quit = k.quit
        /\ y.worker.socket = Closed("connecting")
    BY <1>2, <2>1, <2>2, CloseResult, SMTT(30)
  <2> HIDE DEF y
  <2>4. SameHeld(k, y.worker) /\ SameStage(k, y.worker) /\ y.worker.socket = "closing"
    BY <1>2, <2>2, <2>3 DEF SameHeld, SameStage, Closed
  <2>5. /\ IsWorld(v) /\ v.worker = y.worker /\ v.events.session = "Idle"
        /\ v.events.claim = w.events.claim
    BY <2>2, <2>3, PushSessionResult, SMTT(30) DEF SessionState
  <2> HIDE DEF v
  <2> QED BY <2>1, <2>3, <2>4, <2>5, LostIsGood, SMTT(30)
<1>4. ASSUME ~SocketUsable(fired)
      PROVE  Good(fired, s, u, leaving)
  <2> DEFINE l == fired.worker
  <2>1. Held(l) /\ Waits(l)
    BY <1>1, <1>2, HeldOfAlike, WaitsOfAlike, Zenon
  <2>2. Line(l, s) /\ Shown(l, w.events, u)
    BY <1>1, <1>2, Zenon DEF Line, Shown, SameHeld
  <2>3. Rest(l) /\ Answer(l, s)
    BY <1>1, <1>2, <1>4, Zenon DEF Rest, Answer, Idle, SameStage, SocketUsable
  <2>4. Session(l, w.events, u, leaving)
    BY <1>1, <1>2, Zenon DEF Session, Busy, SameStage
  <2> QED BY <1>2, <2>1, <2>2, <2>3, <2>4, Zenon DEF Good, Base
<1> QED BY <1>2, <1>3, <1>4 DEF fired

-----------------------------------------------------------------------------
(* The server's answers. *)

\* Concatenation, index by index.
LEMMA ConcatFacts ==
    ASSUME NEW S, NEW p \in Seq(S), NEW q \in Seq(S)
    PROVE  /\ p \o q \in Seq(S) /\ Len(p \o q) = Len(p) + Len(q)
           /\ Len(p) \in Nat /\ Len(q) \in Nat
           /\ \A i \in 1 .. Len(p) + Len(q) :
                 (p \o q)[i] = IF i <= Len(p) THEN p[i] ELSE q[i - Len(p)]
OBVIOUS

\* A function on 1 .. n is a sequence of length n.
LEMMA SequenceOf ==
    ASSUME NEW S, NEW n \in Nat, NEW q \in [1 .. n -> S]
    PROVE  q \in Seq(S) /\ Len(q) = n
OBVIOUS

(* A message is two units of one kind. *)
LEMMA MessageFacts ==
    ASSUME NEW kind \in {"Ack", "ResultHeader", "Bad"},
           NEW status \in {None, "Ok", "CrcMismatch", "NoSuchResult"},
           NEW csv \in Csv \cup {None}
    PROVE  LET m == Message(kind, status, csv)
           IN  /\ m \in Seq(Unit) /\ Len(m) = 2
               /\ \A i \in 1 .. 2 :
                     m[i] = [kind |-> kind, part |-> i, status |-> status, csv |-> csv]
<1> DEFINE m == Message(kind, status, csv)
<1>1. m \in [1 .. 2 -> Unit]
  BY DEF Message, Unit
<1>2. \A i \in 1 .. 2 : m[i] = [kind |-> kind, part |-> i, status |-> status, csv |-> csv]
  BY Zenon DEF Message
<1> HIDE DEF m
<1>3. m \in Seq(Unit) /\ Len(m) = 2
  <2>1. 2 \in Nat
    OBVIOUS
  <2> QED BY <1>1, <2>1, SequenceOf, Zenon
<1> QED BY <1>2, <1>3, Zenon DEF m

(* The bytes of a result are units of their own, numbered from one. *)
LEMMA WholeFacts ==
    ASSUME NEW csv \in Csv
    PROVE  /\ Whole(csv) \in Seq(Unit) /\ Len(Whole(csv)) = CsvSize[csv.version]
           /\ CsvSize[csv.version] \in Nat
           /\ \A i \in 1 .. CsvSize[csv.version] : Whole(csv)[i] = At(csv, 0, i)
<1> DEFINE n == CsvSize[csv.version]
           unit(i) == [kind |-> "Csv", part |-> i, status |-> None, csv |-> csv]
<1>1. n \in Nat
  BY ClientAssumption DEF Csv, Version
<1>2. Whole(csv) = [i \in 1 .. n |-> unit(i)]
  BY DEF Whole
<1> HIDE DEF n
<1>3. \A i \in 1 .. n : unit(i) \in Unit
  BY <1>1 DEF Unit
<1>4. \A i \in 1 .. n : unit(i) = At(csv, 0, i)
  BY <1>1 DEF At
<1> HIDE DEF unit
<1>5. Whole(csv) \in Seq(Unit) /\ Len(Whole(csv)) = n
  <2>1. Whole(csv) \in [1 .. n -> Unit]
    BY <1>2, <1>3, Zenon
  <2> QED BY <1>1, <2>1, SequenceOf, Zenon
<1>6. \A i \in 1 .. n : Whole(csv)[i] = At(csv, 0, i)
  BY <1>2, <1>4
<1> QED BY <1>1, <1>5, <1>6 DEF n

\* The header of a result and its bytes continue what is sent of an answer.
LEMMA StretchGrows ==
    ASSUME NEW c \in Csv, NEW b \in Nat, NEW h \in {2, 3, 4},
           NEW out \in Seq(Unit), Len(out) = h - 2,
           \A i \in 1 .. Len(out) : out[i] = At(c, b, i - h),
           NEW q \in Seq(Unit), \A i \in 1 .. Len(q) : q[i] = At(c, b, i)
    PROVE  LET all == out \o Message("ResultHeader", None, c) \o q
           IN  all \in Seq(Unit) /\ Stretch(all, c, b, h)
<1> DEFINE m == Message("ResultHeader", None, c)
           p == out \o m
           all == p \o q
<1>1. /\ m \in Seq(Unit) /\ Len(m) = 2
      /\ \A i \in 1 .. 2 : m[i] = [kind |-> "ResultHeader", part |-> i, status |-> None, csv |-> c]
  BY MessageFacts
<1>2. \A i \in 1 .. 2 : m[i] = At(c, b, i - 2)
  <2>1. m[1] = At(c, b, 1 - 2) /\ m[2] = At(c, b, 2 - 2)
    <3> HIDE DEF m
    <3> QED BY <1>1 DEF At
  <2> QED BY <2>1
<1> HIDE DEF m
<1>3. /\ p \in Seq(Unit) /\ Len(p) = h /\ Len(out) \in Nat
      /\ \A i \in 1 .. h : p[i] = IF i <= Len(out) THEN out[i] ELSE m[i - Len(out)]
  <2>1. /\ p \in Seq(Unit) /\ Len(p) = Len(out) + Len(m) /\ Len(out) \in Nat
        /\ \A i \in 1 .. Len(out) + Len(m) :
              p[i] = IF i <= Len(out) THEN out[i] ELSE m[i - Len(out)]
    BY <1>1, ConcatFacts, Zenon
  <2>2. Len(out) + Len(m) = h
    BY <1>1
  <2> HIDE DEF p
  <2> QED BY <2>1, <2>2, Zenon
<1> HIDE DEF p
<1>4. \A i \in 1 .. h : p[i] = At(c, b, i - h)
  <2> SUFFICES ASSUME NEW i \in 1 .. h
               PROVE  p[i] = At(c, b, i - h)
    OBVIOUS
  <2>1. CASE i <= Len(out)
    BY <1>3, <2>1, SMTT(30)
  <2>2. CASE i > Len(out)
    <3>1. i - Len(out) \in 1 .. 2 /\ (i - Len(out)) - 2 = i - h
      BY <1>3, <2>2
    <3> QED BY <1>2, <1>3, <2>2, <3>1, SMTT(60)
  <2> QED BY <1>3, <2>1, <2>2
<1>5. /\ all \in Seq(Unit) /\ Len(all) = h + Len(q) /\ Len(q) \in Nat
      /\ \A i \in 1 .. h + Len(q) : all[i] = IF i <= h THEN p[i] ELSE q[i - h]
  BY <1>3, ConcatFacts, SMTT(30)
<1> HIDE DEF all
<1>6. Stretch(all, c, b, h)
  <2> SUFFICES ASSUME NEW i \in 1 .. Len(all)
               PROVE  all[i] = At(c, b, i - h)
    BY Zenon DEF Stretch
  <2>1. CASE i <= h
    BY <1>4, <1>5, <2>1, SMTT(30)
  <2>2. CASE i > h
    <3>1. i - h \in 1 .. Len(q)
      BY <1>5, <2>2
    <3> QED BY <1>5, <2>2, <3>1, SMTT(30)
  <2> QED BY <1>5, <2>1, <2>2
<1> QED BY <1>5, <1>6, Zenon DEF all, p, m

\* The answer to a request: the rest of the result that is kept, or a refusal.
LEMMA ReplyFacts ==
    ASSUME NEW s, IsServer(s), s.out = <<>>, NEW m \in MessageSet, m.kind = "request"
    PROVE  LET r == ServerReply(s, m)
           IN  /\ IsServer(r)
               /\ \/ r.phase = "eof" /\ Refused(r.out)
                  \/ r.phase = "sent" /\ \E c \in Csv : c.file = m.file /\ Stretch(r.out, c, m.offset, 2)
<1> DEFINE c == s.retained
           b == m.offset
           n == CsvSize[c.version]
           q == SubSeq(Whole(c), b + 1, n)
           all == <<>> \o Message("ResultHeader", None, c) \o q
           none == <<>> \o Message("Ack", "NoSuchResult", None)
<1>1. m.offset \in Nat /\ m.file \in File
  BY Zenon DEF MessageSet
<1>2. CASE c # None /\ c.file = m.file /\ b <= n
  <2>1. c \in Csv
    BY <1>2, Zenon DEF IsServer
  <2>2. Whole(c) \in Seq(Unit) /\ Len(Whole(c)) = n /\ n \in Nat
        /\ \A i \in 1 .. n : Whole(c)[i] = At(c, 0, i)
    BY <2>1, WholeFacts, Zenon
  <2> HIDE DEF n
  <2>3. q \in Seq(Unit) /\ Len(q) = n - b /\ n - b \in Nat
        /\ \A i \in 1 .. n - b : q[i] = Whole(c)[b + i] /\ b + i \in 1 .. n
    BY <1>1, <1>2, <2>2, SMTT(60)
  <2>4. \A i \in 1 .. Len(q) : q[i] = At(c, b, i)
    <3> SUFFICES ASSUME NEW i \in 1 .. n - b
                 PROVE  q[i] = At(c, b, i)
      BY <2>3, Zenon
    <3>1. q[i] = At(c, 0, b + i) /\ b + i > 0 /\ i > 0
      BY <1>1, <2>2, <2>3, SMTT(30)
    <3>2. At(c, 0, b + i) = At(c, b, i)
      BY <1>1, <2>3, <3>1, SMTT(60) DEF At
    <3> QED BY <3>1, <3>2, Zenon
  <2> HIDE DEF q
  <2>5. all \in Seq(Unit) /\ Stretch(all, c, b, 2)
    <3>1. <<>> \in Seq(Unit) /\ Len(<<>>) = 2 - 2 /\ 2 \in {2, 3, 4}
          /\ \A i \in 1 .. Len(<<>>) : <<>>[i] = At(c, b, i - 2)
      OBVIOUS
    <3> HIDE DEF b, c
    <3>2. b \in Nat
      BY <1>1 DEF b
    <3> QED BY <2>1, <2>3, <2>4, <3>1, <3>2, StretchGrows, Zenon
  <2>6. ServerReply(s, m) = [s EXCEPT !.phase = "sent", !.out = all]
    BY <1>2 DEF ServerReply, n, q, IsServer
  <2> HIDE DEF all
  <2>7. IsServer(ServerReply(s, m)) /\ ServerReply(s, m).phase = "sent"
        /\ ServerReply(s, m).out = all
    BY <2>5, <2>6 DEF IsServer
  <2> QED BY <1>2, <2>1, <2>5, <2>7, Zenon
<1>3. CASE ~(c # None /\ c.file = m.file /\ b <= n)
  <2>1. ServerReply(s, m) = [s EXCEPT !.phase = "eof", !.out = none]
    BY <1>3 DEF ServerReply, IsServer
  <2>2. none \in Seq(Unit) /\ Refused(none)
    <3> DEFINE a == Message("Ack", "NoSuchResult", None)
    <3>1. /\ a \in Seq(Unit) /\ Len(a) = 2
          /\ \A i \in 1 .. 2 :
                a[i] = [kind |-> "Ack", part |-> i, status |-> "NoSuchResult", csv |-> None]
      BY MessageFacts
    <3> HIDE DEF a
    <3>2. <<>> \o a = a
      BY <3>1
    <3>3. Refused(a)
      BY <3>1 DEF Refused
    <3> QED BY <3>1, <3>2, <3>3, Zenon DEF a
  <2> HIDE DEF none
  <2>3. IsServer(ServerReply(s, m)) /\ ServerReply(s, m).phase = "eof"
        /\ ServerReply(s, m).out = none
    BY <2>1, <2>2 DEF IsServer
  <2> QED BY <2>2, <2>3, Zenon
<1> QED BY <1>2, <1>3, Zenon


\* An Ack on its way is the beginning of an answer.
LEMMA AckedIsReplied ==
    ASSUME NEW k, NEW s, IsServer(s), Acked(k, s)
    PROVE  Replied(k, s.out)
<1>1. PICK h \in {2, 3, 4} :
         /\ Len(s.out) = h - 2
         /\ \A i \in 1 .. Len(s.out) : s.out[i] = At(None, 0, i - h)
         /\ h > 2 => Sending(k) /\ Own(k, s.file)
  BY Zenon DEF Acked
<1>2. CASE h = 2
  <2>1. s.out \in Seq(Unit) /\ Len(s.out) = 0
    BY <1>1, <1>2 DEF IsServer
  <2>2. s.out = <<>>
    BY <2>1
  <2> QED BY <2>2, Zenon DEF Replied
<1>3. CASE h \in {3, 4}
  <2> DEFINE c == [file |-> s.file, version |-> 1]
  <2>1. c \in Csv /\ c.file = s.file
    <3>1. 1 \in Version
      BY ClientAssumption DEF Version
    <3> QED BY <3>1, Zenon DEF Csv, Acked
  <2>2. \A i \in Int : i < -1 => At(c, 0, i) = At(None, 0, i)
    BY DEF At
  <2> HIDE DEF c
  <2>3. Stretch(s.out, c, 0, h)
    <3> SUFFICES ASSUME NEW i \in 1 .. Len(s.out)
                 PROVE  s.out[i] = At(c, 0, i - h)
      BY DEF Stretch
    <3>1. i - h \in Int /\ i - h < -1
      BY <1>1, <1>3
    <3> QED BY <1>1, <2>2, <3>1, Zenon
  <2>4. Awaits(k, c, 0, 1 - h)
    BY <1>1, <1>3, <2>1 DEF Awaits
  <2>5. h \in Int /\ h <= 4 /\ 0 \in Nat
    BY <1>3
  <2> QED BY <2>1, <2>3, <2>4, <2>5, Zenon DEF Replied
<1> QED BY <1>2, <1>3

\* Whatever is sent when the server closes can be taken as an answer.
LEMMA EofIsReplied ==
    ASSUME NEW k, NEW s, IsServer(s), k.socket = "open", Line(k, s), Answer(k, s),
           s.phase \notin {"none", "reset"}
    PROVE  Replied(k, s.out)
<1>1. CASE s.phase \in {"header", "upload", "verify"}
  BY <1>1, Zenon DEF Line, Replied
<1>2. CASE s.phase = "analyzing"
  BY <1>2, AckedIsReplied, Zenon DEF Answer
<1>3. CASE s.phase \in {"sent", "eof"}
  BY <1>3 DEF Answer
<1> QED BY <1>1, <1>2, <1>3, Zenon DEF IsServer

\* The server after a message is one the worker's state agrees with.
LEMMA DeliveredIsGood ==
    ASSUME NEW w, NEW s, NEW u, NEW leaving, Good(w, s, u, leaving), IsServer(s),
           w.worker.socket = "open", w.worker.writes # <<>>,
           NEW v, IsWorld(v), v.events = w.events,
           SameHeld(w.worker, v.worker), SameStage(w.worker, v.worker),
           v.worker.socket = w.worker.socket, v.worker.quit = w.worker.quit,
           v.worker.timer = w.worker.timer
    PROVE  LET r == ServerGets(s, Head(w.worker.writes))
           IN  Good(v, r, u, leaving) /\ IsServer(r)
<1> DEFINE k == w.worker
           l == v.worker
           m == Head(k.writes)
           r == ServerGets(s, m)
<1>1. /\ IsWorld(w) /\ IsWorker(k) /\ Held(k) /\ Waits(k) /\ Line(k, s) /\ Answer(k, s)
      /\ Shown(k, w.events, u) /\ Session(k, w.events, u, leaving)
  BY Zenon DEF Good, Base, IsWorld
<1>2. m \in MessageSet
  BY <1>1, SMTT(30) DEF IsWorker
<1> HIDE DEF m
<1>3. /\ l.claim = k.claim /\ l.csv = k.csv /\ l.expecting = k.expecting /\ l.file = k.file
      /\ (Sending(l) <=> Sending(k)) /\ (\A f : Own(l, f) <=> Own(k, f))
  BY Zenon DEF SameHeld, SameStage, Sending, Own
<1>4. s.phase # "none"
  BY <1>1, Zenon DEF Line
<1>5. \/ /\ s.phase = "header" /\ m.kind = "header"
         /\ r = [s EXCEPT !.phase = "upload", !.file = m.file]
      \/ s.phase = "header" /\ m.kind = "request" /\ r = ServerReply(s, m)
      \/ s.phase = "upload" /\ r = s
      \/ s.phase = "upload" /\ r = [s EXCEPT !.phase = "verify"]
      \/ s.phase = "reset" /\ r = s
      \/ s.phase # "reset" /\ r = [s EXCEPT !.phase = "eof"]
  BY <1>4, Zenon DEF ServerGets
<1> HIDE DEF r
<1>6. /\ IsServer(r) /\ r.phase # "none"
      /\ r.phase \in {"header", "upload", "verify", "reset"} => r.out = <<>>
      /\ Answer(l, r)
  <2>1. CASE s.phase = "header" /\ m.kind = "header"
             /\ r = [s EXCEPT !.phase = "upload", !.file = m.file]
    <3>1. m.file \in File
      BY <1>2, <2>1 DEF MessageSet
    <3>2. r.phase = "upload" /\ r.file = m.file /\ r.out = <<>> /\ IsServer(r)
      BY <1>1, <2>1, <3>1 DEF IsServer, Line
    <3>3. Sending(k) /\ Own(k, m.file)
      BY <1>1, <2>1, Zenon DEF Answer, Unsent, m
    <3> QED BY <1>3, <3>1, <3>2, <3>3, Zenon DEF Answer
  <2>2. CASE s.phase = "header" /\ m.kind = "request" /\ r = ServerReply(s, m)
    <3>1. s.out = <<>>
      BY <1>1, <2>2, Zenon DEF Line
    <3>2. /\ IsServer(r)
          /\ \/ r.phase = "eof" /\ Refused(r.out)
             \/ r.phase = "sent"
                /\ \E c \in Csv : c.file = m.file /\ Stretch(r.out, c, m.offset, 2)
      BY <1>2, <2>2, <3>1, ReplyFacts, Zenon
    <3>3. k.claim # None => k.expecting = "ResumeReply" /\ m.file = k.claim /\ m.offset = Len(k.csv)
      BY <1>1, <2>2, Zenon DEF Answer, Unsent, m
    <3>4. k.expecting # "CsvPayload"
      BY <1>1, <3>3, Zenon DEF Waits
    <3>5. ASSUME NEW c \in Csv, c.file = m.file, Stretch(r.out, c, m.offset, 2)
          PROVE  Replied(l, r.out)
      <4>1. m.offset \in Nat
        BY <1>2, <2>2, Zenon DEF MessageSet
      <4>2. l.claim # None => m.offset = Len(l.csv) /\ Own(l, c.file)
        BY <1>1, <1>3, <3>3, <3>5, Zenon DEF Held, Own
      <4>3. Awaits(l, c, m.offset, 1 - 2)
        BY <1>3, <3>4, <4>2, SMTT(30) DEF Awaits
      <4>4. 2 \in Int /\ 2 <= 4
        OBVIOUS
      <4> QED BY <3>5, <4>1, <4>3, <4>4, Zenon DEF Replied
    <3>6. Replied(l, r.out)
      BY <1>3, <3>2, <3>4, <3>5, Zenon DEF Replied
    <3> QED BY <3>2, <3>6, Zenon DEF Answer
  <2>3. CASE s.phase = "upload" /\ r = s
    BY <1>1, <1>3, <2>3, Zenon DEF Answer, Line
  <2>4. CASE s.phase = "upload" /\ r = [s EXCEPT !.phase = "verify"]
    <3>1. r.phase = "verify" /\ r.out = <<>> /\ r.file = s.file /\ IsServer(r)
      BY <1>1, <2>4 DEF IsServer, Line
    <3> QED BY <1>1, <1>3, <2>4, <3>1 DEF Answer
  <2>5. CASE s.phase = "reset" /\ r = s
    BY <1>1, <2>5, Zenon DEF Answer, Line
  <2>6. CASE s.phase # "reset" /\ r = [s EXCEPT !.phase = "eof"]
    <3>1. r.phase = "eof" /\ r.out = s.out /\ IsServer(r)
      BY <2>6 DEF IsServer
    <3>2. Replied(k, s.out)
      BY <1>1, <1>4, <2>6, EofIsReplied
    <3>3. ASSUME NEW c, NEW b, NEW n, Awaits(k, c, b, n)
          PROVE  Awaits(l, c, b, n)
      BY <1>3, <3>3, Zenon DEF Awaits
    <3>4. Replied(l, s.out)
      BY <1>3, <3>2, <3>3, Zenon DEF Replied
    <3> QED BY <3>1, <3>4, Zenon DEF Answer
  <2> QED BY <1>5, <2>1, <2>2, <2>3, <2>4, <2>5, <2>6, Zenon
<1>7. Held(l) /\ Waits(l)
  BY <1>1, HeldOfAlike, WaitsOfAlike, Zenon
<1>8. Line(l, r) /\ Rest(l)
  BY <1>1, <1>6, Zenon DEF Line, Rest
<1>9. Shown(l, v.events, u) /\ Session(l, v.events, u, leaving)
  BY <1>1, Zenon DEF Shown, Session, Busy, SameHeld, SameStage
<1> QED BY <1>6, <1>7, <1>8, <1>9, Zenon DEF Good, Base, r, m

\* onSendComplete() with success and with an error.
LEMMA SendCompleteResult ==
    ASSUME NEW w, NEW s, NEW u, NEW leaving, Good(w, s, u, leaving), IsServer(s),
           w.worker.socket = "open", w.worker.writes # <<>>, NEW ok \in BOOLEAN
    PROVE  LET r == ServerGets(s, Head(w.worker.writes))
               v == PumpUpload(WriteEnds(w, 1), ok)
               e == OnError(WriteEnds(w, 1))
           IN  /\ Good(v, r, u, leaving) /\ IsServer(r) /\ v.worker.quit = w.worker.quit
               /\ Good(e, s, u, leaving) /\ e.worker.quit = w.worker.quit
<1> DEFINE k == w.worker
           x == WriteEnds(w, 1)
           r == ServerGets(s, Head(w.worker.writes))
<1>1. /\ IsWorld(w) /\ IsWorker(k) /\ Held(k) /\ Waits(k) /\ Line(k, s)
      /\ Shown(k, w.events, u) /\ Session(k, w.events, u, leaving)
  BY Zenon DEF Good, Base, IsWorld
<1>2. 1 \in Nat /\ 1 <= Len(k.writes)
  <2>1. k.writes \in Seq(MessageSet)
    BY <1>1, Zenon DEF IsWorker
  <2>2. Len(k.writes) \in Nat /\ Len(k.writes) # 0
    BY <2>1
  <2> QED BY <2>2, SMTT(30)
<1>3. /\ IsWorld(x) /\ x.events = w.events
      /\ SameHeld(k, x.worker) /\ SameStage(k, x.worker)
      /\ x.worker.socket = k.socket /\ x.worker.quit = k.quit
      /\ x.worker.timer = k.timer
  BY <1>1, <1>2, WriteEndsResult, Zenon
<1> HIDE DEF x
<1>4. Good(x, r, u, leaving) /\ IsServer(r)
  BY <1>3, DeliveredIsGood, Zenon
<1> HIDE DEF r
<1>5. LET v == PumpUpload(x, ok)
      IN  Good(v, r, u, leaving) /\ v.worker.quit = x.worker.quit
  BY <1>4, PumpIsGood, Zenon
<1>6. Held(x.worker) /\ Waits(x.worker)
  BY <1>1, <1>3, HeldOfAlike, WaitsOfAlike, Zenon
<1>7. Line(x.worker, s) /\ Shown(x.worker, x.events, u)
  BY <1>1, <1>3, Zenon DEF Line, Shown, SameHeld
<1>8. Session(x.worker, x.events, u, leaving)
  BY <1>1, <1>3, Zenon DEF Session, Busy, SameStage
<1>9. Base(x, s, u)
  BY <1>3, <1>6, <1>7, Zenon DEF Base
<1>10. LET e == OnError(x)
       IN  Good(e, s, u, leaving) /\ e.worker.quit = x.worker.quit
  BY <1>6, <1>8, <1>9, ErrorIsGood, Zenon
<1> QED BY <1>3, <1>4, <1>5, <1>10, Zenon DEF x, r

-----------------------------------------------------------------------------
(* The actions. *)

\* What a step installs is what its methods made.
LEMMA InstalledIsGood ==
    ASSUME NEW v, NEW s, NEW u, NEW leaving, Good(v, s, u, leaving)
    PROVE  Good([worker |-> v.worker, reader |-> v.reader, events |-> v.events], s, u, leaving)
<1> DEFINE x == [worker |-> v.worker, reader |-> v.reader, events |-> v.events]
<1>1. IsWorld(x) /\ x.worker = v.worker /\ x.events = v.events
  BY Zenon DEF Good, Base, IsWorld
<1> HIDE DEF x
<1>2. Alike(v.worker, x.worker)
  BY <1>1, Zenon DEF Alike, SameHeld, SameStage, SameLine
<1>3. Good(x, s, u, leaving)
  BY <1>1, <1>2, GoodOfAlike
<1> QED BY <1>3, Zenon DEF x

\* A pending Disconnect only excuses more.
LEMMA LeavingIsWeaker ==
    ASSUME NEW w, NEW s, NEW u, NEW old, NEW new, Good(w, s, u, old), old => new
    PROVE  Good(w, s, u, new)
BY Zenon DEF Good, Session

\* The same without a pending one.
LEMMA NoneLeaving ==
    ASSUME NEW w, NEW s, NEW u, NEW new, Good(w, s, u, FALSE)
    PROVE  Good(w, s, u, new)
BY Zenon DEF Good, Session

\* A command posted: the worker's part is the same for what the window shows.
LEMMA PostedIsGood ==
    ASSUME NEW w, NEW s, NEW u, NEW t, NEW old, NEW new, Good(w, s, u, old), old => new,
           t.link = u.link, t.claim = u.claim,
           t.session = u.session \/ (t.session = "Idle" /\ new /\ ~w.worker.quit)
    PROVE  Good(w, s, t, new)
<1> DEFINE k == w.worker
<1>1. Shown(k, w.events, u) /\ Session(k, w.events, u, old)
  BY Zenon DEF Good, Base
<1>2. Shown(k, w.events, t)
  BY <1>1, Zenon DEF Shown
<1>3. Session(k, w.events, t, new)
  <2>1. CASE t.session = u.session
    BY <1>1, <2>1, Zenon DEF Session
  <2>2. CASE t.session = "Idle" /\ new /\ ~k.quit
    <3>1. Seen(t.session, w.events.session) = Seen(u.session, w.events.session)
          \/ Seen(t.session, w.events.session) = "Idle"
      BY <2>2, Zenon DEF Seen
    <3> QED BY <1>1, <2>2, <3>1, Zenon DEF Session, IsBusy
  <2> QED BY <2>1, <2>2, Zenon
<1> QED BY <1>2, <1>3, Zenon DEF Good, Base

\* The queue with one more command.
LEMMA PostFacts ==
    ASSUME NEW cs \in Seq(Command), NEW c \in Command
    PROVE  LET ds == Append(cs, c)
           IN  /\ ds \in Seq(Command) /\ (Leaving(cs) => Leaving(ds))
               /\ c.kind = "Disconnect" => Leaving(ds)
               /\ Len(ds) = Len(cs) + 1 /\ Len(cs) \in Nat
               /\ \A i \in 1 .. Len(ds) :
                     (i = Len(ds) /\ ds[i] = c) \/ (i \in 1 .. Len(cs) /\ ds[i] = cs[i])
<1> DEFINE ds == Append(cs, c)
<1>1. /\ ds \in Seq(Command) /\ Len(ds) = Len(cs) + 1 /\ Len(cs) \in Nat
      /\ \A i \in 1 .. Len(cs) : ds[i] = cs[i]
      /\ ds[Len(cs) + 1] = c
  OBVIOUS
<1> HIDE DEF ds
<1>2. \A i \in 1 .. Len(cs) : i \in 1 .. Len(ds)
  BY <1>1
<1>3. Len(cs) + 1 \in 1 .. Len(ds)
  BY <1>1
<1>4. Leaving(cs) => Leaving(ds)
  BY <1>1, <1>2 DEF Leaving
<1>5. c.kind = "Disconnect" => Leaving(ds)
  BY <1>1, <1>3 DEF Leaving
<1>6. \A i \in 1 .. Len(ds) : i = Len(ds) \/ i \in 1 .. Len(cs)
  BY <1>1
<1> QED BY <1>1, <1>4, <1>5, <1>6, Zenon DEF ds

(* A button pressed in the window posts one command at most. *)
LEMMA ClickStep ==
    ASSUME IInv, NEW kind, NEW file, NEW session, Click(kind, file, session),
           [kind |-> kind, file |-> file] \in Command, kind # "Quit",
           session = ui.session \/ (kind = "Disconnect" /\ session = "Idle")
    PROVE  IInv'
<1> DEFINE cs == queue.commands
           c == [kind |-> kind, file |-> file]
           ds == Append(cs, c)
<1>1. /\ Good(World, server, ui, Leaving(cs)) /\ IsServer(server) /\ IsUi(ui) /\ IsQueue(queue)
      /\ Posted(worker, ui, cs) /\ cs \in Seq(Command) /\ c \in Command
  BY Zenon DEF IInv, IsQueue
<1>2. /\ ~ui.quit /\ ui' = [ui EXCEPT !.clicks = @ + 1, !.session = session]
      /\ queue' = [queue EXCEPT !.commands = ds, !.async = TRUE]
      /\ worker' = worker /\ reader' = reader /\ server' = server
  BY DEF Click
<1>3. c.kind = kind
  BY Zenon
<1> HIDE DEF c
<1>4. /\ ds \in Seq(Command) /\ (Leaving(cs) => Leaving(ds))
      /\ c.kind = "Disconnect" => Leaving(ds)
      /\ \A i \in 1 .. Len(ds) :
            (i = Len(ds) /\ ds[i] = c) \/ (i \in 1 .. Len(cs) /\ ds[i] = cs[i])
  BY <1>1, PostFacts, Zenon
<1> HIDE DEF ds
<1>5. /\ IsQueue(queue') /\ queue'.commands = ds /\ queue'.events = queue.events
  BY <1>1, <1>2, <1>4 DEF IsQueue
<1>6. session \in SessionState
  BY <1>1, Zenon DEF IsUi, SessionState
<1>7. /\ IsUi(ui') /\ ui'.link = ui.link /\ ui'.claim = ui.claim /\ ui'.session = session
      /\ ui'.quit = ui.quit
  BY <1>1, <1>2, <1>6 DEF IsUi
<1>8. ~worker.quit
  BY <1>1, <1>2 DEF Posted
<1>9. World' = World /\ World.worker = worker
  BY <1>2, <1>5 DEF World
<1>10. Good(World, server, ui', Leaving(ds))
  BY <1>1, <1>3, <1>4, <1>7, <1>8, <1>9, PostedIsGood, SMTT(30)
<1>11. Posted(worker, ui', ds)
  <2>1. ASSUME NEW i \in 1 .. Len(ds), ds[i].kind = "Quit"
        PROVE  FALSE
    BY <1>1, <1>2, <1>3, <1>4, <2>1 DEF Posted
  <2> QED BY <1>8, <2>1, Zenon DEF Posted
<1> QED BY <1>1, <1>2, <1>5, <1>7, <1>9, <1>10, <1>11 DEF IInv


(* Closing the window posts Quit, the last command. *)
LEMMA CloseWindowStep ==
    ASSUME IInv, CloseWindow
    PROVE  IInv'
<1> DEFINE cs == queue.commands
           c == [kind |-> "Quit", file |-> None]
           ds == Append(cs, c)
<1>1. /\ Good(World, server, ui, Leaving(cs)) /\ IsServer(server) /\ IsUi(ui) /\ IsQueue(queue)
      /\ Posted(worker, ui, cs) /\ cs \in Seq(Command)
  BY Zenon DEF IInv, IsQueue
<1>2. c \in Command /\ c.kind = "Quit"
  BY Zenon DEF Command
<1>3. /\ ~ui.quit /\ ui' = [ui EXCEPT !.quit = TRUE]
      /\ queue' = [queue EXCEPT !.commands = ds, !.async = TRUE]
      /\ worker' = worker /\ reader' = reader /\ server' = server
  BY DEF CloseWindow
<1> HIDE DEF c
<1>4. /\ ds \in Seq(Command) /\ (Leaving(cs) => Leaving(ds))
      /\ \A i \in 1 .. Len(ds) :
            (i = Len(ds) /\ ds[i] = c) \/ (i \in 1 .. Len(cs) /\ ds[i] = cs[i])
  BY <1>1, <1>2, PostFacts, Zenon
<1> HIDE DEF ds
<1>5. /\ IsQueue(queue') /\ queue'.commands = ds /\ queue'.events = queue.events
  BY <1>1, <1>3, <1>4 DEF IsQueue
<1>6. /\ IsUi(ui') /\ ui'.link = ui.link /\ ui'.claim = ui.claim /\ ui'.session = ui.session
      /\ ui'.quit
  BY <1>1, <1>3 DEF IsUi
<1>7. ~worker.quit
  BY <1>1, <1>3 DEF Posted
<1>8. World' = World
  BY <1>3, <1>5 DEF World
<1>9. Good(World, server, ui', Leaving(ds))
  BY <1>1, <1>4, <1>6, PostedIsGood, SMTT(30)
<1>10. Posted(worker, ui', ds)
  <2>1. ASSUME NEW i \in 1 .. Len(ds), ds[i].kind = "Quit"
        PROVE  i = Len(ds)
    BY <1>1, <1>3, <1>4, <2>1, Zenon DEF Posted
  <2> QED BY <1>6, <1>7, <2>1, Zenon DEF Posted
<1> QED BY <1>1, <1>3, <1>5, <1>6, <1>8, <1>9, <1>10 DEF IInv

(* The window takes the pending events: it then shows them. *)
LEMMA PumpWorkerEventsStep ==
    ASSUME IInv, PumpWorkerEvents
    PROVE  IInv'
<1> DEFINE cs == queue.commands
           e == queue.events
           k == worker
<1>1. /\ Good(World, server, ui, Leaving(cs)) /\ IsServer(server) /\ IsUi(ui) /\ IsQueue(queue)
      /\ Posted(worker, ui, cs) /\ IsEvents(e)
  BY Zenon DEF IInv, IsQueue
<1>2. /\ ~ui.quit /\ ui' = [ui EXCEPT !.link = Seen(ui.link, e.link),
                                      !.session = Seen(ui.session, e.session),
                                      !.claim = Seen(ui.claim, e.claim)]
      /\ queue' = [queue EXCEPT !.events = NoEvents]
      /\ worker' = worker /\ reader' = reader /\ server' = server
  BY DEF PumpWorkerEvents, Seen
<1>3. IsEvents(NoEvents)
  BY Zenon DEF IsEvents, NoEvents
<1>4. IsQueue(queue') /\ queue'.commands = cs /\ queue'.events = NoEvents
  BY <1>1, <1>2, <1>3 DEF IsQueue
<1>5. Seen(ui.link, e.link) \in LinkState /\ Seen(ui.session, e.session) \in SessionState
      /\ Seen(ui.claim, e.claim) \in BOOLEAN
  BY <1>1, Zenon DEF Seen, IsEvents, IsUi
<1>6. /\ IsUi(ui') /\ ui'.link = Seen(ui.link, e.link)
      /\ ui'.session = Seen(ui.session, e.session)
      /\ ui'.claim = Seen(ui.claim, e.claim) /\ ui'.quit = ui.quit
  BY <1>1, <1>2, <1>5 DEF IsUi
<1>7. \A old : Seen(old, NoEvents.link) = old /\ Seen(old, NoEvents.session) = old
              /\ Seen(old, NoEvents.claim) = old
  BY Zenon DEF Seen, NoEvents
<1>8. ~k.quit
  BY <1>1, <1>2 DEF Posted
<1> DEFINE w == World
           v == [worker |-> worker, reader |-> reader, events |-> NoEvents]
<1>9. /\ IsWorld(w) /\ w.worker = k /\ w.events = e /\ w.reader = reader
      /\ World' = v /\ v.worker = k /\ v.events = NoEvents /\ v.reader = reader
      /\ DOMAIN v = {"worker", "reader", "events"}
  BY <1>1, <1>2, <1>4, Zenon DEF World, Good, Base
<1> HIDE DEF w, v
<1>10. IsWorld(v)
  BY <1>3, <1>9, Zenon DEF IsWorld
<1>11. /\ Held(k) /\ Waits(k) /\ Line(k, server) /\ Rest(k) /\ Answer(k, server)
       /\ Shown(k, e, ui) /\ Session(k, e, ui, Leaving(cs))
  BY <1>1, <1>9, Zenon DEF Good, Base, w
<1>12. Shown(k, NoEvents, ui')
  BY <1>6, <1>7, <1>11, Zenon DEF Shown
<1>13. Session(k, NoEvents, ui', Leaving(cs))
  BY <1>6, <1>7, <1>8, <1>11, Zenon DEF Session
<1>14. Good(v, server, ui', Leaving(cs))
  BY <1>9, <1>10, <1>11, <1>12, <1>13, Zenon DEF Good, Base
<1>15. Posted(worker, ui', cs)
  BY <1>1, <1>6, Zenon DEF Posted
<1> QED BY <1>1, <1>2, <1>4, <1>6, <1>9, <1>14, <1>15, Zenon DEF IInv

\* A callback that installs a good world and takes no command.
LEMMA InstallStep ==
    ASSUME IInv, NEW v, Good(v, server', ui, Leaving(queue.commands)), IsServer(server'),
           v.worker.quit = worker.quit, Install(v), ui' = ui
    PROVE  IInv'
<1> DEFINE cs == queue.commands
<1>1. IsUi(ui) /\ IsQueue(queue) /\ Posted(worker, ui, cs)
  BY Zenon DEF IInv
<1>2. worker' = v.worker /\ reader' = v.reader /\ queue' = [queue EXCEPT !.events = v.events]
  BY DEF Install
<1>3. IsEvents(v.events)
  BY Zenon DEF Good, Base, IsWorld
<1>4. IsQueue(queue') /\ queue'.commands = cs /\ queue'.events = v.events
  BY <1>1, <1>2, <1>3 DEF IsQueue
<1>5. World' = [worker |-> v.worker, reader |-> v.reader, events |-> v.events]
  BY <1>2, <1>4 DEF World
<1>6. Good(World', server', ui, Leaving(cs))
  BY <1>5, InstalledIsGood, Zenon
<1>7. Posted(worker', ui, cs)
  BY <1>1, <1>2 DEF Posted
<1> QED BY <1>1, <1>4, <1>6, <1>7, Zenon DEF IInv

\* A step of the loop that moves only the pc or takes the signal.
LEMMA PcStep ==
    ASSUME IInv, NEW pc, worker' = [worker EXCEPT !.pc = pc], IsQueue(queue'),
           queue'.commands = queue.commands, queue'.events = queue.events,
           UNCHANGED <<ui, reader, server>>
    PROVE  IInv'
<1> DEFINE w == World
           v == [worker |-> worker', reader |-> reader, events |-> queue.events]
<1>1. /\ Good(w, server, ui, Leaving(queue.commands)) /\ IsServer(server) /\ IsUi(ui)
      /\ Posted(worker, ui, queue.commands)
  BY DEF IInv
<1>2. IsWorker(worker) /\ IsReader(reader) /\ IsEvents(queue.events)
      /\ w.worker = worker /\ w.events = queue.events
  BY <1>1, Zenon DEF Good, Base, IsWorld, World
<1>3. IsWorker(worker') /\ Alike(worker, worker')
  BY <1>2 DEF IsWorker, Alike, SameHeld, SameStage, SameLine
<1>4. IsWorld(v) /\ v.worker = worker' /\ v.events = queue.events /\ World' = v
  BY <1>2, <1>3 DEF IsWorld, World
<1> HIDE DEF v, w
<1>5. Good(v, server, ui, Leaving(queue.commands))
  BY <1>1, <1>2, <1>3, <1>4, GoodOfAlike
<1>6. Posted(worker', ui, queue.commands)
  BY <1>1, <1>3 DEF Posted, Alike, SameLine
<1> QED BY <1>1, <1>4, <1>5, <1>6 DEF IInv

(* The async handle fires. *)
LEMMA OnAsyncStep ==
    ASSUME IInv, OnAsync
    PROVE  IInv'
<1>1. queue' = [queue EXCEPT !.async = FALSE] /\ worker' = [worker EXCEPT !.pc = "drain"]
      /\ UNCHANGED <<ui, reader, server>> /\ IsQueue(queue)
  BY DEF OnAsync, IInv
<1>2. IsQueue(queue') /\ queue'.commands = queue.commands /\ queue'.events = queue.events
  BY <1>1 DEF IsQueue
<1> QED BY <1>1, <1>2, PcStep, Zenon

(* The loop ends. *)
LEMMA LoopEndsStep ==
    ASSUME IInv, LoopEnds
    PROVE  IInv'
<1>1. worker' = [worker EXCEPT !.pc = "ended"] /\ queue' = queue
      /\ UNCHANGED <<ui, reader, server>> /\ IsQueue(queue)
  BY DEF LoopEnds, IInv
<1>2. IsQueue(queue') /\ queue'.commands = queue.commands /\ queue'.events = queue.events
  BY <1>1
<1> QED BY <1>1, <1>2, PcStep


(* One command of the queue is handled. *)
LEMMA DrainCommandStep ==
    ASSUME IInv, DrainCommand
    PROVE  IInv'
<1> DEFINE cs == queue.commands
           c == Head(cs)
           ds == Tail(cs)
<1>1. /\ Good(World, server, ui, Leaving(cs)) /\ IsServer(server) /\ IsUi(ui) /\ IsQueue(queue)
      /\ Posted(worker, ui, cs) /\ cs \in Seq(Command) /\ cs # <<>>
  BY DEF IInv, IsQueue, DrainCommand
<1>2. PICK opened \in BOOLEAN, ok \in BOOLEAN :
         LET w == Handle(World, c, opened, ok)
         IN  /\ worker' = w.worker
             /\ reader' = w.reader
             /\ queue' = [queue EXCEPT !.commands = ds, !.events = w.events]
  BY Zenon DEF DrainCommand
<1> DEFINE v == Handle(World, c, opened, ok)
<1>3. worker' = v.worker /\ reader' = v.reader
      /\ queue' = [queue EXCEPT !.commands = ds, !.events = v.events]
      /\ ui' = ui /\ server' = server
  BY <1>2 DEF DrainCommand
<1>4. /\ ds \in Seq(Command) /\ Len(ds) = Len(cs) - 1 /\ Len(cs) \in Nat /\ Len(cs) > 0
      /\ c = cs[1] /\ c \in Command
      /\ \A i \in 1 .. Len(ds) : ds[i] = cs[i + 1] /\ i + 1 \in 1 .. Len(cs)
  BY <1>1, TailFacts, Zenon
<1> HIDE DEF c, ds
<1>5. ~worker.quit /\ World.worker = worker
  BY <1>1, Zenon DEF Posted, World
<1>6. /\ c.kind \notin {"Disconnect", "Quit"} => Good(v, server, ui, Leaving(cs))
      /\ c.kind \in {"Disconnect", "Quit"} => Good(v, server, ui, FALSE)
      /\ c.kind # "Quit" => ~v.worker.quit
  <2> HIDE DEF v
  <2>1. ~World.worker.quit
    BY <1>5
  <2> QED BY <1>1, <1>4, <2>1, HandleIsGood, Zenon DEF v
<1> HIDE DEF v
<1>7. c.kind # "Disconnect" => (Leaving(cs) => Leaving(ds))
  <2> SUFFICES ASSUME c.kind # "Disconnect", NEW i \in 1 .. Len(cs), cs[i].kind = "Disconnect"
               PROVE  Leaving(ds)
    BY Zenon DEF Leaving
  <2>1. i # 1
    BY <1>4, Zenon
  <2>2. i - 1 \in 1 .. Len(ds) /\ (i - 1) + 1 = i
    BY <1>4, <2>1
  <2>3. ds[i - 1] = cs[i]
    BY <1>4, <2>2, Zenon
  <2> QED BY <2>2, <2>3, Zenon DEF Leaving
<1>8. Good(v, server, ui, Leaving(ds))
  <2>1. CASE c.kind \in {"Disconnect", "Quit"}
    BY <1>6, <2>1, NoneLeaving, Zenon
  <2>2. CASE c.kind \notin {"Disconnect", "Quit"}
    BY <1>6, <1>7, <2>2, LeavingIsWeaker
  <2> QED BY <2>1, <2>2, Zenon
<1>9. IsEvents(v.events)
  BY <1>8, Zenon DEF Good, Base, IsWorld
<1>10. IsQueue(queue') /\ queue'.commands = ds /\ queue'.events = v.events
  BY <1>1, <1>3, <1>4, <1>9 DEF IsQueue
<1>11. World' = [worker |-> v.worker, reader |-> v.reader, events |-> v.events]
  BY <1>3, <1>10 DEF World
<1>12. Good(World', server, ui, Leaving(ds))
  BY <1>8, <1>11, InstalledIsGood, Zenon
<1>13. Posted(worker', ui, ds)
  <2>1. ASSUME NEW i \in 1 .. Len(ds), ds[i].kind = "Quit"
        PROVE  i = Len(ds) /\ ui.quit
    <3>1. cs[i + 1].kind = "Quit" /\ i + 1 \in 1 .. Len(cs)
      BY <1>4, <2>1, Zenon
    <3>2. i + 1 = Len(cs) /\ ui.quit
      BY <1>1, <3>1, Zenon DEF Posted
    <3> QED BY <1>4, <3>2
  <2>2. ASSUME worker'.quit
        PROVE  ds = <<>> /\ ui.quit
    <3>1. c.kind = "Quit"
      BY <1>3, <1>6, <2>2
    <3>2. 1 \in 1 .. Len(cs)
      BY <1>4
    <3>3. 1 = Len(cs) /\ ui.quit
      BY <1>1, <1>4, <3>1, <3>2, Zenon DEF Posted
    <3>4. Len(ds) = 0
      BY <1>4, <3>3
    <3>5. ds = <<>>
      BY <1>4, <3>4
    <3> QED BY <3>3, <3>5
  <2> QED BY <2>1, <2>2, Zenon DEF Posted
<1> QED BY <1>1, <1>3, <1>10, <1>12, <1>13 DEF IInv

(* The queue is empty, the loop goes on. *)
LEMMA DrainEndStep ==
    ASSUME IInv, DrainEnd
    PROVE  IInv'
<1>1. Good(World, server, ui, Leaving(queue.commands)) /\ IsServer(server) /\ World.worker = worker
  BY Zenon DEF IInv, World
<1>2. PICK ok \in BOOLEAN : Install([PumpUpload(World, ok) EXCEPT !.worker.pc = "poll"])
  BY DEF DrainEnd
<1> DEFINE x == PumpUpload(World, ok)
           l == [x.worker EXCEPT !.pc = "poll"]
           v == [x EXCEPT !.worker = l]
<1>3. Good(x, server, ui, Leaving(queue.commands)) /\ x.worker.quit = worker.quit
  BY <1>1, PumpIsGood, Zenon
<1> HIDE DEF x
<1>4. IsWorld(x) /\ IsWorker(x.worker)
  BY <1>3, Zenon DEF Good, Base, IsWorld
<1>5. [x EXCEPT !.worker.pc = "poll"] = v
  BY <1>4 DEF IsWorld
<1>6. IsWorker(l) /\ Alike(x.worker, l)
  BY <1>4, Zenon DEF IsWorker, Alike, SameHeld, SameStage, SameLine
<1> HIDE DEF l
<1>7. IsWorld(v) /\ v.worker = l /\ v.events = x.events
  BY <1>4, <1>6, WorkerResult
<1>8. Install(v)
  BY <1>2, <1>5 DEF x
<1> HIDE DEF v
<1>9. Good(v, server, ui, Leaving(queue.commands))
  BY <1>3, <1>6, <1>7, GoodOfAlike, Zenon
<1>10. v.worker.quit = worker.quit
  BY <1>3, <1>6, <1>7, Zenon DEF Alike, SameLine
<1>11. ui' = ui /\ server' = server
  BY DEF DrainEnd
<1>12. Good(v, server', ui, Leaving(queue.commands)) /\ IsServer(server')
  BY <1>1, <1>9, <1>11, Zenon
<1> QED BY <1>8, <1>10, <1>11, <1>12, InstallStep, Zenon

(* The connect callback, with or without success. *)
LEMMA OnConnectStep ==
    ASSUME IInv, OnConnect
    PROVE  IInv'
<1> DEFINE leaving == Leaving(queue.commands)
           untimed == [World EXCEPT !.worker.timer = FALSE]
           connected == PushLink([untimed EXCEPT !.worker.socket = "open"], "Connected")
           refused == CloseSocket(PushLink(untimed, "Disconnected"))
           r == [server EXCEPT !.phase = "header", !.out = <<>>]
<1>1. /\ Good(World, server, ui, leaving) /\ IsServer(server) /\ World.worker = worker
      /\ World.worker.socket = "connecting" /\ ui' = ui
  BY DEF IInv, World, OnConnect
<1>2. /\ Good(refused, server, ui, leaving) /\ refused.worker.quit = World.worker.quit
      /\ Good(connected, r, ui, leaving) /\ connected.worker.quit = World.worker.quit
      /\ Good(CloseSocket(connected), r, ui, leaving)
      /\ CloseSocket(connected).worker.quit = World.worker.quit
  BY <1>1, ConnectResult, Zenon
<1>3. \/ Install(refused) /\ server' = server
      \/ (Install(connected) \/ Install(CloseSocket(connected))) /\ server' = r
  BY DEF OnConnect
<1> HIDE DEF untimed, connected, refused
<1>4. IsServer(r)
  BY <1>1 DEF IsServer
<1> HIDE DEF r
<1>5. CASE Install(refused) /\ server' = server
  BY <1>1, <1>2, <1>5, InstallStep, Zenon
<1>6. CASE Install(connected) /\ server' = r
  BY <1>1, <1>2, <1>4, <1>6, InstallStep, Zenon
<1>7. CASE Install(CloseSocket(connected)) /\ server' = r
  BY <1>1, <1>2, <1>4, <1>7, InstallStep, Zenon
<1> QED BY <1>3, <1>5, <1>6, <1>7, Zenon

(* The connect timer fires. *)
LEMMA OnConnectTimeoutStep ==
    ASSUME IInv, OnConnectTimeout
    PROVE  IInv'
<1> DEFINE leaving == Leaving(queue.commands)
           fired == [World EXCEPT !.worker.timer = FALSE]
           v == PushSession(CloseSocket(PushLink(fired, "Disconnected")), "Idle")
<1>1. /\ Good(World, server, ui, leaving) /\ IsServer(server) /\ World.worker = worker
      /\ World.worker.timer /\ ui' = ui /\ server' = server
  BY DEF IInv, World, OnConnectTimeout
<1>2. /\ SocketUsable(fired) => Good(v, server, ui, leaving) /\ v.worker.quit = World.worker.quit
      /\ ~SocketUsable(fired) =>
            Good(fired, server, ui, leaving) /\ fired.worker.quit = World.worker.quit
  BY <1>1, TimeoutResult, Zenon
<1>3. Install(IF SocketUsable(fired) THEN v ELSE fired)
  BY DEF OnConnectTimeout
<1> HIDE DEF fired, v
<1>4. CASE SocketUsable(fired)
  BY <1>1, <1>2, <1>3, <1>4, InstallStep, Zenon
<1>5. CASE ~SocketUsable(fired)
  BY <1>1, <1>2, <1>3, <1>5, InstallStep, Zenon
<1> QED BY <1>4, <1>5

(* The callback of the first pending write; the server has got the message, or not. *)
LEMMA OnSendCompleteStep ==
    ASSUME IInv, OnSendComplete
    PROVE  IInv'
<1> DEFINE leaving == Leaving(queue.commands)
           r == ServerGets(server, Head(worker.writes))
           e == OnError(WriteEnds(World, 1))
           v(ok) == PumpUpload(WriteEnds(World, 1), ok)
<1>1. /\ Good(World, server, ui, leaving) /\ IsServer(server) /\ World.worker = worker
      /\ World.worker.socket = "open" /\ World.worker.writes # <<>> /\ ui' = ui
  BY Zenon DEF IInv, World, OnSendComplete
<1>2. ASSUME NEW ok \in BOOLEAN
      PROVE  /\ Good(v(ok), r, ui, leaving) /\ IsServer(r) /\ v(ok).worker.quit = worker.quit
             /\ Good(e, server, ui, leaving) /\ e.worker.quit = worker.quit
  BY <1>1, <1>2, SendCompleteResult, Zenon
<1>3. \/ \E ok \in BOOLEAN : Install(v(ok)) /\ server' = r
      \/ Install(e) /\ server' = server
  BY Zenon DEF OnSendComplete
<1> HIDE DEF v, e, r
<1>4. ASSUME NEW ok \in BOOLEAN, Install(v(ok)), server' = r
      PROVE  IInv'
  BY <1>1, <1>2, <1>4, InstallStep, Zenon
<1>5. CASE Install(e) /\ server' = server
  <2>1. \E ok \in BOOLEAN : TRUE
    BY Zenon
  <2>2. Good(e, server, ui, leaving) /\ e.worker.quit = worker.quit
    BY <1>2, <2>1, Zenon
  <2> QED BY <1>1, <1>5, <2>2, InstallStep, Zenon
<1> QED BY <1>3, <1>4, <1>5, Zenon

(* The read callback with the next unit. *)
LEMMA OnReadStep ==
    ASSUME IInv, OnRead
    PROVE  IInv'
<1> DEFINE leaving == Leaving(queue.commands)
           r == [server EXCEPT !.out = Tail(@)]
           v(ok) == OnBytes(World, Head(server.out), ok)
<1>1. /\ Good(World, server, ui, leaving) /\ IsServer(server) /\ World.worker = worker
      /\ World.worker.socket = "open" /\ server.out # <<>> /\ ui' = ui /\ server' = r
  BY Zenon DEF IInv, World, OnRead
<1>2. PICK ok \in BOOLEAN : Install(v(ok))
  BY DEF OnRead
<1>3. Good(v(ok), r, ui, leaving) /\ v(ok).worker.quit = worker.quit
  BY <1>1, BytesIsGood, Zenon
<1>4. IsServer(r)
  <2>1. server.out \in Seq(Unit)
    BY <1>1 DEF IsServer
  <2>2. Tail(server.out) \in Seq(Unit)
    BY <1>1, <2>1
  <2> QED BY <1>1, <2>2, Zenon DEF IsServer
<1> HIDE DEF v, r
<1> QED BY <1>1, <1>2, <1>3, <1>4, InstallStep, Zenon

(* The read callback with an error or the end of the stream. *)
LEMMA OnReadErrorStep ==
    ASSUME IInv, OnReadError
    PROVE  IInv'
<1> DEFINE leaving == Leaving(queue.commands)
           e == OnError(World)
<1>1. /\ Good(World, server, ui, leaving) /\ IsServer(server) /\ World.worker = worker
      /\ ui' = ui /\ server' = server /\ Install(e)
  BY Zenon DEF IInv, World, OnReadError
<1>2. Good(e, server, ui, leaving) /\ e.worker.quit = World.worker.quit
  BY <1>1, ErrorIsGood, Zenon DEF Good
<1> HIDE DEF e
<1> QED BY <1>1, <1>2, InstallStep, Zenon

(* The close callback. *)
LEMMA OnClosedStep ==
    ASSUME IInv, OnClosed
    PROVE  IInv'
<1> DEFINE leaving == Leaving(queue.commands)
           cancelled == IF World.worker.writes = <<>> THEN World
                        ELSE OnError(WriteEnds(World, Len(World.worker.writes)))
           v == PushLink([cancelled EXCEPT !.worker.socket = "none"], "Disconnected")
           r == [server EXCEPT !.phase = "none", !.file = None, !.out = <<>>]
<1>1. /\ Good(World, server, ui, leaving) /\ IsServer(server) /\ World.worker = worker
      /\ World.worker.socket = "closing" /\ ui' = ui /\ server' = r
  BY DEF IInv, World, OnClosed
<1>2. Install(v)
  <2>1. worker = World.worker
    BY Zenon DEF World
  <2> QED BY <2>1, Zenon DEF OnClosed
<1>3. Good(v, r, ui, leaving) /\ v.worker.quit = World.worker.quit
  BY <1>1, ClosedResult, Zenon
<1>4. IsServer(r)
  BY <1>1 DEF IsServer
<1> HIDE DEF v, r
<1> QED BY <1>1, <1>2, <1>3, <1>4, InstallStep, Zenon


\* A step of the server alone.
LEMMA ServerKeeps ==
    ASSUME IInv, IsServer(server'), Line(worker, server'), Answer(worker, server'),
           UNCHANGED <<ui, queue, worker, reader>>
    PROVE  IInv'
<1>1. World' = World /\ World.worker = worker
  BY Zenon DEF World
<1>2. Good(World, server, ui, Leaving(queue.commands)) /\ IsUi(ui) /\ IsQueue(queue)
      /\ Posted(worker, ui, queue.commands)
  BY Zenon DEF IInv
<1>3. Good(World, server', ui, Leaving(queue.commands))
  BY <1>1, <1>2, Zenon DEF Good, Base
<1> QED BY <1>1, <1>2, <1>3, Zenon DEF IInv

\* What the invariant says of the worker and the server.
LEMMA ServerContext ==
    ASSUME IInv
    PROVE  IsServer(server) /\ IsWorker(worker) /\ Waits(worker) /\ Line(worker, server)
           /\ Answer(worker, server)
<1>1. World.worker = worker
  BY Zenon DEF World
<1> QED BY <1>1, Zenon DEF IInv, Good, Base, IsWorld

(* The server's verdict on an upload. *)
LEMMA ServerAcksStep ==
    ASSUME IInv, ServerAcks
    PROVE  IInv'
<1> DEFINE k == worker
           s == server
<1>1. IsServer(s) /\ IsWorker(k) /\ Waits(k) /\ Line(k, s) /\ Answer(k, s)
  BY ServerContext, Zenon
<1>2. PICK status \in {"Ok", "CrcMismatch"} :
         server' = [s EXCEPT !.out = @ \o Message("Ack", status, None),
                             !.phase = IF status = "Ok" THEN "analyzing" ELSE "eof"]
  BY Zenon DEF ServerAcks
<1> DEFINE m == Message("Ack", status, None)
<1>3. s.phase = "verify" /\ s.out = <<>> /\ s.file \in File /\ k.socket \in {"open", "closing"}
  BY <1>1, Zenon DEF ServerAcks, Line, IsWorker, IsServer
<1>4. /\ m \in Seq(Unit) /\ Len(m) = 2
      /\ \A i \in 1 .. 2 : m[i] = [kind |-> "Ack", part |-> i, status |-> status, csv |-> None]
  BY MessageFacts, SMTT(30)
<1>5. <<>> \o m = m
  <2> HIDE DEF m
  <2> QED BY <1>4, SMTT(30)
<1>6. /\ server'.out = m /\ server'.file = s.file /\ IsServer(server')
      /\ status = "Ok" => server'.phase = "analyzing"
      /\ status # "Ok" => server'.phase = "eof"
  <2> HIDE DEF m
  <2>1. server' = [s EXCEPT !.out = m, !.phase = IF status = "Ok" THEN "analyzing" ELSE "eof"]
    BY <1>2, <1>3, <1>5 DEF m
  <2> QED BY <1>1, <1>3, <1>4, <2>1 DEF IsServer
<1> HIDE DEF m
<1>7. Line(k, server')
  BY <1>1, <1>3, <1>6, Zenon DEF Line
<1>8. ASSUME k.socket \in {"connecting", "open"}
      PROVE  Sending(k) /\ Own(k, s.file) /\ k.expecting # "CsvPayload"
  BY <1>1, <1>3, <1>8, Zenon DEF Answer, Sending, Waits
<1>9. Answer(k, server')
  <2>1. ASSUME k.socket \in {"connecting", "open"}, status = "Ok"
        PROVE  Acked(k, server')
    <3>1. m[1] = At(None, 0, 1 - 4) /\ m[2] = At(None, 0, 2 - 4)
      BY <1>4, <2>1 DEF At
    <3>2. \A i \in 1 .. Len(m) : m[i] = At(None, 0, i - 4)
      BY <1>4, <3>1, SMTT(30)
    <3>3. Len(m) = 4 - 2 /\ 4 \in {2, 3, 4}
      BY <1>4, SMTT(30)
    <3> QED BY <1>3, <1>6, <1>8, <2>1, <3>2, <3>3, SMTT(30) DEF Acked
  <2>2. ASSUME k.socket \in {"connecting", "open"}, status # "Ok"
        PROVE  Replied(k, server'.out)
    <3>1. Refused(m)
      BY <1>4, <2>2, SMTT(30) DEF Refused
    <3> QED BY <1>6, <1>8, <2>2, <3>1, Zenon DEF Replied
  <2> QED BY <1>6, <2>1, <2>2, Zenon DEF Answer
<1> QED BY <1>6, <1>7, <1>9, ServerKeeps DEF ServerAcks

(* The server sends the result of the upload it has acknowledged. *)
LEMMA ServerAnalyzesStep ==
    ASSUME IInv, ServerAnalyzes
    PROVE  IInv'
<1> DEFINE k == worker
           s == server
<1>1. IsServer(s) /\ IsWorker(k) /\ Waits(k) /\ Line(k, s) /\ Answer(k, s)
  BY ServerContext
<1>2. PICK version \in Version :
         LET csv == [file |-> s.file, version |-> version]
         IN  server' = [s EXCEPT !.phase = "sent", !.retained = csv,
                           !.out = @ \o Message("ResultHeader", None, csv) \o Whole(csv)]
  BY Zenon DEF ServerAnalyzes
<1> DEFINE c == [file |-> s.file, version |-> version]
           m == Message("ResultHeader", None, c)
           all == s.out \o m \o Whole(c)
<1>3. s.phase = "analyzing" /\ s.file \in File /\ k.socket \in {"open", "closing"}
  BY <1>1 DEF ServerAnalyzes, Line, IsWorker, IsServer
<1>4. c \in Csv /\ c.file = s.file
  BY <1>3, Zenon DEF Csv
<1>5. server' = [s EXCEPT !.phase = "sent", !.retained = c, !.out = all]
  BY <1>2
<1>6. \A i \in Int : i < -1 => At(c, 0, i) = At(None, 0, i)
  BY SMTT(30) DEF At
<1> HIDE DEF c
<1>7. /\ Whole(c) \in Seq(Unit) /\ Len(Whole(c)) = CsvSize[c.version]
      /\ \A i \in 1 .. CsvSize[c.version] : Whole(c)[i] = At(c, 0, i)
  BY <1>4, WholeFacts, Zenon
<1>8. all \in Seq(Unit)
  <2>1. m \in Seq(Unit) /\ s.out \in Seq(Unit)
    BY <1>1, <1>4, MessageFacts, Zenon DEF IsServer
  <2> HIDE DEF m
  <2>2. s.out \o m \in Seq(Unit)
    BY <2>1, ConcatFacts, Zenon
  <2> QED BY <1>7, <2>2, ConcatFacts, Zenon
<1>9. IsServer(server') /\ server'.phase = "sent" /\ server'.out = all
  <2> HIDE DEF all
  <2> QED BY <1>1, <1>4, <1>5, <1>8 DEF IsServer
<1>10. Line(k, server')
  BY <1>1, <1>3, <1>9, Zenon DEF Line
<1>11. ASSUME k.socket \in {"connecting", "open"}
       PROVE  Replied(k, all)
  <2>1. Acked(k, s)
    BY <1>1, <1>3, <1>11, Zenon DEF Answer
  <2>2. PICK h \in {2, 3, 4} :
          /\ Len(s.out) = h - 2
          /\ \A i \in 1 .. Len(s.out) : s.out[i] = At(None, 0, i - h)
          /\ h > 2 => Sending(k) /\ Own(k, s.file)
          /\ h = 2 /\ k.claim # None =>
                k.expecting # "CsvPayload" /\ k.csv = <<>> /\ Own(k, s.file)
    BY <2>1, Zenon DEF Acked
  <2>3. \A i \in 1 .. Len(s.out) : s.out[i] = At(c, 0, i - h)
    <3> SUFFICES ASSUME NEW i \in 1 .. Len(s.out)
                 PROVE  s.out[i] = At(c, 0, i - h)
      BY Zenon
    <3>1. i - h \in Int /\ i - h < -1
      BY <2>2
    <3> QED BY <1>6, <2>2, <3>1, Zenon
  <2>4. Stretch(all, c, 0, h)
    <3>1. s.out \in Seq(Unit) /\ 0 \in Nat
      BY <1>1, Zenon DEF IsServer
    <3>2. \A i \in 1 .. Len(Whole(c)) : Whole(c)[i] = At(c, 0, i)
      BY <1>7, Zenon
    <3> QED BY <1>4, <1>7, <2>2, <2>3, <3>1, <3>2, StretchGrows, Zenon
  <2>5. Awaits(k, c, 0, 1 - h)
    <3>1. k.csv = <<>> => 0 = Len(k.csv)
      OBVIOUS
    <3>2. CASE h = 2
      BY <1>4, <2>2, <3>1, <3>2 DEF Awaits
    <3>3. CASE h \in {3, 4}
      BY <1>4, <2>2, <3>3 DEF Awaits
    <3> QED BY <3>2, <3>3, Zenon
  <2>6. h \in Int /\ h <= 4 /\ 0 \in Nat
    OBVIOUS
  <2> HIDE DEF all
  <2> QED BY <1>4, <2>4, <2>5, <2>6, Zenon DEF Replied
<1> HIDE DEF all
<1>12. Answer(k, server')
  BY <1>9, <1>11, Zenon DEF Answer
<1> QED BY <1>9, <1>10, <1>12, ServerKeeps DEF ServerAnalyzes

(* The server closes or resets the connection. *)
LEMMA ServerClosesStep ==
    ASSUME IInv, ServerCloses
    PROVE  IInv'
<1> DEFINE k == worker
           s == server
<1>1. IsServer(s) /\ IsWorker(k) /\ Waits(k) /\ Line(k, s) /\ Answer(k, s)
  BY ServerContext
<1>2. s.phase \notin {"none", "eof", "reset"} /\ k.socket \in {"open", "closing"}
  BY <1>1 DEF ServerCloses, Line, IsWorker
<1>3. CASE server' = [s EXCEPT !.phase = "eof"]
  <2>1. IsServer(server') /\ server'.phase = "eof" /\ server'.out = s.out
    BY <1>1, <1>3 DEF IsServer
  <2>2. Line(k, server')
    BY <1>1, <1>2, <2>1, Zenon DEF Line
  <2>3. k.socket = "open" => Replied(k, s.out)
    BY <1>1, <1>2, EofIsReplied, Zenon
  <2>4. Answer(k, server')
    BY <1>2, <2>1, <2>3, Zenon DEF Answer
  <2> QED BY <2>1, <2>2, <2>4, ServerKeeps DEF ServerCloses
<1>4. CASE server' = [s EXCEPT !.phase = "reset", !.out = <<>>]
  <2>1. IsServer(server') /\ server'.phase = "reset" /\ server'.out = <<>>
    BY <1>1, <1>4 DEF IsServer
  <2>2. Line(k, server') /\ Answer(k, server')
    BY <1>1, <1>2, <2>1, Zenon DEF Line, Answer
  <2> QED BY <2>1, <2>2, ServerKeeps DEF ServerCloses
<1> QED BY <1>3, <1>4 DEF ServerCloses

(* The server sends something else. *)
LEMMA ServerBabblesStep ==
    ASSUME IInv, ServerBabbles
    PROVE  IInv'
<1> DEFINE k == worker
           s == server
           m == Message("Bad", None, None)
<1>1. IsServer(s) /\ IsWorker(k) /\ Waits(k) /\ Line(k, s) /\ Answer(k, s)
  BY ServerContext
<1>2. /\ s.phase \in {"header", "verify"} /\ k.socket \in {"open", "closing"} /\ s.out = <<>>
      /\ server' = [s EXCEPT !.out = @ \o m, !.phase = "eof"]
  BY <1>1 DEF ServerBabbles, Line, IsWorker
<1>3. /\ m \in Seq(Unit) /\ Len(m) = 2
      /\ \A i \in 1 .. 2 : m[i] = [kind |-> "Bad", part |-> i, status |-> None, csv |-> None]
  BY MessageFacts, SMTT(30)
<1> HIDE DEF m
<1>4. <<>> \o m = m
  BY <1>3, SMTT(30)
<1>5. server' = [s EXCEPT !.out = m, !.phase = "eof"]
  BY <1>2, <1>4
<1>6. IsServer(server') /\ server'.phase = "eof" /\ server'.out = m
  BY <1>1, <1>3, <1>5 DEF IsServer
<1>7. Refused(m)
  BY <1>3 DEF Refused
<1>8. k.socket = "open" => k.expecting # "CsvPayload"
  BY <1>1, <1>2, Zenon DEF Answer, Unsent, Idle, Sending, Waits
<1>9. Line(k, server')
  BY <1>1, <1>2, <1>6 DEF Line
<1>10. Answer(k, server')
  BY <1>2, <1>6, <1>7, <1>8 DEF Answer, Replied
<1> QED BY <1>6, <1>9, <1>10, ServerKeeps DEF ServerBabbles

(* Between this client's sessions the server serves another client. *)
LEMMA ServerServesOtherStep ==
    ASSUME IInv, ServerServesOther
    PROVE  IInv'
<1> DEFINE k == worker
           s == server
<1>1. IsServer(s) /\ Line(k, s) /\ Answer(k, s)
  BY ServerContext
<1>2. PICK other \in Csv \cup {None} : server' = [s EXCEPT !.retained = other]
  BY DEF ServerServesOther
<1>3. IsServer(server') /\ server'.phase = "none" /\ s.phase = "none" /\ server'.out = s.out
  BY <1>1, <1>2 DEF ServerServesOther, IsServer
<1>4. Line(k, server') /\ Answer(k, server')
  BY <1>1, <1>3, Zenon DEF Line, Answer
<1> QED BY <1>3, <1>4, ServerKeeps DEF ServerServesOther

\* A step of the reader: the worker learns of it by what the ring holds.
LEMMA ReaderStepKeeps ==
    ASSUME IInv, ReaderStep
    PROVE  IInv'
<1> DEFINE w == World
           v == [worker |-> worker, reader |-> reader', events |-> queue.events]
<1>1. /\ Good(w, server, ui, Leaving(queue.commands)) /\ IsServer(server) /\ IsUi(ui)
      /\ IsQueue(queue) /\ Posted(worker, ui, queue.commands)
  BY Zenon DEF IInv
<1>2. IsWorker(worker) /\ IsReader(reader) /\ IsEvents(queue.events)
      /\ w.worker = worker /\ w.events = queue.events
  BY <1>1, Zenon DEF Good, Base, IsWorld, World
<1>3. worker' = worker /\ ui' = ui /\ server' = server
  BY DEF ReaderStep, ReaderAcquires, ReaderFills, ReaderCloses
<1>4. queue' = queue \/ queue' = [queue EXCEPT !.async = TRUE]
  BY DEF ReaderStep, ReaderAcquires, ReaderFills, ReaderCloses
<1>5. IsQueue(queue') /\ queue'.commands = queue.commands /\ queue'.events = queue.events
  BY <1>1, <1>4 DEF IsQueue
<1>6. IsReader(reader')
  <2>1. CASE ReaderAcquires
    BY <1>2, <2>1 DEF ReaderAcquires, IsReader
  <2>2. CASE ReaderFills
    <3>1. \/ reader' = [reader EXCEPT !.mid = FALSE, !.ring = @ + 1, !.remaining = @ - 1]
          \/ reader' = [reader EXCEPT !.mid = FALSE, !.failed = TRUE]
      BY <2>2, Zenon DEF ReaderFills
    <3>2. DOMAIN reader' = DOMAIN reader
      BY <3>1
    <3>3. reader'.ring \in {reader.ring, reader.ring + 1}
      BY <1>2, <3>1, Zenon DEF IsReader
    <3> QED BY <1>2, <3>2, <3>3 DEF IsReader
  <2>3. CASE ReaderCloses
    BY <1>2, <2>3 DEF ReaderCloses, IsReader
  <2> QED BY <2>1, <2>2, <2>3 DEF ReaderStep
<1>7. IsWorld(v) /\ v.worker = worker /\ v.events = queue.events /\ World' = v
  BY <1>2, <1>3, <1>5, <1>6, Zenon DEF IsWorld, World
<1> HIDE DEF v, w
<1>8. Alike(w.worker, v.worker)
  BY <1>2, <1>7, Zenon DEF Alike, SameHeld, SameStage, SameLine
<1>9. Good(v, server, ui, Leaving(queue.commands))
  BY <1>1, <1>2, <1>7, <1>8, GoodOfAlike, Zenon
<1> QED BY <1>1, <1>3, <1>5, <1>7, <1>9, Zenon DEF IInv

-----------------------------------------------------------------------------
(* The theorems. *)

(* The invariant holds when the client starts. *)
LEMMA InitIsGood ==
    ASSUME Init
    PROVE  IInv
<1>1. /\ worker.socket = "none" /\ ~worker.timer /\ worker.writes = <<>> /\ ~worker.uploading
      /\ worker.file = None /\ worker.expecting = "Nothing" /\ worker.csv = <<>>
      /\ worker.claim = None /\ worker.received = 0 /\ worker.result = <<>> /\ ~worker.quit
  BY Zenon DEF Init
<1>2. <<>> \in Seq(MessageSet) /\ <<>> \in Seq(Unit) /\ <<>> \in Seq(Command)
  OBVIOUS
<1>3. IsWorker(worker)
  BY <1>2, ClientAssumption, SMTT(30) DEF Init, IsWorker
<1>4. IsReader(reader)
  BY Zenon DEF Init, IsReader
<1>5. IsEvents(NoEvents) /\ queue.events = NoEvents
  BY Zenon DEF Init, IsEvents, NoEvents
<1>6. IsServer(server) /\ server.phase = "none" /\ server.out = <<>>
  BY <1>2, Zenon DEF Init, IsServer
<1>7. IsUi(ui) /\ ui.link = "Disconnected" /\ ui.session = "Idle" /\ ~ui.claim
  BY Zenon DEF Init, IsUi, LinkState, SessionState
<1>8. IsQueue(queue) /\ queue.commands = <<>>
  BY <1>2, <1>5, Zenon DEF Init, IsQueue
<1>9. IsWorld(World) /\ World.worker = worker /\ World.events = NoEvents
  BY <1>3, <1>4, <1>5, Zenon DEF World, IsWorld
<1>10. Held(worker) /\ Waits(worker) /\ Rest(worker)
  BY <1>1, <1>3, SMTT(30) DEF Held, Waits, Rest, Sending, Idle
<1>11. Line(worker, server) /\ Answer(worker, server)
  BY <1>1, <1>6, Zenon DEF Line, Answer
<1>12. Shown(worker, NoEvents, ui)
  BY <1>1, <1>7, Zenon DEF Shown, Seen, NoEvents
<1>13. Session(worker, NoEvents, ui, Leaving(queue.commands))
  BY <1>1, <1>7, Zenon DEF Session, Seen, NoEvents, IsBusy, Busy
<1>14. Posted(worker, ui, queue.commands)
  BY <1>1, <1>8 DEF Posted
<1> QED BY <1>6, <1>7, <1>8, <1>9, <1>10, <1>11, <1>12, <1>13, <1>14, Zenon DEF IInv, Good, Base

(* Every step keeps the invariant. *)
LEMMA NextIsGood ==
    ASSUME IInv, [Next]_vars
    PROVE  IInv'
<1>1. CASE UiStep
  <2>1. CASE ClickConnect
    <3>1. [kind |-> "Connect", file |-> None] \in Command
      BY Zenon DEF Command
    <3> QED BY <2>1, <3>1, ClickStep, Zenon DEF ClickConnect
  <2>2. CASE ClickDisconnect
    <3>1. [kind |-> "Disconnect", file |-> None] \in Command
      BY Zenon DEF Command
    <3> QED BY <2>2, <3>1, ClickStep, Zenon DEF ClickDisconnect
  <2>3. CASE ClickSend
    <3>1. PICK f \in File : Click("StartUpload", f, ui.session)
      BY <2>3 DEF ClickSend
    <3>2. [kind |-> "StartUpload", file |-> f] \in Command
      BY Zenon DEF Command
    <3> QED BY <3>1, <3>2, ClickStep, Zenon
  <2>4. CASE ClickCancel
    <3>1. [kind |-> "CancelUpload", file |-> None] \in Command
      BY Zenon DEF Command
    <3> QED BY <2>4, <3>1, ClickStep, Zenon DEF ClickCancel
  <2>5. CASE ClickRequestResult
    <3>1. [kind |-> "RequestResult", file |-> None] \in Command
      BY Zenon DEF Command
    <3> QED BY <2>5, <3>1, ClickStep, Zenon DEF ClickRequestResult
  <2> QED BY <1>1, <2>1, <2>2, <2>3, <2>4, <2>5, CloseWindowStep, PumpWorkerEventsStep DEF UiStep
<1>2. CASE LoopStep
  BY <1>2, OnAsyncStep, DrainCommandStep, DrainEndStep, OnConnectStep, OnConnectTimeoutStep,
     OnSendCompleteStep, OnReadStep, OnReadErrorStep, OnClosedStep, LoopEndsStep, Zenon DEF LoopStep
<1>3. CASE ReaderStep
  BY <1>3, ReaderStepKeeps
<1>4. CASE ServerStep
  BY <1>4, ServerAcksStep, ServerAnalyzesStep, ServerClosesStep, ServerBabblesStep,
     ServerServesOtherStep, Zenon DEF ServerStep
<1>5. CASE UNCHANGED vars
  <2>1. ui' = ui /\ queue' = queue /\ worker' = worker /\ reader' = reader /\ server' = server
    BY <1>5, Zenon DEF vars
  <2>2. World' = World
    BY <2>1, Zenon DEF World
  <2> QED BY <2>1, <2>2, Zenon DEF IInv
<1> QED BY <1>1, <1>2, <1>3, <1>4, <1>5, Zenon DEF Next, Ended

\* The worker, the connection and the window agree in the sense of IInv in every state.
THEOREM Invariance == Spec => []IInv
<1>1. Init => IInv
  BY InitIsGood
<1>2. IInv /\ [Next]_vars => IInv'
  BY NextIsGood
<1> QED BY <1>1, <1>2, PTL DEF Spec

\* Once the window has taken its events its buttons are those of the phase the worker is in:
\* a lost connection, a Disconnect or a Quit never leaves it locked, and it is locked while a
\* file is sent or its result is due (TransferService::onError, handle(DisconnectCommand), UiState).
THEOREM ButtonsAlwaysFollow == Spec => []ButtonsFollowWorker
<1>1. ASSUME IInv
      PROVE  ButtonsFollowWorker
  <2> SUFFICES ASSUME queue.commands = <<>>, queue.events = NoEvents,
                      worker.socket \in {"none", "open"}
               PROVE  /\ IsBusy(ui.session) <=> Busy(worker)
                      /\ ui.link = "Connected" <=> worker.socket = "open"
                      /\ ui.claim <=> worker.claim # None
    BY SMTT(30) DEF ButtonsFollowWorker, Settled, Busy
  <2>1. /\ Line(worker, server) /\ Shown(worker, NoEvents, ui)
        /\ Session(worker, NoEvents, ui, Leaving(<<>>))
    BY <1>1, Zenon DEF IInv, Good, Base, World
  <2>2. \A old : Seen(old, NoEvents.link) = old /\ Seen(old, NoEvents.session) = old
                /\ Seen(old, NoEvents.claim) = old
    BY Zenon DEF Seen, NoEvents
  <2>3. ~Leaving(<<>>)
    BY SMTT(30) DEF Leaving
  <2>4. ui.link = "Connected" <=> worker.socket = "open"
    BY <2>1, <2>2, Zenon DEF Shown
  <2>5. ui.claim <=> worker.claim # None
    BY <2>1, <2>2, SMTT(30) DEF Shown
  <2>6. IsBusy(ui.session) <=> Busy(worker)
    BY <2>1, <2>2, <2>3, Zenon DEF Session, Line
  <2> QED BY <2>4, <2>5, <2>6, Zenon
<1>2. IInv => ButtonsFollowWorker
  BY <1>1
<1> QED BY <1>2, Invariance, PTL

\* A result offered for saving is one whole result, of the file last sent unless an Ack was
\* due when that was begun, however often the download was broken off and resumed
\* (finishDownload, beginCsvReceive, handleCsvBytes).
THEOREM ResultAlwaysWhole == Spec => []ResultIsWhole
<1>1. ASSUME IInv
      PROVE  ResultIsWhole
  <2>1. Held(worker)
    BY <1>1, Zenon DEF IInv, Good, Base, World
  <2> QED BY <2>1, Zenon DEF Held, Own, ResultIsWhole
<1>2. IInv => ResultIsWhole
  BY <1>1
<1> QED BY <1>2, Invariance, PTL

\* A claim is for the file last sent and held only while its result is not there
\* (handleAckBytes, dropResultClaim).
THEOREM ClaimAlwaysHonest == Spec => []ClaimIsHonest
<1>1. ASSUME IInv
      PROVE  ClaimIsHonest
  <2>1. Held(worker) /\ Waits(worker)
    BY <1>1, Zenon DEF IInv, Good, Base, World
  <2> QED BY <2>1, Zenon DEF Held, Waits, Sending, ClaimIsHonest
<1>2. IInv => ClaimIsHonest
  BY <1>1
<1> QED BY <1>2, Invariance, PTL
=============================================================================
